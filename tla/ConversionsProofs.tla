------------------------- MODULE ConversionsProofs -------------------------
(***************************************************************************)
(* Proofs about the parts the run `conversions` checks.  A search of the   *)
(* knowledge index answers of the folder as it was while it ran, and the   *)
(* tables it reads are of one text, for any number of programs that build  *)
(* the index at once, of documents and of texts.  And the plugins, for     *)
(* packages, names, trees and files of any size: the nearest package is    *)
(* taken, and a call that fails has edited nothing and left nothing.       *)
(***************************************************************************)
EXTENDS KnowledgeIndex, MCPlugins, TLAPS, SequenceTheorems, FiniteSetTheorems, WellFoundedInduction

-----------------------------------------------------------------------------
(* The types *)

Names == {Tables[i] : i \in 1..4}
Files == [text : Texts \cup {"gone"}, mtime : 0..(edits + 1)]
Rows == [text : (Texts \ {"bad"}) \cup {"gone"}, mtime : 0..(edits + 1)]
Tellable == Texts \cup {"gone"}
Words == Texts \cup {"gone", "both"}

See == [drop : 0..5, files : SUBSET Docs, rows : [Docs -> Rows],
        of : Docs \cup {None}, stat : 0..(edits + 1), seen : SUBSET Docs]
Tx == [row : [Docs -> Rows], section : [Docs -> Words], word : [Docs -> Words]]
Place == {"drop", "create", "opened", "listed", "looked", "waits", "writes", "asks", "done", "failed"}

IndexTyped ==
  /\ edits \in 0..MaxEdits /\ version \in {None, "old", "new"} /\ lock \in Calls \cup {None}
  /\ at \in [Calls -> Place] /\ sees \in [Calls -> See] /\ tx \in Tx
  /\ table \in [Names -> {None, "old", "new"}]
  /\ folder \in [Docs -> Files] /\ row \in [Docs -> Rows]
  /\ section \in [Docs -> Words] /\ word \in [Docs -> Words]
  /\ answer \in [Calls -> [Docs -> Words]]
  /\ shown \in [Calls -> [Docs -> SUBSET Tellable]]
  /\ blurred \subseteq Docs /\ torn \in BOOLEAN
  /\ \A d \in Docs : /\ folder[d].text = "gone" => folder[d] = Gone
                     /\ folder[d] # Gone => folder[d].mtime # 0

-----------------------------------------------------------------------------
(* The strengthening *)

\* The write lock is of the call that is in its transaction.
LockIsOfTheWriter == \A c \in Calls : at[c] = "writes" <=> lock = c

Past == {"opened", "listed", "looked", "waits", "writes", "asks"}

\* A call passes over a table of another version once, and the version goes last.
DropsInOrder ==
  /\ version # "old" => \A t \in Names : table[t] # "old"
  /\ \A c \in Calls :
       /\ at[c] \in Past \cup {"create"} => version # "old"
       /\ at[c] = "drop" => sees[c].drop \in 1..4
                            /\ \A j \in 1..4 : j < sees[c].drop => table[Tables[j]] # "old"

\* The tables are all of this version, or they hold nothing and nobody uses them.
WholeOrEmpty ==
  \/ \A t \in Names : table[t] = "new"
  \/ /\ row = NoRows /\ section = NoTexts /\ word = NoTexts
     /\ \A c \in Calls : at[c] \notin Past

Agree(r, s, w) == \A d \in Docs : s[d] = w[d] /\ s[d] = r[d].text

\* A row with the time of its file has the text of it.
Tells(r, f, hidden) ==
  \A d \in Docs \ hidden : f[d] # Gone /\ r[d].mtime = f[d].mtime => r[d].text = f[d].text
TimeTells(r) == Tells(r, folder, blurred)

\* What a call under way was shown.
KnowsWhatIs(c) ==
  at[c] \notin Resting => \A d \in Docs : Told(folder[d].text) \in shown[c][d]

\* A file that was not on its list was gone.
ListIsOfTheFolder(c) ==
  at[c] \in {"listed", "looked", "waits"} => \A d \in Docs \ sees[c].files : "gone" \in shown[c][d]

\* The rows a call compares are those of the index, or a call that has written
\* since has shown what it was shown.
RowsAreShown(c) ==
  /\ at[c] = "looked" =>
       /\ TimeTells(sees[c].rows)
       /\ \A d \in Docs \ blurred : row[d] = sees[c].rows[d] \/ row[d].text \in shown[c][d]
  /\ at[c] = "asks" => \A d \in Docs \ blurred : row[d].text \in shown[c][d]

\* How far a transaction is: what it has passed it was shown, or will remove.
WriterIsShown(c) == at[c] = "writes" =>
  /\ Agree(tx.row, tx.section, tx.word) /\ TimeTells(tx.row) /\ TimeTells(sees[c].rows)
  /\ sees[c].of # None => sees[c].of \in sees[c].files
  /\ sees[c].seen \cap sees[c].files = {}
  /\ \A d \in Docs :
       /\ d \in sees[c].files => tx.row[d] = sees[c].rows[d]
       /\ d \in sees[c].seen \ blurred => tx.row[d].text \in shown[c][d]
       /\ d \notin sees[c].seen \cup sees[c].files =>
            "gone" \in shown[c][d] /\ (sees[c].rows[d] = Gone => tx.row[d] = Gone)

CallInv(c) == KnowsWhatIs(c) /\ ListIsOfTheFolder(c) /\ RowsAreShown(c) /\ WriterIsShown(c)

WholeInv ==
  /\ WholeOrEmpty /\ Agree(row, section, word) /\ TimeTells(row)
  /\ \A c \in Calls : CallInv(c)

IndexInv ==
  /\ IndexTyped /\ LockIsOfTheWriter /\ DropsInOrder
  /\ ~torn => WholeInv /\ AnswersAreFresh

-----------------------------------------------------------------------------
(* The first states *)

LEMMA NamesAre == Names = {"chunks_fts", "chunks", "docs", "meta"}
  BY DEF Names, Tables

LEMMA GoneIs ==
  /\ Gone.text = "gone" /\ Gone.mtime = 0
  /\ NoRows = [d \in Docs |-> Gone] /\ NoTexts = [d \in Docs |-> "gone"]
  /\ edits \in Nat => NoRows \in [Docs -> Rows] /\ Gone \in Files
  /\ NoTexts \in [Docs -> Words]
  /\ Agree(NoRows, NoTexts, NoTexts)
  /\ \A r \in Rows \cup Files : r.mtime = 0 /\ r.text = "gone" => r = Gone
BY DEF Gone, NoRows, NoTexts, Rows, Files, Words, Agree

\* What a call that has not begun knows.
LEMMA NothingIs == edits \in Nat => Nothing \in See
BY DEF Nothing, Gone, Rows, See

LEMMA IndexInit == Init => IndexInv
<1> SUFFICES ASSUME Init PROVE IndexInv
  OBVIOUS
<1>1. edits = 0 /\ edits \in Nat /\ \A t \in Texts : t # "gone"
  BY IndexAssumption DEF Init
<1>2. /\ row = NoRows /\ section = NoTexts /\ word = NoTexts
      /\ \A c \in Calls : at[c] = "failed"
      /\ lock = None /\ version \in {None, "old"} /\ torn = FALSE /\ blurred = {}
      /\ at = [c \in Calls |-> "failed"] /\ sees = [c \in Calls |-> Nothing]
      /\ answer = [c \in Calls |-> NoTexts] /\ shown = [c \in Calls |-> [d \in Docs |-> {}]]
      /\ tx = [row |-> NoRows, section |-> NoTexts, word |-> NoTexts]
  BY DEF Init
<1>3. /\ folder \in [Docs -> Files]
      /\ \A d \in Docs : /\ folder[d].text = "gone" => folder[d] = Gone
                         /\ folder[d] # Gone => folder[d].mtime # 0
  <2>1. {Gone} \cup {[text |-> t, mtime |-> 1] : t \in Texts} \subseteq Files
    BY <1>1 DEF Files, Gone
  <2>2. folder \in [Docs -> {Gone} \cup {[text |-> t, mtime |-> 1] : t \in Texts}]
    BY DEF Init
  <2>3. ASSUME NEW d \in Docs
        PROVE  /\ folder[d].text = "gone" => folder[d] = Gone
               /\ folder[d] # Gone => folder[d].mtime # 0
    BY <1>1, <2>2
  <2> QED
    BY <2>1, <2>2, <2>3
<1>4. /\ table \in [Names -> {None, "old", "new"}]
      /\ version # "old" => \A t \in Names : table[t] # "old"
  BY DEF Init, Names, None
<1>5. IndexTyped
  <2>1. /\ edits \in 0..MaxEdits /\ version \in {None, "old", "new"} /\ lock \in Calls \cup {None}
        /\ torn \in BOOLEAN /\ blurred \subseteq Docs
    <3>1. edits \in 0..MaxEdits
      BY <1>1, IndexAssumption
    <3>2. torn \in BOOLEAN
      BY <1>2
    <3> QED
      BY <1>2, <3>1, <3>2
  <2>2. at \in [Calls -> Place]
    BY <1>2 DEF Place
  <2>3. /\ row \in [Docs -> Rows] /\ section \in [Docs -> Words] /\ word \in [Docs -> Words]
        /\ tx \in Tx /\ answer \in [Calls -> [Docs -> Words]]
    BY <1>1, <1>2, GoneIs DEF Tx
  <2>4. /\ sees \in [Calls -> See]
        /\ shown \in [Calls -> [Docs -> SUBSET Tellable]]
    BY <1>1, <1>2, NothingIs
  <2> QED
    BY <1>3, <1>4, <2>1, <2>2, <2>3, <2>4 DEF IndexTyped
<1>6. LockIsOfTheWriter /\ DropsInOrder
  BY <1>2, <1>4, IndexAssumption DEF LockIsOfTheWriter, DropsInOrder, Past
<1>7. WholeInv
  <2>1. WholeOrEmpty /\ Agree(row, section, word)
    BY <1>2, GoneIs DEF WholeOrEmpty, Past
  <2>2. TimeTells(row)
    BY <1>1, <1>2, <1>3, GoneIs DEF TimeTells, Tells, Init
  <2>3. \A c \in Calls : CallInv(c)
    BY <1>2 DEF CallInv, KnowsWhatIs, ListIsOfTheFolder, RowsAreShown, WriterIsShown, Resting
  <2> QED
    BY <2>1, <2>2, <2>3 DEF WholeInv
<1>8. AnswersAreFresh
  BY <1>2 DEF AnswersAreFresh
<1> QED
  BY <1>5, <1>6, <1>7, <1>8 DEF IndexInv

-----------------------------------------------------------------------------
(* The types are kept *)

LEMMA TypesOfMore ==
  ASSUME IndexTyped, edits' = edits \/ edits' = edits + 1
  PROVE  /\ Rows \subseteq Rows' /\ Files \subseteq Files' /\ See \subseteq See'
         /\ row \in [Docs -> Rows'] /\ folder \in [Docs -> Files'] /\ sees \in [Calls -> See']
         /\ tx \in Tx'
<1>1. edits \in Nat /\ 0..(edits + 1) \subseteq 0..(edits' + 1)
  BY DEF IndexTyped
<1>2. Rows \subseteq Rows' /\ Files \subseteq Files'
  BY <1>1 DEF Rows, Files
<1>3. See \subseteq See'
  <2> SUFFICES ASSUME NEW s \in See PROVE s \in See'
    OBVIOUS
  <2>1. s.rows \in [Docs -> Rows']
    BY <1>2 DEF See
  <2> QED
    BY <1>1, <2>1 DEF See
<1>4. row \in [Docs -> Rows] /\ folder \in [Docs -> Files] /\ sees \in [Calls -> See]
      /\ tx \in Tx
  BY DEF IndexTyped, See
<1>5. row \in [Docs -> Rows'] /\ folder \in [Docs -> Files'] /\ sees \in [Calls -> See']
  BY <1>2, <1>3, <1>4
<1>6. tx \in Tx'
  BY <1>2, <1>4 DEF Tx
<1> QED
  BY <1>2, <1>3, <1>5, <1>6

LEMMA OwnerKeepsTypes ==
  ASSUME IndexTyped, NEW d \in Docs, Unlink(d) \/ \E text \in Texts : Edit(d, text)
  PROVE  IndexTyped'
<1>1. edits' = edits + 1 /\ edits' \in 0..MaxEdits /\ edits \in Nat
  BY IndexAssumption DEF IndexTyped, Unlink, Edit
<1>2. UNCHANGED <<table, version, row, section, word, lock, at, sees, tx, answer, torn>>
  BY DEF Unlink, Edit, db
<1>3. /\ row \in [Docs -> Rows'] /\ folder \in [Docs -> Files'] /\ sees \in [Calls -> See']
      /\ tx \in Tx'
  BY <1>1, TypesOfMore
<1>4. PICK text \in Texts \cup {"gone"} :
        /\ shown' = Saw(d, Told(text))
        /\ \/ text \in Texts /\ folder' = [folder EXCEPT ![d] = [text |-> text, mtime |-> edits + 2]]
           \/ /\ text \in Texts /\ folder[d] # Gone
              /\ folder' = [folder EXCEPT ![d].text = text]
           \/ folder' = [folder EXCEPT ![d] = Gone]
  <2>1. Told("gone") = "gone"
    BY DEF Told
  <2> QED
    BY <2>1 DEF Unlink, Edit
<1>5. /\ folder' \in [Docs -> Files']
      /\ \A e \in Docs : /\ folder'[e].text = "gone" => folder'[e] = Gone
                         /\ folder'[e] # Gone => folder'[e].mtime # 0
  <2>1. folder' \in [Docs -> Files'] /\ \A e \in Docs \ {d} : folder'[e] = folder[e]
    <3>1. Gone \in Files' /\ edits + 2 \in 0..(edits' + 1)
      BY <1>1 DEF Gone, Files
    <3>2. text \in Texts => [text |-> text, mtime |-> edits + 2] \in Files'
      BY <3>1 DEF Files
    <3>3. text \in Texts => [folder[d] EXCEPT !.text = text] \in Files'
      BY <1>3 DEF Files
    <3> QED
      BY <1>3, <1>4, <3>1, <3>2, <3>3
  <2>2. /\ folder'[d].text = "gone" => folder'[d] = Gone
        /\ folder'[d] # Gone => folder'[d].mtime # 0
    <3>1. \A t \in Texts : t # "gone"
      BY IndexAssumption
    <3>2. folder[d] \in Files /\ (folder[d] # Gone => folder[d].mtime # 0) /\ d \in DOMAIN folder
      <4>1. folder \in [Docs -> Files]
        BY DEF IndexTyped
      <4>2. \A e \in Docs : folder[e] # Gone => folder[e].mtime # 0
        BY DEF IndexTyped
      <4> QED
        BY <4>1, <4>2
    <3>3. CASE text \in Texts /\ folder' = [folder EXCEPT ![d] = [text |-> text, mtime |-> edits + 2]]
      <4>1. folder'[d] = [text |-> text, mtime |-> edits + 2]
        BY <3>2, <3>3
      <4> QED
        BY <1>1, <3>1, <3>3, <4>1
    <3>4. CASE text \in Texts /\ folder[d] # Gone /\ folder' = [folder EXCEPT ![d].text = text]
      <4>1. folder'[d].text = text /\ folder'[d].mtime = folder[d].mtime
        BY <3>2, <3>4 DEF Files
      <4> QED
        BY <3>1, <3>2, <3>4, <4>1
    <3>5. CASE folder' = [folder EXCEPT ![d] = Gone]
      BY <3>2, <3>5
    <3> QED
      BY <1>4, <3>3, <3>4, <3>5
  <2> QED
    BY <2>1, <2>2 DEF IndexTyped
<1>6. shown' \in [Calls -> [Docs -> SUBSET Tellable]]
  <2>1. Told(text) \in Tellable
    BY DEF Told, Tellable
  <2>2. shown \in [Calls -> [Docs -> SUBSET Tellable]]
    BY DEF IndexTyped
  <2> QED
    BY <1>4, <2>1, <2>2 DEF Saw
<1>7. blurred' \subseteq Docs
  BY DEF Unlink, Edit, IndexTyped
<1> QED
  BY <1>1, <1>2, <1>3, <1>5, <1>6, <1>7 DEF IndexTyped, See

\* A call that only goes on and looks keeps them when what it knows is typed.
LEMMA LooksKeepTypes ==
  ASSUME IndexTyped, NEW c \in Calls, UNCHANGED <<folder, edits, db, lock, tx, shown, blurred, torn>>,
         NEW to \in Place, at' = at \/ at' = [at EXCEPT ![c] = to],
         NEW s \in See, sees' = [sees EXCEPT ![c] = s],
         answer' \in [Calls -> [Docs -> Words]]
  PROVE  IndexTyped'
<1>1. Rows' = Rows /\ See' = See /\ Tx' = Tx /\ Files' = Files /\ Tellable' = Tellable /\ Words' = Words
  BY DEF Rows, See, Tx, Files, Tellable, Words
<1>2. sees' \in [Calls -> See] /\ at' \in [Calls -> Place]
  <2>1. sees \in [Calls -> See] /\ at \in [Calls -> Place]
    BY DEF IndexTyped, See, Place
  <2>2. sees' \in [Calls -> See]
    BY <2>1
  <2>3. at' \in [Calls -> Place]
    BY <2>1
  <2> QED
    BY <2>2, <2>3
<1> QED
  BY <1>1, <1>2 DEF IndexTyped, db

\* The files a call passes over, or reads, are of its list.
LEMMA LookTypes ==
  ASSUME IndexTyped, NEW c \in Calls, ListDocs(c) \/ Look(c) \/ Compare(c) \/ Ask(c) \/ \E d \in Docs : Stat(c, d)
  PROVE  IndexTyped'
<1> DEFINE k == sees[c]
<1>1. /\ k \in See /\ sees \in [Calls -> See] /\ at \in [Calls -> Place] /\ row \in [Docs -> Rows]
      /\ edits \in Nat /\ answer \in [Calls -> [Docs -> Words]]
      /\ section \in [Docs -> Words] /\ word \in [Docs -> Words] /\ folder \in [Docs -> Files]
  BY DEF IndexTyped, See, Place
<1>2. UNCHANGED <<folder, edits, db, lock, tx, shown, blurred, torn>>
  BY DEF ListDocs, Look, Compare, Ask, Stat
<1>7. CASE ListDocs(c)
  <2> DEFINE s == [k EXCEPT !.files = {d \in Docs : folder[d] # Gone}]
  <2>1. s \in See
    BY <1>1 DEF See
  <2>2. sees' = [sees EXCEPT ![c] = s] /\ at' = [at EXCEPT ![c] = "listed"] /\ answer' = answer
    BY <1>1, <1>7 DEF ListDocs, Go
  <2> QED
    BY <1>1, <1>2, <2>1, <2>2, LooksKeepTypes DEF Place
<1>3. CASE Look(c)
  <2> DEFINE s == [k EXCEPT !.rows = row]
  <2>1. s \in See
    BY <1>1 DEF See
  <2>2. sees' = [sees EXCEPT ![c] = s] /\ at' = [at EXCEPT ![c] = "looked"] /\ answer' = answer
    BY <1>1, <1>3 DEF Look, Go
  <2> QED
    BY <1>1, <1>2, <2>1, <2>2, LooksKeepTypes DEF Place
<1>4. CASE Compare(c)
  <2>1. NoRows \in [Docs -> Rows]
    BY <1>1, GoneIs
  <2>2. PICK fs \in {{}, k.files} : sees' = [sees EXCEPT ![c].rows = NoRows, ![c].files = fs]
    BY <1>1, <1>4 DEF Compare
  <2> DEFINE s == [k EXCEPT !.rows = NoRows, !.files = fs]
  <2>3. s \in See
    BY <1>1, <2>1 DEF See
  <2>4. sees' = [sees EXCEPT ![c] = s]
    BY <1>1, <2>2
  <2>5. /\ at' = [at EXCEPT ![c] = "asks"] \/ at' = [at EXCEPT ![c] = "waits"]
        /\ answer' = answer
    BY <1>4 DEF Compare, Go
  <2> QED
    BY <1>1, <1>2, <2>3, <2>4, <2>5, LooksKeepTypes DEF Place
<1>5. CASE Ask(c)
  <2>1. Nothing \in See
    BY <1>1, NothingIs DEF See
  <2>2. sees' = [sees EXCEPT ![c] = Nothing] /\ at' = [at EXCEPT ![c] = "done"]
    BY <1>5 DEF Ask, Go
  <2>3. answer' \in [Calls -> [Docs -> Words]]
    <3>1. [d \in Docs |-> IF row[d] # Gone /\ section[d] # "gone" THEN word[d] ELSE "gone"]
            \in [Docs -> Words]
      BY <1>1 DEF Words
    <3> QED
      BY <1>1, <1>5, <3>1 DEF Ask
  <2> QED
    BY <1>1, <1>2, <2>1, <2>2, <2>3, LooksKeepTypes DEF Place
<1>6. ASSUME NEW d \in Docs, Stat(c, d) PROVE IndexTyped'
  <2> DEFINE s == IF folder[d] = Gone THEN [k EXCEPT !.files = @ \ {d}]
                  ELSE IF k.rows[d] # Gone /\ k.rows[d].mtime = folder[d].mtime
                    THEN [k EXCEPT !.files = @ \ {d}, !.seen = @ \cup {d}]
                  ELSE [k EXCEPT !.of = d, !.stat = folder[d].mtime]
  <2>1. folder[d].mtime \in 0..(edits + 1)
    BY <1>1 DEF Files
  <2>2. s \in See
    BY <1>1, <2>1 DEF See
  <2>3. sees' = [sees EXCEPT ![c] = s] /\ at' = at /\ answer' = answer
    BY <1>6 DEF Stat
  <2> QED
    BY <1>1, <1>2, <2>2, <2>3, LooksKeepTypes DEF Place
<1> QED
  BY <1>3, <1>4, <1>5, <1>6, <1>7

\* What open_db writes.
LEMMA OpenTypes ==
  ASSUME IndexTyped, DropsInOrder, NEW c \in Calls, Open(c) \/ Drop(c) \/ Create(c)
  PROVE  IndexTyped'
<1>1. /\ sees \in [Calls -> See] /\ at \in [Calls -> Place] /\ edits \in Nat
      /\ sees[c].drop \in 0..5 /\ table \in [Names -> {None, "old", "new"}]
      /\ folder \in [Docs -> Files] /\ shown \in [Calls -> [Docs -> SUBSET Tellable]]
      /\ answer \in [Calls -> [Docs -> Words]]
  BY DEF IndexTyped, See, Place
<1>2. /\ UNCHANGED <<folder, edits, lock, tx, blurred>>
      /\ Rows' = Rows /\ Files' = Files /\ See' = See /\ Tx' = Tx
  BY DEF Open, Drop, Create, Rows, Files, See, Tx
<1>3. NoRows \in [Docs -> Rows] /\ NoTexts \in [Docs -> Words]
  BY <1>1, GoneIs
<1>4. at' \in [Calls -> Place]
  <2>1. {"drop", "create", "opened"} \subseteq Place
    BY DEF Place
  <2>2. PICK to \in {"drop", "create", "opened"} : at' = [at EXCEPT ![c] = to]
    BY DEF Open, Drop, Create, Go
  <2> QED
    BY <1>1, <2>1, <2>2
<1>5. sees' \in [Calls -> See]
  <2>1. PICK n \in 0..5 : sees' = [sees EXCEPT ![c].drop = n]
    <3>1. CASE Open(c)
      <4>1. (CASE version = "old" -> 1 [] version = "new" -> 0 [] OTHER -> AllDropped) \in 0..5
        BY DEF AllDropped
      <4> QED
        BY <3>1, <4>1 DEF Open
    <3>2. CASE Drop(c)
      <4>1. sees[c].drop \in 1..4 /\ sees' = [sees EXCEPT ![c].drop = sees[c].drop + 1]
        BY <1>1, <3>2 DEF Drop, Go, DropsInOrder
      <4>2. sees[c].drop + 1 \in 0..5
        BY <4>1
      <4> QED
        BY <4>1, <4>2
    <3>3. CASE Create(c)
      BY <3>3 DEF Create
    <3> QED
      BY <3>1, <3>2, <3>3
  <2>2. [sees[c] EXCEPT !.drop = n] \in See
    <3>1. sees[c] \in See /\ n \in 0..5
      BY <1>1, <2>1
    <3> QED
      BY <3>1 DEF See
  <2>3. sees' = [sees EXCEPT ![c] = [sees[c] EXCEPT !.drop = n]]
    BY <2>1
  <2> QED
    BY <1>1, <2>2, <2>3
<1>6. table' \in [Names -> {None, "old", "new"}] /\ version' \in {None, "old", "new"}
  <2>0. version \in {None, "old", "new"}
    BY DEF IndexTyped
  <2>1. CASE Open(c)
    BY <1>1, <2>0, <2>1 DEF Open, db
  <2>2. CASE Drop(c)
    BY <1>1, <2>0, <2>2 DEF Drop
  <2>3. CASE Create(c)
    BY <1>1, <2>0, <2>3 DEF Create
  <2> QED
    BY <2>1, <2>2, <2>3
<1>7. row' \in [Docs -> Rows] /\ section' \in [Docs -> Words] /\ word' \in [Docs -> Words]
  BY <1>3 DEF Open, Drop, Create, IndexTyped, db
<1>8. shown' \in [Calls -> [Docs -> SUBSET Tellable]] /\ answer' \in [Calls -> [Docs -> Words]]
  <2>1. \A d \in Docs : Told(folder[d].text) \in Tellable
    BY <1>1 DEF Files, Told, Tellable
  <2>2. [d \in Docs |-> {Told(folder[d].text)}] \in [Docs -> SUBSET Tellable]
    BY <2>1
  <2>3. \/ shown' = shown /\ answer' = answer
        \/ /\ shown' = [shown EXCEPT ![c] = [d \in Docs |-> {Told(folder[d].text)}]]
           /\ answer' = [answer EXCEPT ![c] = NoTexts]
    BY DEF Open, Drop, Create
  <2> QED
    BY <1>1, <1>3, <2>2, <2>3
<1>9. torn' \in BOOLEAN
  BY DEF Open, Drop, Create, IndexTyped
<1> QED
  BY <1>2, <1>4, <1>5, <1>6, <1>7, <1>8, <1>9 DEF IndexTyped

NoTx == [row |-> NoRows, section |-> NoTexts, word |-> NoTexts]

\* What a transaction does to one document.
LEMMA WithoutIs ==
  ASSUME NEW t \in Tx, NEW d \in Docs, edits \in Nat
  PROVE  /\ Without(t, d) \in Tx
         /\ Without(t, d).row = [t.row EXCEPT ![d] = Gone]
         /\ Without(t, d).section = [t.section EXCEPT ![d] = "gone"]
         /\ Without(t, d).word = [t.word EXCEPT ![d] = "gone"]
<1>1. Gone \in Rows /\ "gone" \in Words
  BY DEF Gone, Rows, Words
<1>2. t.row \in [Docs -> Rows] /\ t.section \in [Docs -> Words] /\ t.word \in [Docs -> Words]
  BY DEF Tx
<1> QED
  BY <1>1, <1>2 DEF Tx, Without

LEMMA WithIs ==
  ASSUME NEW t \in Tx, NEW d \in Docs, edits \in Nat,
         NEW text \in Texts \ {"bad"}, NEW m \in 0..(edits + 1)
  PROVE  /\ With(t, d, text, m) \in Tx
         /\ With(t, d, text, m).row = [t.row EXCEPT ![d] = [text |-> text, mtime |-> m]]
         /\ With(t, d, text, m).section = [t.section EXCEPT ![d] = text]
         /\ With(t, d, text, m).word = [t.word EXCEPT ![d] = IF @ = "gone" THEN text ELSE "both"]
<1>1. [text |-> text, mtime |-> m] \in Rows /\ text \in Words /\ "both" \in Words
  BY DEF Rows, Words
<1>2. t.row \in [Docs -> Rows] /\ t.section \in [Docs -> Words] /\ t.word \in [Docs -> Words]
  BY DEF Tx
<1>3. [t.row EXCEPT ![d] = [text |-> text, mtime |-> m]] \in [Docs -> Rows]
  BY <1>1, <1>2
<1>4. /\ [t.section EXCEPT ![d] = text] \in [Docs -> Words]
      /\ [t.word EXCEPT ![d] = IF @ = "gone" THEN text ELSE "both"] \in [Docs -> Words]
  BY <1>1, <1>2
<1> QED
  BY <1>3, <1>4 DEF Tx, With

\* What reading a file makes of the transaction.
LEMMA ReadWrites ==
  ASSUME IndexTyped, NEW c \in Calls, Read(c)
  PROVE  LET d == sees[c].of
             text == folder[d].text
             before == sees[c].rows[d]
         IN /\ d \in Docs /\ text \in Texts \cup {"gone"} /\ tx' \in Tx
            /\ \A e \in Docs \ {d} : /\ tx'.row[e] = tx.row[e] /\ tx'.section[e] = tx.section[e]
                                     /\ tx'.word[e] = tx.word[e]
            /\ Told(text) = "gone" /\ before = Gone => tx' = tx
            /\ Told(text) = "gone" /\ before # Gone =>
                 tx'.row[d] = Gone /\ tx'.section[d] = "gone" /\ tx'.word[d] = "gone"
            /\ Told(text) # "gone" /\ before.text = text =>
                 /\ tx'.row[d] = [tx.row[d] EXCEPT !.mtime = sees[c].stat]
                 /\ tx'.section = tx.section /\ tx'.word = tx.word
            /\ Told(text) # "gone" /\ before.text # text =>
                 /\ tx'.row[d] = [text |-> text, mtime |-> sees[c].stat]
                 /\ tx'.section[d] = text
                 /\ (before = Gone /\ tx.word[d] = "gone" => tx'.word[d] = text)
                 /\ (before # Gone => tx'.word[d] = text)
<1> DEFINE d == sees[c].of
           text == folder[d].text
           before == sees[c].rows[d]
           m == sees[c].stat
           t0 == IF before = Gone THEN tx ELSE Without(tx, d)
<1>1. sees[c] \in See /\ tx \in Tx /\ edits \in Nat /\ folder \in [Docs -> Files]
  BY DEF IndexTyped, See, Tx
<1>2. d \in Docs /\ m \in 0..(edits + 1)
  BY <1>1 DEF See, Read
<1>3. text \in Texts \cup {"gone"}
  BY <1>1, <1>2 DEF Files
<1>4. tx.row \in [Docs -> Rows] /\ tx.section \in [Docs -> Words] /\ tx.word \in [Docs -> Words]
  BY <1>1 DEF Tx
<1>5. CASE Told(text) = "gone" /\ before = Gone
  <2>1. tx' = tx
    BY <1>5 DEF Read
  <2> QED
    BY <1>1, <1>2, <1>3, <1>5, <2>1
<1>6. CASE Told(text) = "gone" /\ before # Gone
  <2>1. tx' = Without(tx, d)
    BY <1>6 DEF Read
  <2>2. /\ tx' \in Tx
        /\ tx'.row = [tx.row EXCEPT ![d] = Gone] /\ tx'.section = [tx.section EXCEPT ![d] = "gone"]
        /\ tx'.word = [tx.word EXCEPT ![d] = "gone"]
    BY <1>1, <1>2, <2>1, WithoutIs
  <2> QED
    BY <1>2, <1>3, <1>4, <1>6, <2>2
<1>7. CASE Told(text) # "gone" /\ before.text = text
  <2>1. tx' = [tx EXCEPT !.row[d].mtime = m]
    BY <1>7 DEF Read, TimeOf
  <2>2. [tx.row[d] EXCEPT !.mtime = m] \in Rows
    BY <1>2, <1>4 DEF Rows
  <2>3. /\ tx'.row = [tx.row EXCEPT ![d] = [tx.row[d] EXCEPT !.mtime = m]]
        /\ tx'.section = tx.section /\ tx'.word = tx.word
        /\ tx' = [tx EXCEPT !.row = [tx.row EXCEPT ![d] = [tx.row[d] EXCEPT !.mtime = m]]]
    BY <1>1, <1>2, <2>1 DEF Tx
  <2>4. tx' \in Tx
    BY <1>1, <1>2, <1>4, <2>2, <2>3 DEF Tx
  <2> QED
    BY <1>2, <1>3, <1>4, <1>7, <2>3, <2>4, SMTT(30)
<1>8. CASE Told(text) # "gone" /\ before.text # text
  <2>1. tx' = With(t0, d, text, m)
    BY <1>8 DEF Read, TimeOf
  <2>2. t0 \in Tx /\ text \in Texts \ {"bad"}
    BY <1>1, <1>2, <1>3, <1>8, WithoutIs DEF Told
  <2>3. /\ tx' \in Tx
        /\ tx'.row = [t0.row EXCEPT ![d] = [text |-> text, mtime |-> m]]
        /\ tx'.section = [t0.section EXCEPT ![d] = text]
        /\ tx'.word = [t0.word EXCEPT ![d] = IF @ = "gone" THEN text ELSE "both"]
    BY <1>1, <1>2, <2>1, <2>2, WithIs, SMTT(30)
  <2>4. /\ \A e \in Docs \ {d} : /\ t0.row[e] = tx.row[e] /\ t0.section[e] = tx.section[e]
                                 /\ t0.word[e] = tx.word[e]
        /\ before = Gone => t0.word[d] = tx.word[d]
        /\ before # Gone => t0.word[d] = "gone"
    <3>1. CASE before = Gone
      BY <3>1
    <3>2. CASE before # Gone
      <4>1. /\ t0.row = [tx.row EXCEPT ![d] = Gone]
            /\ t0.section = [tx.section EXCEPT ![d] = "gone"]
            /\ t0.word = [tx.word EXCEPT ![d] = "gone"]
        BY <1>1, <1>2, <3>2, WithoutIs
      <4> HIDE DEF t0
      <4> QED
        BY <1>2, <1>4, <3>2, <4>1
    <3> QED
      BY <3>1, <3>2
  <2>5. t0.row \in [Docs -> Rows] /\ t0.section \in [Docs -> Words] /\ t0.word \in [Docs -> Words]
    BY <2>2 DEF Tx
  <2> HIDE DEF t0
  <2> QED
    BY <1>2, <1>3, <1>8, <2>3, <2>4, <2>5, SMTT(30)
<1> QED
  BY <1>5, <1>6, <1>7, <1>8

\* What a commit makes of the index.
LEMMA CommitWrites ==
  ASSUME IndexTyped, NEW c \in Calls, Commit(c)
  PROVE  /\ row' \in [Docs -> Rows] /\ section' \in [Docs -> Words] /\ word' \in [Docs -> Words]
         /\ \A d \in Docs :
              IF sees[c].rows[d] # Gone /\ d \notin sees[c].seen
                THEN row'[d] = Gone /\ section'[d] = "gone" /\ word'[d] = "gone"
                ELSE row'[d] = tx.row[d] /\ section'[d] = tx.section[d] /\ word'[d] = tx.word[d]
<1> DEFINE left == {d \in Docs : sees[c].rows[d] # Gone /\ d \notin sees[c].seen}
<1>1. /\ tx \in Tx /\ edits \in Nat
      /\ tx.row \in [Docs -> Rows] /\ tx.section \in [Docs -> Words] /\ tx.word \in [Docs -> Words]
  BY DEF IndexTyped, Tx
<1>2. Gone \in Rows /\ "gone" \in Words
  BY <1>1 DEF Gone, Rows, Words
<1>3. ASSUME NEW d \in Docs
      PROVE  Without(tx, d).section[d] = "gone" /\ Without(tx, d).word[d] = "gone"
  BY <1>1 DEF Without, Tx
<1>4. /\ row' = [d \in Docs |-> IF d \in left THEN Gone ELSE tx.row[d]]
      /\ section' = [d \in Docs |-> IF d \in left THEN Without(tx, d).section[d] ELSE tx.section[d]]
      /\ word' = [d \in Docs |-> IF d \in left THEN Without(tx, d).word[d] ELSE tx.word[d]]
  BY DEF Commit
<1>5. \A d \in Docs :
        IF d \in left THEN row'[d] = Gone /\ section'[d] = "gone" /\ word'[d] = "gone"
        ELSE row'[d] = tx.row[d] /\ section'[d] = tx.section[d] /\ word'[d] = tx.word[d]
  BY <1>3, <1>4
<1>6. row' \in [Docs -> Rows] /\ section' \in [Docs -> Words] /\ word' \in [Docs -> Words]
  BY <1>1, <1>2, <1>3, <1>4
<1> QED
  BY <1>5, <1>6

\* What the transaction of a call writes.
LEMMA WriterTypes ==
  ASSUME IndexTyped, NEW c \in Calls, Begin(c) \/ Read(c) \/ Commit(c) \/ Fails(c)
  PROVE  IndexTyped'
<1>1. /\ sees \in [Calls -> See] /\ at \in [Calls -> Place] /\ edits \in Nat
      /\ row \in [Docs -> Rows] /\ section \in [Docs -> Words] /\ word \in [Docs -> Words]
      /\ tx \in Tx /\ shown \in [Calls -> [Docs -> SUBSET Tellable]]
  BY DEF IndexTyped, See, Place, Tx
<1>2. /\ UNCHANGED <<folder, edits, table, version, answer, blurred, torn>>
      /\ Rows' = Rows /\ Files' = Files /\ See' = See /\ Tx' = Tx
  BY DEF Begin, Read, Commit, Fails, db, Rows, Files, See, Tx
<1>3. NoTx \in Tx /\ Nothing \in See
  BY <1>1, GoneIs, NothingIs DEF NoTx, Tx, See
<1>4. at' \in [Calls -> Place]
  <2>1. {"writes", "asks", "failed"} \subseteq Place
    BY DEF Place
  <2>2. at' = at \/ \E to \in {"writes", "asks", "failed"} : at' = [at EXCEPT ![c] = to]
    BY DEF Begin, Read, Commit, Fails, Go
  <2> QED
    BY <1>1, <2>1, <2>2
<1>5. sees' \in [Calls -> See]
  <2>1. CASE Begin(c)
    <3>1. sees' = [sees EXCEPT ![c] = [sees[c] EXCEPT !.rows = row, !.seen = {}, !.of = None]]
      BY <1>1, <2>1 DEF Begin
    <3>2. sees[c] \in See
      BY <1>1
    <3>3. [sees[c] EXCEPT !.rows = row, !.seen = {}, !.of = None] \in See
      BY <1>1, <3>2 DEF See
    <3> QED
      BY <1>1, <3>1, <3>3
  <2>2. CASE Read(c)
    <3>1. PICK more \in {{}, {sees[c].of}} :
            sees' = [sees EXCEPT ![c] = [sees[c] EXCEPT !.of = None, !.files = @ \ {sees[c].of},
                                                        !.seen = @ \cup more]]
      <4>1. /\ sees' = [sees EXCEPT ![c] = [sees[c] EXCEPT !.of = None, !.files = @ \ {sees[c].of},
                          !.seen = IF Told(folder[sees[c].of].text) = "gone" THEN @
                                   ELSE @ \cup {sees[c].of}]]
        BY <1>1, <2>2 DEF Read
      <4>2. sees[c].seen = sees[c].seen \cup {}
        OBVIOUS
      <4> QED
        BY <4>1, <4>2
    <3>2. sees[c].of \in Docs /\ sees[c] \in See
      BY <1>1, <2>2 DEF Read, See
    <3>3. [sees[c] EXCEPT !.of = None, !.files = @ \ {sees[c].of}, !.seen = @ \cup more] \in See
      BY <3>1, <3>2 DEF See
    <3> QED
      BY <1>1, <3>1, <3>3
  <2>3. CASE Commit(c) \/ Fails(c)
    BY <1>1, <1>3, <2>3 DEF Commit, Fails
  <2> QED
    BY <2>1, <2>2, <2>3
<1>6. tx' \in Tx
  <2>1. CASE Begin(c)
    BY <1>1, <2>1 DEF Begin, Tx
  <2>2. CASE Read(c)
    BY <2>2, ReadWrites
  <2>3. CASE Commit(c) \/ Fails(c)
    BY <1>1, <1>3, <2>3 DEF Commit, Fails, NoTx
  <2> QED
    BY <2>1, <2>2, <2>3
<1>7. row' \in [Docs -> Rows] /\ section' \in [Docs -> Words] /\ word' \in [Docs -> Words]
  <2>1. CASE Commit(c)
    BY <2>1, CommitWrites
  <2>2. CASE ~Commit(c)
    BY <1>1, <2>2 DEF Begin, Read, Fails, db
  <2> QED
    BY <2>1, <2>2
<1>8. shown' \in [Calls -> [Docs -> SUBSET Tellable]]
  <2>1. CASE Commit(c)
    <3>1. \A o \in Calls : [d \in Docs |-> shown[o][d] \cup shown[c][d]] \in [Docs -> SUBSET Tellable]
      BY <1>1
    <3>2. shown' = [o \in Calls |-> IF at[o] \in Resting THEN shown[o]
                                    ELSE [d \in Docs |-> shown[o][d] \cup shown[c][d]]]
      BY <2>1 DEF Commit
    <3> QED
      BY <1>1, <3>1, <3>2
  <2>2. CASE Begin(c) \/ Read(c) \/ Fails(c)
    BY <1>1, <2>2 DEF Begin, Read, Fails
  <2> QED
    BY <2>1, <2>2
<1>9. lock' \in Calls \cup {None}
  BY DEF Begin, Read, Commit, Fails, IndexTyped
<1> QED
  BY <1>2, <1>4, <1>5, <1>6, <1>7, <1>8, <1>9 DEF IndexTyped

LEMMA TypesAreKept ==
  ASSUME IndexTyped, DropsInOrder, [Next]_vars
  PROVE  IndexTyped'
<1>1. CASE UNCHANGED vars
  BY <1>1 DEF vars, db, IndexTyped, Rows, Files, See, Tx
<1>2. ASSUME NEW d \in Docs, Unlink(d) \/ \E text \in Texts : Edit(d, text) PROVE IndexTyped'
  BY <1>2, OwnerKeepsTypes
<1>3. ASSUME NEW c \in Calls, Call(c) \/ Fails(c) PROVE IndexTyped'
  BY <1>3, OpenTypes, LookTypes, WriterTypes DEF Call
<1> QED
  BY <1>1, <1>2, <1>3 DEF Next

-----------------------------------------------------------------------------
(* The lock, and the order of the drops *)

LEMMA LockIsKept ==
  ASSUME IndexTyped, LockIsOfTheWriter, [Next]_vars
  PROVE  LockIsOfTheWriter'
<1>1. /\ at \in [Calls -> Place] /\ lock \in Calls \cup {None} /\ None \notin Calls
  BY IndexAssumption DEF IndexTyped, Place
<1>2. CASE UNCHANGED vars
  BY <1>2 DEF vars, LockIsOfTheWriter
<1>3. ASSUME NEW d \in Docs, Unlink(d) \/ \E text \in Texts : Edit(d, text)
      PROVE  LockIsOfTheWriter'
  BY <1>3 DEF Unlink, Edit, LockIsOfTheWriter
<1>4. ASSUME NEW c \in Calls, Call(c) \/ Fails(c) PROVE LockIsOfTheWriter'
  <2>1. CASE Open(c) \/ Drop(c) \/ Create(c) \/ ListDocs(c) \/ Look(c) \/ Compare(c) \/ Ask(c)
    <3>1. PICK to \in Place \ {"writes"} : at' = [at EXCEPT ![c] = to]
      BY <2>1 DEF Open, Drop, Create, ListDocs, Look, Compare, Ask, Go, Place
    <3>2. at[c] # "writes" /\ lock' = lock
      BY <2>1 DEF Open, Drop, Create, ListDocs, Look, Compare, Ask, Go, Resting
    <3> QED
      BY <1>1, <3>1, <3>2 DEF LockIsOfTheWriter
  <2>2. CASE Begin(c)
    BY <1>1, <2>2 DEF Begin, Go, LockIsOfTheWriter
  <2>3. CASE Commit(c)
    BY <1>1, <2>3 DEF Commit, Go, LockIsOfTheWriter
  <2>4. CASE Fails(c)
    BY <1>1, <2>4 DEF Fails, LockIsOfTheWriter
  <2>5. CASE Read(c) \/ \E d \in Docs : Stat(c, d)
    BY <2>5 DEF Read, Stat, LockIsOfTheWriter
  <2> QED
    BY <1>4, <2>1, <2>2, <2>3, <2>4, <2>5 DEF Call
<1> QED
  BY <1>2, <1>3, <1>4 DEF Next

\* Only a drop and the creation write the schema.
LEMMA WhoWritesTheSchema ==
  ASSUME [Next]_vars
  PROVE  UNCHANGED <<table, version>> \/ \E c \in Calls : Drop(c) \/ Create(c)
<1>1. CASE UNCHANGED vars
  BY <1>1 DEF vars, db
<1>2. ASSUME NEW d \in Docs, Unlink(d) \/ \E text \in Texts : Edit(d, text)
      PROVE  UNCHANGED <<table, version>>
  BY <1>2 DEF Unlink, Edit, db
<1>3. ASSUME NEW c \in Calls, Open(c) \/ ListDocs(c) \/ Look(c) \/ Compare(c) \/ Ask(c) \/ Fails(c)
      PROVE  UNCHANGED <<table, version>>
  BY <1>3 DEF Open, ListDocs, Look, Compare, Ask, Fails, db
<1>4. ASSUME NEW c \in Calls, Begin(c) \/ Read(c) PROVE UNCHANGED <<table, version>>
  BY <1>4 DEF Begin, Read, db
<1>5. ASSUME NEW c \in Calls, Commit(c) \/ \E d \in Docs : Stat(c, d)
      PROVE  UNCHANGED <<table, version>>
  BY <1>5 DEF Commit, Stat, db
<1> QED
  BY <1>1, <1>2, <1>3, <1>4, <1>5 DEF Next, Call

\* Nothing becomes old.
LEMMA NothingGetsOld ==
  ASSUME IndexTyped, [Next]_vars
  PROVE  /\ version # "old" => version' # "old"
         /\ \A t \in Names : table[t] # "old" => table'[t] # "old"
<1>1. table \in [Names -> {None, "old", "new"}]
  BY DEF IndexTyped
<1>2. ASSUME NEW c \in Calls, Drop(c)
      PROVE  /\ version # "old" => version' # "old"
             /\ \A t \in Names : table[t] # "old" => table'[t] # "old"
  BY <1>1, <1>2 DEF Drop, None
<1>3. ASSUME NEW c \in Calls, Create(c)
      PROVE  /\ version # "old" => version' # "old"
             /\ \A t \in Names : table[t] # "old" => table'[t] # "old"
  BY <1>1, <1>3 DEF Create
<1> QED
  BY <1>2, <1>3, WhoWritesTheSchema

LEMMA OrderIsKept ==
  ASSUME IndexTyped, DropsInOrder, [Next]_vars
  PROVE  DropsInOrder'
<1>1. /\ at \in [Calls -> Place] /\ sees \in [Calls -> See] /\ version \in {None, "old", "new"}
      /\ table \in [Names -> {None, "old", "new"}]
  BY DEF IndexTyped, Place, See
<1>2. /\ version # "old" => version' # "old"
      /\ \A t \in Names : table[t] # "old" => table'[t] # "old"
  BY NothingGetsOld
<1>3. \A j \in 1..4 : Tables[j] \in Names
  BY DEF Names
<1>4. \A t \in Names : \E j \in 1..4 : t = Tables[j]
  BY DEF Names
<1>5. version' # "old" => \A t \in Names : table'[t] # "old"
  <2>1. CASE version # "old"
    BY <1>2, <2>1 DEF DropsInOrder
  <2>2. CASE version = "old" /\ version' # "old"
    <3>1. PICK c \in Calls : Drop(c) \/ Create(c)
      BY <2>2, WhoWritesTheSchema
    <3>2. ~Create(c)
      BY <2>2 DEF Create, Go, DropsInOrder
    <3>3. Drop(c) /\ at[c] = "drop" /\ sees[c].drop \in 1..4
      BY <3>1, <3>2 DEF Drop, Go, DropsInOrder
    <3>4. sees[c].drop = 4
      <4>1. Tables[sees[c].drop] = "meta"
        BY <2>2, <3>3 DEF Drop, Order
      <4> QED
        BY <3>3, <4>1 DEF Tables
    <3>5. \A j \in 1..3 : table[Tables[j]] # "old"
      BY <3>3, <3>4 DEF DropsInOrder
    <3>6. table' = [table EXCEPT ![Tables[4]] = None]
      BY <3>3, <3>4 DEF Drop, Order
    <3>7. \A j \in 1..4 : table'[Tables[j]] # "old"
      BY <1>1, <1>2, <1>3, <3>5, <3>6 DEF None
    <3> QED
      BY <1>4, <3>7
  <2> QED
    BY <2>1, <2>2
<1>6. ASSUME NEW c \in Calls
      PROVE  /\ at'[c] \in Past \cup {"create"} => version' # "old"
             /\ at'[c] = "drop" => /\ sees'[c].drop \in 1..4
                                   /\ \A j \in 1..4 : j < sees'[c].drop => table'[Tables[j]] # "old"
  <2>1. CASE at'[c] = at[c] /\ (at[c] = "drop" => sees'[c].drop = sees[c].drop)
    BY <1>2, <1>3, <2>1 DEF DropsInOrder
  <2>2. CASE Open(c)
    <3>1. IF version = "old" THEN at'[c] = "drop" /\ sees'[c].drop = 1
          ELSE at'[c] = "create" /\ version' # "old"
      BY <1>1, <1>2, <2>2 DEF Open, See
    <3> QED
      BY <3>1 DEF Past
  <2>3. CASE Drop(c)
    <3>1. /\ sees[c].drop \in 1..4 /\ at[c] = "drop"
          /\ \A j \in 1..4 : j < sees[c].drop => table[Tables[j]] # "old"
      BY <2>3 DEF Drop, Go, DropsInOrder
    <3>2. table'[Tables[sees[c].drop]] # "old"
      BY <1>1, <1>3, <2>3, <3>1 DEF Drop, Order, None
    <3>3. \A j \in 1..4 : j < sees[c].drop + 1 => table'[Tables[j]] # "old"
      <4> SUFFICES ASSUME NEW j \in 1..4, j < sees[c].drop + 1 PROVE table'[Tables[j]] # "old"
        OBVIOUS
      <4>1. j = sees[c].drop \/ j < sees[c].drop
        BY <3>1
      <4> QED
        BY <1>2, <1>3, <3>1, <3>2, <4>1
    <3>4. CASE sees[c].drop = 4
      <4>1. at'[c] = "create" /\ version' = None
        BY <1>1, <2>3, <3>4 DEF Drop, Go, Order, Tables
      <4> QED
        BY <4>1 DEF None, Past
    <3>5. CASE sees[c].drop # 4
      <4>1. sees[c].drop + 1 \in 1..4
        BY <3>1, <3>5
      <4>2. at'[c] = "drop" /\ sees'[c].drop = sees[c].drop + 1
        BY <1>1, <2>3, <3>5 DEF Drop, Go, See
      <4> QED
        BY <3>3, <4>1, <4>2 DEF Past
    <3> QED
      BY <3>4, <3>5
  <2>4. CASE Create(c)
    <3>1. at'[c] = "opened" /\ version' # "old"
      BY <1>1, <2>4 DEF Create, Go, DropsInOrder
    <3> QED
      BY <3>1
  <2>5. CASE ListDocs(c) \/ Look(c) \/ Compare(c) \/ Begin(c) \/ Commit(c) \/ Ask(c) \/ Fails(c)
    <3>1. /\ at'[c] \in Past => at[c] \in Past
          /\ at'[c] \notin {"create", "drop"}
      BY <1>1, <2>5 DEF ListDocs, Look, Compare, Begin, Commit, Ask, Fails, Go, Past
    <3> QED
      BY <1>2, <3>1 DEF DropsInOrder
  <2>6. \/ at'[c] = at[c] /\ (at[c] = "drop" => sees'[c].drop = sees[c].drop)
        \/ Open(c) \/ Drop(c) \/ Create(c)
        \/ ListDocs(c) \/ Look(c) \/ Compare(c) \/ Begin(c) \/ Commit(c) \/ Ask(c) \/ Fails(c)
    <3>1. CASE UNCHANGED vars \/ \E d \in Docs : Unlink(d) \/ \E text \in Texts : Edit(d, text)
      BY <3>1 DEF vars, Unlink, Edit
    <3>2. ASSUME NEW o \in Calls \ {c}, Call(o) \/ Fails(o)
          PROVE  at'[c] = at[c] /\ sees'[c] = sees[c]
      BY <1>1, <3>2 DEF Call, Open, Drop, Create, ListDocs, Look, Compare, Begin, Stat, Read, Commit, Ask,
                        Fails, Go
    <3>3. ASSUME Read(c) \/ \E d \in Docs : Stat(c, d) PROVE at'[c] = at[c] /\ at[c] # "drop"
      BY <3>3 DEF Read, Stat
    <3> QED
      BY <3>1, <3>2, <3>3 DEF Next, Call
  <2> QED
    BY <2>1, <2>2, <2>3, <2>4, <2>5, <2>6
<1> QED
  BY <1>5, <1>6 DEF DropsInOrder, Past

-----------------------------------------------------------------------------
(* The index is whole *)

\* What is kept for a call that another one, or the owner, steps beside.
LEMMA BesideIsKept ==
  ASSUME NEW o \in Calls, CallInv(o), at'[o] = at[o], sees'[o] = sees[o],
         sees[o].rows \in [Docs -> Rows],
         \A d \in Docs : shown[o][d] \subseteq shown'[o][d],
         blurred \subseteq blurred',
         at[o] = "writes" => tx' = tx /\ tx.row \in [Docs -> Rows],
         at[o] \notin Resting => \A d \in Docs : Told(folder'[d].text) \in shown'[o][d],
         \A r \in [Docs -> Rows] : TimeTells(r) => Tells(r, folder', blurred'),
         at[o] \in {"looked", "asks"} =>
           \A d \in Docs \ blurred' : row'[d] = row[d] \/ row'[d].text \in shown'[o][d]
  PROVE  CallInv(o)'
<1>1. KnowsWhatIs(o)'
  BY DEF KnowsWhatIs
<1>2. ListIsOfTheFolder(o)'
  BY DEF CallInv, ListIsOfTheFolder
<1>3. RowsAreShown(o)'
  <2>1. ASSUME at[o] = "looked"
        PROVE  /\ Tells(sees[o].rows, folder', blurred')
               /\ \A d \in Docs \ blurred' :
                    row'[d] = sees[o].rows[d] \/ row'[d].text \in shown'[o][d]
    <3>1. /\ TimeTells(sees[o].rows)
          /\ \A d \in Docs \ blurred :
               row[d] = sees[o].rows[d] \/ row[d].text \in shown[o][d]
      BY <2>1 DEF CallInv, RowsAreShown
    <3>2. Tells(sees[o].rows, folder', blurred')
      BY <3>1
    <3>3. ASSUME NEW d \in Docs \ blurred'
          PROVE  row'[d] = sees[o].rows[d] \/ row'[d].text \in shown'[o][d]
      BY <2>1, <3>1
    <3> QED
      BY <3>2, <3>3
  <2>2. ASSUME at[o] = "asks", NEW d \in Docs \ blurred' PROVE row'[d].text \in shown'[o][d]
    BY <2>2 DEF CallInv, RowsAreShown
  <2> QED
    BY <2>1, <2>2 DEF RowsAreShown, TimeTells
<1>4. WriterIsShown(o)'
  <2> SUFFICES ASSUME at[o] = "writes" PROVE WriterIsShown(o)'
    BY DEF WriterIsShown
  <2>1. WriterIsShown(o) /\ tx' = tx
    BY DEF CallInv
  <2>2. Tells(tx'.row, folder', blurred') /\ Tells(sees'[o].rows, folder', blurred')
    <3>1. TimeTells(tx.row) /\ TimeTells(sees[o].rows)
      BY <2>1 DEF WriterIsShown
    <3> QED
      BY <2>1, <3>1
  <2>3. Agree(tx'.row, tx'.section, tx'.word)
    BY <2>1 DEF WriterIsShown
  <2>4. \A d \in Docs :
          /\ d \in sees'[o].files => tx'.row[d] = sees'[o].rows[d]
          /\ d \in sees'[o].seen \ blurred' => tx'.row[d].text \in shown'[o][d]
          /\ d \notin sees'[o].seen \cup sees'[o].files =>
               "gone" \in shown'[o][d] /\ (sees'[o].rows[d] = Gone => tx'.row[d] = Gone)
    BY <2>1 DEF WriterIsShown
  <2> QED
    BY <2>1, <2>2, <2>3, <2>4 DEF WriterIsShown, Agree, TimeTells
<1> QED
  BY <1>1, <1>2, <1>3, <1>4 DEF CallInv

\* What the step of a call leaves to the others.
LEMMA OthersOf ==
  ASSUME IndexTyped, LockIsOfTheWriter, DropsInOrder, WholeInv, NEW c \in Calls, Call(c) \/ Fails(c), ~torn'
  PROVE  /\ folder' = folder /\ blurred' = blurred /\ ~torn
         /\ \A o \in Calls \ {c} :
              /\ at'[o] = at[o] /\ sees'[o] = sees[o] /\ answer'[o] = answer[o]
              /\ at[o] = "writes" => tx' = tx
              /\ at[o] \in Resting => shown'[o] = shown[o]
              /\ \A d \in Docs : shown[o][d] \subseteq shown'[o][d]
         /\ Commit(c) \/ (row' = row /\ section' = section /\ word' = word)
<1>1. /\ at \in [Calls -> Place] /\ sees \in [Calls -> See] /\ table \in [Names -> {None, "old", "new"}]
      /\ answer \in [Calls -> [Docs -> Words]] /\ shown \in [Calls -> [Docs -> SUBSET Tellable]]
      /\ lock \in Calls \cup {None} /\ None \notin Calls
  BY IndexAssumption DEF IndexTyped, Place, See
<1>2. folder' = folder /\ blurred' = blurred /\ ~torn
  <2>1. CASE Drop(c)
    BY <2>1 DEF Drop
  <2>2. CASE Open(c) \/ Create(c) \/ ListDocs(c) \/ Look(c) \/ Compare(c) \/ Ask(c) \/ Fails(c)
    BY <2>2 DEF Open, Create, ListDocs, Look, Compare, Ask, Fails
  <2>3. CASE Begin(c)
    BY <2>3 DEF Begin
  <2>6. ASSUME NEW d \in Docs, Stat(c, d) PROVE folder' = folder /\ blurred' = blurred /\ ~torn
    BY <2>6 DEF Stat
  <2>4. CASE Read(c)
    BY <2>4 DEF Read
  <2>5. CASE Commit(c)
    BY <2>5 DEF Commit
  <2> QED
    BY <2>1, <2>2, <2>3, <2>4, <2>5, <2>6 DEF Call
<1>3. ASSUME NEW o \in Calls \ {c}
      PROVE  /\ at'[o] = at[o] /\ sees'[o] = sees[o] /\ answer'[o] = answer[o]
  BY <1>1 DEF Call, Open, Drop, Create, ListDocs, Look, Compare, Begin, Stat, Read, Commit, Ask, Fails, Go
<1>4. ASSUME NEW o \in Calls \ {c}, at[o] = "writes" PROVE tx' = tx
  <2>1. lock = o /\ lock # None /\ at[c] # "writes" /\ lock # c
    BY <1>1, <1>4 DEF LockIsOfTheWriter
  <2> QED
    BY <2>1 DEF Call, Open, Drop, Create, ListDocs, Look, Compare, Begin, Stat, Read, Commit, Ask,
       Fails, Go
<1>5. ASSUME NEW o \in Calls \ {c}
      PROVE  /\ at[o] \in Resting => shown'[o] = shown[o]
             /\ \A d \in Docs : shown[o][d] \subseteq shown'[o][d]
  <2>1. CASE Commit(c)
    BY <1>1, <2>1 DEF Commit
  <2>2. CASE ~Commit(c)
    <3>1. shown' = shown \/ \E f : shown' = [shown EXCEPT ![c] = f]
      BY <2>2 DEF Call, Open, Drop, Create, ListDocs, Look, Compare, Begin, Stat, Read, Ask, Fails
    <3> QED
      BY <1>1, <3>1
  <2> QED
    BY <2>1, <2>2
<1>6. Commit(c) \/ (row' = row /\ section' = section /\ word' = word)
  <2>1. CASE Drop(c)
    <3>1. sees[c].drop \in 1..4
      BY <2>1 DEF Drop, Go, DropsInOrder
    <3>2. Order(sees[c].drop) \in Names /\ table[Order(sees[c].drop)] # "new"
      BY <2>1, <3>1 DEF Drop, Order, Names
    <3>3. row = NoRows /\ section = NoTexts /\ word = NoTexts
      BY <3>2 DEF WholeInv, WholeOrEmpty
    <3> QED
      BY <2>1, <3>3 DEF Drop
  <2>2. CASE ~Drop(c)
    BY <2>2 DEF Call, Open, Create, ListDocs, Look, Compare, Begin, Stat, Read, Ask, Fails, db
  <2> QED
    BY <2>1, <2>2
<1> QED
  BY <1>2, <1>3, <1>4, <1>5, <1>6

\* A text of a row is told as it is.
LEMMA RowsAreTold ==
  ASSUME NEW r \in Rows, NEW f \in Files, r.text = f.text
  PROVE  Told(f.text) = r.text
<1>1. r.text # "bad"
  BY IndexAssumption DEF Rows
<1> QED
  BY <1>1 DEF Told

\* The call that opens the index, or ends.
LEMMA OpensOwn ==
  ASSUME IndexTyped, NEW c \in Calls, CallInv(c),
         Open(c) \/ Drop(c) \/ Create(c) \/ Ask(c) \/ Fails(c)
  PROVE  CallInv(c)'
<1>1. at \in [Calls -> Place] /\ shown \in [Calls -> [Docs -> SUBSET Tellable]]
  BY DEF IndexTyped, Place
<1>2. at'[c] \in {"drop", "create", "opened", "done", "failed"}
  BY <1>1 DEF Open, Drop, Create, Ask, Fails, Go
<1>3. KnowsWhatIs(c)'
  <2>1. CASE Open(c)
    <3>1. shown'[c] = [d \in Docs |-> {Told(folder[d].text)}] /\ folder' = folder
      BY <1>1, <2>1 DEF Open
    <3> QED
      BY <3>1 DEF KnowsWhatIs
  <2>2. CASE Drop(c) \/ Create(c)
    <3>1. shown' = shown /\ folder' = folder /\ at[c] \notin Resting
      BY <2>2 DEF Drop, Create, Go, Resting
    <3> QED
      BY <3>1 DEF CallInv, KnowsWhatIs
  <2>3. CASE Ask(c) \/ Fails(c)
    <3>1. at'[c] \in Resting
      BY <1>1, <2>3 DEF Ask, Fails, Go, Resting
    <3> QED
      BY <3>1 DEF KnowsWhatIs
  <2> QED
    BY <2>1, <2>2, <2>3
<1> QED
  BY <1>2, <1>3 DEF CallInv, ListIsOfTheFolder, RowsAreShown, WriterIsShown

\* The call that looks at the folder and the index.
LEMMA LooksOwn ==
  ASSUME IndexTyped, TimeTells(row), NEW c \in Calls, CallInv(c), ListDocs(c) \/ Look(c) \/ Compare(c)
  PROVE  CallInv(c)'
<1>1. /\ at \in [Calls -> Place] /\ sees \in [Calls -> See] /\ sees[c].rows \in [Docs -> Rows]
      /\ folder \in [Docs -> Files] /\ row \in [Docs -> Rows] /\ sees[c].files \subseteq Docs
  BY DEF IndexTyped, Place, See
<1>2. UNCHANGED <<folder, row, shown, blurred>> /\ at[c] \in {"opened", "listed", "looked"}
  BY DEF ListDocs, Look, Compare, Go, db
<1>3. \A d \in Docs : Told(folder[d].text) \in shown[c][d]
  BY <1>2 DEF CallInv, KnowsWhatIs, Resting
<1>4. KnowsWhatIs(c)'
  BY <1>2, <1>3 DEF KnowsWhatIs
<1>5. \A d \in Docs : folder[d] = Gone => "gone" \in shown[c][d]
  <2>1. Told(Gone.text) = "gone"
    BY DEF Told, Gone
  <2> QED
    BY <1>3, <2>1
<1>8. CASE ListDocs(c)
  <2>1. at'[c] = "listed" /\ sees'[c].files = {d \in Docs : folder[d] # Gone}
    BY <1>1, <1>8 DEF ListDocs, Go, See
  <2>2. ListIsOfTheFolder(c)'
    BY <1>2, <1>5, <2>1 DEF ListIsOfTheFolder
  <2> QED
    BY <1>4, <2>1, <2>2 DEF CallInv, RowsAreShown, WriterIsShown
<1>6. CASE Look(c)
  <2>1. /\ at'[c] = "looked" /\ sees'[c].files = sees[c].files /\ sees'[c].rows = row
        /\ at[c] = "listed"
    BY <1>1, <1>6 DEF Look, Go, See
  <2>2. ListIsOfTheFolder(c)'
    BY <1>2, <2>1 DEF CallInv, ListIsOfTheFolder
  <2>3. RowsAreShown(c)'
    BY <1>2, <2>1 DEF RowsAreShown, TimeTells, Tells
  <2> QED
    BY <1>4, <2>1, <2>2, <2>3 DEF CallInv, WriterIsShown
<1>7. CASE Compare(c)
  <2> DEFINE there == {d \in sees[c].files : folder[d] # Gone}
             upToDate == /\ \A d \in there : sees[c].rows[d].mtime = folder[d].mtime
                         /\ \A d \in Docs : sees[c].rows[d] # Gone => d \in there
  <2>1. /\ at[c] = "looked" /\ at'[c] = IF upToDate THEN "asks" ELSE "waits"
        /\ ~upToDate => sees'[c].files = sees[c].files
    BY <1>1, <1>7 DEF Compare, Go, See
  <2>2. /\ TimeTells(sees[c].rows)
        /\ \A d \in Docs \ blurred : row[d] = sees[c].rows[d] \/ row[d].text \in shown[c][d]
        /\ \A d \in Docs \ sees[c].files : "gone" \in shown[c][d]
    BY <2>1 DEF CallInv, RowsAreShown, ListIsOfTheFolder
  <2>3. CASE ~upToDate
    BY <1>2, <1>4, <2>1, <2>2, <2>3 DEF CallInv, ListIsOfTheFolder, RowsAreShown, WriterIsShown
  <2>4. CASE upToDate
    <3>1. ASSUME NEW d \in Docs \ blurred, row[d] = sees[c].rows[d]
          PROVE  row[d].text \in shown[c][d]
      <4>1. CASE d \in there
        <5>1. sees[c].rows[d].mtime = folder[d].mtime /\ folder[d] # Gone
          BY <2>4, <4>1
        <5>2. row[d].text = folder[d].text
          BY <2>2, <3>1, <5>1 DEF TimeTells, Tells
        <5> QED
          BY <1>1, <1>3, <5>2, RowsAreTold
      <4>2. CASE d \notin there
        <5>1. row[d].text = "gone"
          BY <2>4, <3>1, <4>2 DEF Gone
        <5> QED
          BY <1>5, <2>2, <4>2, <5>1
      <4> QED
        BY <4>1, <4>2
    <3>2. \A d \in Docs \ blurred : row[d].text \in shown[c][d]
      BY <2>2, <3>1
    <3>3. at'[c] = "asks"
      BY <2>1, <2>4
    <3>4. RowsAreShown(c)'
      BY <1>2, <3>2, <3>3 DEF RowsAreShown
    <3> QED
      BY <1>4, <3>3, <3>4 DEF CallInv, ListIsOfTheFolder, WriterIsShown
  <2> QED
    BY <2>3, <2>4
<1> QED
  BY <1>6, <1>7, <1>8

\* The call that holds the lock.
LEMMA BeginsOwn ==
  ASSUME IndexTyped, Agree(row, section, word), TimeTells(row),
         NEW c \in Calls, CallInv(c), Begin(c)
  PROVE  CallInv(c)'
<1>1. at \in [Calls -> Place] /\ sees \in [Calls -> See]
  BY DEF IndexTyped, Place, See
<1>2. /\ UNCHANGED <<folder, shown, blurred>> /\ at[c] = "waits" /\ at'[c] = "writes"
      /\ tx' = [row |-> row, section |-> section, word |-> word]
      /\ sees'[c].files = sees[c].files /\ sees'[c].rows = row
      /\ sees'[c].seen = {} /\ sees'[c].of = None
  BY <1>1 DEF Begin, Go, See
<1>3. tx'.row = row /\ tx'.section = section /\ tx'.word = word
  BY <1>2
<1>4. \A d \in Docs \ sees[c].files : "gone" \in shown[c][d]
  BY <1>2 DEF CallInv, ListIsOfTheFolder
<1>5. WriterIsShown(c)'
  <2>1. Agree(tx'.row, tx'.section, tx'.word) /\ Tells(tx'.row, folder', blurred') /\ Tells(sees'[c].rows, folder', blurred')
    BY <1>2, <1>3 DEF Agree, TimeTells, Tells
  <2>2. \A d \in Docs :
          /\ d \in sees'[c].files => tx'.row[d] = sees'[c].rows[d]
          /\ d \in sees'[c].seen \ blurred' => tx'.row[d].text \in shown'[c][d]
          /\ d \notin sees'[c].seen \cup sees'[c].files =>
               "gone" \in shown'[c][d] /\ (sees'[c].rows[d] = Gone => tx'.row[d] = Gone)
    BY <1>2, <1>3, <1>4
  <2> QED
    BY <1>2, <2>1, <2>2 DEF WriterIsShown, Agree, TimeTells, Tells
<1>6. KnowsWhatIs(c)'
  BY <1>2 DEF CallInv, KnowsWhatIs, Resting
<1> QED
  BY <1>2, <1>5, <1>6 DEF CallInv, ListIsOfTheFolder, RowsAreShown

LEMMA StatsOwn ==
  ASSUME IndexTyped, NEW c \in Calls, CallInv(c), NEW d \in Docs, Stat(c, d)
  PROVE  CallInv(c)'
<1>1. /\ sees \in [Calls -> See] /\ folder \in [Docs -> Files] /\ sees[c].seen \subseteq Docs
      /\ sees[c].rows \in [Docs -> Rows] /\ sees[c].files \subseteq Docs
  BY DEF IndexTyped, See
<1>2. /\ UNCHANGED <<folder, shown, blurred, tx, at>> /\ at[c] = "writes"
      /\ sees[c].of = None /\ d \in sees[c].files
  BY DEF Stat
<1>3. /\ WriterIsShown(c) /\ KnowsWhatIs(c)
      /\ TimeTells(sees[c].rows) /\ sees[c].seen \cap sees[c].files = {}
      /\ \A e \in Docs :
           /\ e \in sees[c].files => tx.row[e] = sees[c].rows[e]
           /\ e \in sees[c].seen \ blurred => tx.row[e].text \in shown[c][e]
           /\ e \notin sees[c].seen \cup sees[c].files =>
                "gone" \in shown[c][e] /\ (sees[c].rows[e] = Gone => tx.row[e] = Gone)
  BY <1>2 DEF CallInv, WriterIsShown
<1>4. Told(folder[d].text) \in shown[c][d]
  BY <1>2, <1>3 DEF KnowsWhatIs, Resting
<1>5. /\ sees'[c].rows = sees[c].rows
      /\ sees'[c].of # None => sees'[c].of \in sees'[c].files
      /\ sees'[c].seen \cap sees'[c].files = {}
      /\ \A e \in Docs :
           /\ e \in sees'[c].files => tx.row[e] = sees[c].rows[e]
           /\ e \in sees'[c].seen \ blurred => tx.row[e].text \in shown[c][e]
           /\ e \notin sees'[c].seen \cup sees'[c].files =>
                "gone" \in shown[c][e] /\ (sees[c].rows[e] = Gone => tx.row[e] = Gone)
  <2>1. CASE folder[d] = Gone
    <3>1. /\ sees'[c].rows = sees[c].rows /\ sees'[c].of = None
          /\ sees'[c].files = sees[c].files \ {d} /\ sees'[c].seen = sees[c].seen
      BY <1>1, <1>2, <2>1 DEF Stat, See
    <3>2. "gone" \in shown[c][d]
      BY <1>4, <2>1 DEF Gone, Told
    <3> QED
      BY <1>2, <1>3, <3>1, <3>2
  <2>2. CASE folder[d] # Gone /\ sees[c].rows[d] # Gone /\ sees[c].rows[d].mtime = folder[d].mtime
    <3>1. /\ sees'[c].rows = sees[c].rows /\ sees'[c].of = None
          /\ sees'[c].files = sees[c].files \ {d} /\ sees'[c].seen = sees[c].seen \cup {d}
      BY <1>1, <1>2, <2>2 DEF Stat, See
    <3>2. d \notin blurred => tx.row[d].text \in shown[c][d]
      <4>1. d \notin blurred => sees[c].rows[d].text = folder[d].text
        BY <1>3, <2>2 DEF TimeTells, Tells
      <4>2. tx.row[d] = sees[c].rows[d]
        BY <1>2, <1>3
      <4> QED
        BY <1>1, <1>4, <4>1, <4>2, RowsAreTold
    <3> QED
      BY <1>2, <1>3, <3>1, <3>2
  <2>3. CASE folder[d] # Gone /\ ~(sees[c].rows[d] # Gone /\ sees[c].rows[d].mtime = folder[d].mtime)
    <3>1. /\ sees'[c].rows = sees[c].rows /\ sees'[c].of = d
          /\ sees'[c].files = sees[c].files /\ sees'[c].seen = sees[c].seen
      BY <1>1, <1>2, <2>3 DEF Stat, See
    <3> QED
      BY <1>2, <1>3, <3>1
  <2> QED
    BY <2>1, <2>2, <2>3
<1>6. WriterIsShown(c)'
  <2>1. /\ Agree(tx.row, tx.section, tx.word) /\ Tells(tx.row, folder', blurred') /\ Tells(sees[c].rows, folder', blurred')
    BY <1>2, <1>3 DEF WriterIsShown, TimeTells, Tells
  <2> QED
    BY <1>2, <1>5, <2>1 DEF WriterIsShown, Agree, TimeTells, Tells
<1>7. KnowsWhatIs(c)'
  BY <1>2, <1>3 DEF KnowsWhatIs
<1> QED
  BY <1>2, <1>6, <1>7 DEF CallInv, ListIsOfTheFolder, RowsAreShown

LEMMA ReadsOwn ==
  ASSUME IndexTyped, IndexTyped', NEW c \in Calls, CallInv(c), Read(c)
  PROVE  CallInv(c)'
<1> DEFINE d == sees[c].of
           text == folder[d].text
           before == sees[c].rows[d]
<1>1. /\ sees \in [Calls -> See] /\ folder \in [Docs -> Files] /\ sees[c].seen \subseteq Docs
      /\ sees[c].rows \in [Docs -> Rows] /\ tx.row \in [Docs -> Rows] /\ sees[c].files \subseteq Docs
      /\ tx.section \in [Docs -> Words] /\ tx.word \in [Docs -> Words]
  BY DEF IndexTyped, See, Tx
<1>2. /\ UNCHANGED <<folder, shown, blurred, at>> /\ at[c] = "writes" /\ d # None
  BY DEF Read
<1>3. /\ WriterIsShown(c) /\ KnowsWhatIs(c) /\ Agree(tx.row, tx.section, tx.word)
      /\ TimeTells(sees[c].rows) /\ TimeTells(tx.row) /\ sees[c].seen \cap sees[c].files = {}
      /\ d \in sees[c].files
      /\ \A e \in Docs :
           /\ e \in sees[c].files => tx.row[e] = sees[c].rows[e]
           /\ e \in sees[c].seen \ blurred => tx.row[e].text \in shown[c][e]
           /\ e \notin sees[c].seen \cup sees[c].files =>
                "gone" \in shown[c][e] /\ (sees[c].rows[e] = Gone => tx.row[e] = Gone)
  BY <1>2 DEF CallInv, WriterIsShown
<1>4. d \in Docs /\ tx.row[d] = before /\ tx.section[d] = tx.word[d] /\ tx.section[d] = before.text
  BY <1>1, <1>3 DEF Agree
<1>5. Told(text) \in shown[c][d]
  BY <1>2, <1>3, <1>4 DEF KnowsWhatIs, Resting
<1>6. \A e \in Docs \ {d} : /\ tx'.row[e] = tx.row[e] /\ tx'.section[e] = tx.section[e]
                            /\ tx'.word[e] = tx.word[e]
  BY ReadWrites
<1>7. /\ sees'[c].rows = sees[c].rows /\ sees'[c].of = None
      /\ sees'[c].files = sees[c].files \ {d}
      /\ sees'[c].seen = IF Told(text) = "gone" THEN sees[c].seen ELSE sees[c].seen \cup {d}
  BY <1>1 DEF Read, See
<1>8. /\ tx'.section[d] = tx'.word[d] /\ tx'.section[d] = tx'.row[d].text
      /\ folder[d] # Gone /\ tx'.row[d].mtime = folder[d].mtime /\ d \notin blurred =>
           tx'.row[d].text = text
      /\ Told(text) = "gone" => (before = Gone => tx'.row[d] = Gone)
      /\ Told(text) # "gone" => tx'.row[d].text = text
  <2>1. CASE Told(text) = "gone" /\ before = Gone
    <3>1. tx' = tx
      BY <2>1, ReadWrites
    <3> QED
      BY <1>3, <1>4, <2>1, <3>1 DEF TimeTells, Tells
  <2>2. CASE Told(text) = "gone" /\ before # Gone
    <3>1. tx'.row[d] = Gone /\ tx'.section[d] = "gone" /\ tx'.word[d] = "gone"
      BY <2>2, ReadWrites
    <3>2. folder[d] # Gone => folder[d].mtime # 0
      BY <1>4 DEF IndexTyped
    <3> QED
      BY <2>2, <3>1, <3>2 DEF Gone
  <2>3. CASE Told(text) # "gone" /\ before.text = text
    <3>1. /\ tx'.row[d] = [tx.row[d] EXCEPT !.mtime = sees[c].stat]
          /\ tx'.section = tx.section /\ tx'.word = tx.word
      BY <2>3, ReadWrites
    <3>2. tx'.row[d].text = text
      BY <1>1, <1>4, <2>3, <3>1 DEF Rows
    <3> QED
      BY <1>4, <2>3, <3>1, <3>2
  <2>4. CASE Told(text) # "gone" /\ before.text # text
    <3>1. /\ tx'.row[d] = [text |-> text, mtime |-> sees[c].stat]
          /\ tx'.section[d] = text
          /\ (before = Gone /\ tx.word[d] = "gone" => tx'.word[d] = text)
          /\ (before # Gone => tx'.word[d] = text)
      BY <2>4, ReadWrites
    <3>2. before = Gone => tx.word[d] = "gone"
      BY <1>4 DEF Gone
    <3> QED
      BY <2>4, <3>1, <3>2
  <2> QED
    BY <2>1, <2>2, <2>3, <2>4
<1>9. Agree(tx'.row, tx'.section, tx'.word)
  <2>1. \A e \in Docs : tx.section[e] = tx.word[e] /\ tx.section[e] = tx.row[e].text
    BY <1>3 DEF Agree
  <2>2. ASSUME NEW e \in Docs
        PROVE  tx'.section[e] = tx'.word[e] /\ tx'.section[e] = tx'.row[e].text
    <3>1. CASE e = d
      BY <1>8, <3>1
    <3>2. CASE e # d
      BY <1>6, <2>1, <3>2
    <3> QED
      BY <3>1, <3>2
  <2> QED
    BY <2>2 DEF Agree
<1>10. /\ Tells(tx'.row, folder', blurred') /\ Tells(sees'[c].rows, folder', blurred')
  BY <1>2, <1>3, <1>6, <1>7, <1>8, SMTT(30) DEF TimeTells, Tells
<1>11. /\ sees'[c].seen \cap sees'[c].files = {}
       /\ \A e \in Docs :
           /\ e \in sees'[c].files => tx'.row[e] = sees'[c].rows[e]
           /\ e \in sees'[c].seen \ blurred' => tx'.row[e].text \in shown'[c][e]
           /\ e \notin sees'[c].seen \cup sees'[c].files =>
                "gone" \in shown'[c][e] /\ (sees'[c].rows[e] = Gone => tx'.row[e] = Gone)
  <2>1. sees'[c].seen \cap sees'[c].files = {}
    BY <1>3, <1>7
  <2>2. ASSUME NEW e \in Docs \ {d}
        PROVE  /\ e \in sees'[c].files => tx'.row[e] = sees'[c].rows[e]
               /\ e \in sees'[c].seen \ blurred' => tx'.row[e].text \in shown'[c][e]
               /\ e \notin sees'[c].seen \cup sees'[c].files =>
                    "gone" \in shown'[c][e] /\ (sees'[c].rows[e] = Gone => tx'.row[e] = Gone)
    BY <1>2, <1>3, <1>6, <1>7
  <2>3. d \notin sees'[c].files
    BY <1>7
  <2>4. d \in sees'[c].seen => tx'.row[d].text \in shown'[c][d]
    <3>1. d \in sees'[c].seen => Told(text) # "gone"
      BY <1>3, <1>7
    <3>2. Told(text) # "gone" => Told(text) = text
      BY DEF Told
    <3> QED
      BY <1>2, <1>5, <1>8, <3>1, <3>2
  <2>5. d \notin sees'[c].seen => "gone" \in shown'[c][d] /\ (before = Gone => tx'.row[d] = Gone)
    BY <1>2, <1>5, <1>7, <1>8
  <2> QED
    BY <1>4, <1>7, <2>1, <2>2, <2>3, <2>4, <2>5
<1>12. WriterIsShown(c)'
  BY <1>2, <1>7, <1>9, <1>10, <1>11 DEF WriterIsShown, Agree, TimeTells, Tells
<1>13. KnowsWhatIs(c)'
  BY <1>2, <1>3 DEF KnowsWhatIs
<1> QED
  BY <1>2, <1>12, <1>13 DEF CallInv, ListIsOfTheFolder, RowsAreShown

\* What a transaction leaves when it commits.
LEMMA CommitLeaves ==
  ASSUME IndexTyped, NEW c \in Calls, CallInv(c), Commit(c)
  PROVE  /\ Agree(row', section', word') /\ Tells(row', folder', blurred')
         /\ \A d \in Docs \ blurred : row'[d].text \in shown[c][d]
<1>1. /\ UNCHANGED <<folder, blurred>> /\ at[c] = "writes" /\ sees[c].files = {}
  BY DEF Commit, Go
<1>2. /\ Agree(tx.row, tx.section, tx.word) /\ Tells(tx.row, folder, blurred)
      /\ \A d \in Docs :
           /\ d \in sees[c].seen \ blurred => tx.row[d].text \in shown[c][d]
           /\ d \notin sees[c].seen =>
                "gone" \in shown[c][d] /\ (sees[c].rows[d] = Gone => tx.row[d] = Gone)
  BY <1>1 DEF CallInv, WriterIsShown, TimeTells
<1>3. \A d \in Docs :
        IF sees[c].rows[d] # Gone /\ d \notin sees[c].seen
          THEN row'[d] = Gone /\ section'[d] = "gone" /\ word'[d] = "gone"
          ELSE row'[d] = tx.row[d] /\ section'[d] = tx.section[d] /\ word'[d] = tx.word[d]
  BY CommitWrites
<1>4. Gone.text = "gone" /\ Gone.mtime = 0
  BY DEF Gone
<1>5. ASSUME NEW d \in Docs PROVE section'[d] = word'[d] /\ section'[d] = row'[d].text
  BY <1>2, <1>3, <1>4 DEF Agree
<1>6. ASSUME NEW d \in Docs \ blurred, folder[d] # Gone, row'[d].mtime = folder[d].mtime
      PROVE  row'[d].text = folder[d].text
  <2>1. folder[d].mtime # 0
    BY <1>6 DEF IndexTyped
  <2> QED
    BY <1>2, <1>3, <1>4, <1>6, <2>1 DEF Tells
<1>7. ASSUME NEW d \in Docs \ blurred PROVE row'[d].text \in shown[c][d]
  BY <1>2, <1>3, <1>4
<1> QED
  BY <1>1, <1>5, <1>6, <1>7 DEF Agree, Tells

LEMMA CommitsOwn ==
  ASSUME IndexTyped, NEW c \in Calls, CallInv(c), Commit(c)
  PROVE  CallInv(c)'
<1>1. at \in [Calls -> Place] /\ shown \in [Calls -> [Docs -> SUBSET Tellable]]
  BY DEF IndexTyped, Place
<1>2. /\ UNCHANGED <<folder, blurred>> /\ at[c] = "writes" /\ at'[c] = "asks"
      /\ \A d \in Docs : shown'[c][d] = shown[c][d]
  BY <1>1 DEF Commit, Go, Resting
<1>3. \A d \in Docs \ blurred : row'[d].text \in shown[c][d]
  BY CommitLeaves
<1>4. KnowsWhatIs(c)' /\ RowsAreShown(c)'
  BY <1>2, <1>3 DEF CallInv, KnowsWhatIs, RowsAreShown, Resting
<1> QED
  BY <1>2, <1>4 DEF CallInv, ListIsOfTheFolder, WriterIsShown

\* Whatever a call does.
LEMMA CallKeepsWhole ==
  ASSUME IndexTyped, IndexTyped', LockIsOfTheWriter, DropsInOrder, WholeInv,
         NEW c \in Calls, Call(c) \/ Fails(c), ~torn'
  PROVE  WholeInv'
<1>1. /\ at \in [Calls -> Place] /\ sees \in [Calls -> See] /\ table \in [Names -> {None, "old", "new"}]
      /\ row \in [Docs -> Rows] /\ shown \in [Calls -> [Docs -> SUBSET Tellable]]
      /\ tx.row \in [Docs -> Rows]
  BY DEF IndexTyped, Place, See, Tx
<1>2. /\ folder' = folder /\ blurred' = blurred
      /\ \A o \in Calls \ {c} :
           /\ at'[o] = at[o] /\ sees'[o] = sees[o]
           /\ at[o] = "writes" => tx' = tx
           /\ \A d \in Docs : shown[o][d] \subseteq shown'[o][d]
      /\ Commit(c) \/ (row' = row /\ section' = section /\ word' = word)
  BY OthersOf
<1>3. /\ WholeOrEmpty /\ Agree(row, section, word) /\ TimeTells(row)
      /\ \A o \in Calls : CallInv(o)
  BY DEF WholeInv
<1>4. Agree(row', section', word') /\ Tells(row', folder', blurred')
  <2>1. CASE Commit(c)
    BY <1>3, <2>1, CommitLeaves
  <2>2. CASE ~Commit(c)
    BY <1>2, <1>3, <2>2 DEF TimeTells
  <2> QED
    BY <2>1, <2>2
<1>5. WholeOrEmpty'
  <2>1. CASE Create(c)
    <3>1. version # "old"
      BY <2>1 DEF Create, Go, DropsInOrder
    <3>2. \A t \in Names : table[t] \in {None, "new"}
      BY <1>1, <3>1 DEF DropsInOrder
    <3>3. table' = [t \in Names |-> IF table[t] = None THEN "new" ELSE table[t]]
      BY <1>1, <2>1 DEF Create
    <3> QED
      BY <3>2, <3>3 DEF WholeOrEmpty
  <2>2. CASE Drop(c)
    <3>1. sees[c].drop \in 1..4
      BY <2>2 DEF Drop, Go, DropsInOrder
    <3>2. Order(sees[c].drop) \in Names /\ table[Order(sees[c].drop)] # "new"
      BY <2>2, <3>1 DEF Drop, Order, Names
    <3>3. /\ row = NoRows /\ section = NoTexts /\ word = NoTexts
          /\ \A o \in Calls : at[o] \notin Past
      BY <1>3, <3>2 DEF WholeOrEmpty
    <3>4. at'[c] \in {"create", "drop"} /\ ~Commit(c)
      BY <1>1, <2>2 DEF Drop, Commit, Go
    <3>5. \A o \in Calls : at'[o] \notin Past
      BY <1>2, <3>3, <3>4 DEF Past
    <3> QED
      BY <1>2, <3>3, <3>4, <3>5 DEF WholeOrEmpty
  <2>3. CASE ~Create(c) /\ ~Drop(c)
    <3>1. table' = table
      BY <2>3 DEF Call, Open, ListDocs, Look, Compare, Begin, Stat, Read, Commit, Ask, Fails, db
    <3>2. CASE \A t \in Names : table[t] = "new"
      BY <3>1, <3>2 DEF WholeOrEmpty
    <3>3. CASE ~(\A t \in Names : table[t] = "new")
      <4>1. /\ row = NoRows /\ section = NoTexts /\ word = NoTexts
            /\ \A o \in Calls : at[o] \notin Past
        BY <1>3, <3>3 DEF WholeOrEmpty
      <4>2. Open(c) \/ Fails(c)
        BY <2>3, <4>1 DEF Call, ListDocs, Look, Compare, Begin, Stat, Read, Commit, Ask, Go, Past
      <4>3. at'[c] \notin Past /\ ~Commit(c)
        BY <1>1, <4>1, <4>2 DEF Open, Fails, Past, Commit, Go
      <4>4. \A o \in Calls : at'[o] \notin Past
        BY <1>2, <4>1, <4>3
      <4> QED
        BY <1>2, <4>1, <4>3, <4>4 DEF WholeOrEmpty
    <3> QED
      BY <3>2, <3>3
  <2> QED
    BY <2>1, <2>2, <2>3
<1>6. CallInv(c)'
  BY <1>3, OpensOwn, LooksOwn, BeginsOwn, StatsOwn, ReadsOwn, CommitsOwn DEF Call
<1>7. ASSUME NEW o \in Calls \ {c} PROVE CallInv(o)'
  <2>1. /\ at'[o] = at[o] /\ sees'[o] = sees[o] /\ sees[o].rows \in [Docs -> Rows]
        /\ at[o] = "writes" => tx' = tx
        /\ \A d \in Docs : shown[o][d] \subseteq shown'[o][d]
    BY <1>1, <1>2 DEF See
  <2>2. at[o] \notin Resting => \A d \in Docs : Told(folder'[d].text) \in shown'[o][d]
    BY <1>2, <1>3, <2>1 DEF CallInv, KnowsWhatIs
  <2>3. \A r \in [Docs -> Rows] : TimeTells(r) => Tells(r, folder', blurred')
    BY <1>2 DEF TimeTells
  <2>4. ASSUME at[o] \in {"looked", "asks"}, NEW d \in Docs \ blurred'
        PROVE  row'[d] = row[d] \/ row'[d].text \in shown'[o][d]
    <3>1. CASE Commit(c)
      <4>1. row'[d].text \in shown[c][d]
        BY <1>2, <1>3, <3>1, CommitLeaves
      <4>2. shown'[o][d] = shown[o][d] \cup shown[c][d]
        BY <1>1, <2>4, <3>1 DEF Commit, Resting
      <4> QED
        BY <4>1, <4>2
    <3>2. CASE ~Commit(c)
      BY <1>2, <3>2
    <3> QED
      BY <3>1, <3>2
  <2> QED
    BY <1>1, <1>2, <1>3, <2>1, <2>2, <2>3, <2>4, BesideIsKept
<1> QED
  BY <1>4, <1>5, <1>6, <1>7 DEF WholeInv, TimeTells

\* An edit is shown to the calls under way, and takes a time no row has.
LEMMA OwnerKeepsWhole ==
  ASSUME IndexTyped, WholeInv, NEW d \in Docs, Unlink(d) \/ \E text \in Texts : Edit(d, text)
  PROVE  WholeInv' /\ (AnswersAreFresh => AnswersAreFresh')
<1>1. /\ UNCHANGED <<table, version, row, section, word, lock, at, sees, tx, answer, torn>>
      /\ blurred \subseteq blurred'
  BY DEF Unlink, Edit, db
<1>2. /\ at \in [Calls -> Place] /\ sees \in [Calls -> See] /\ row \in [Docs -> Rows]
      /\ tx.row \in [Docs -> Rows] /\ folder \in [Docs -> Files]
      /\ shown \in [Calls -> [Docs -> SUBSET Tellable]] /\ edits \in Nat
  BY DEF IndexTyped, Place, See, Tx
<1>3. PICK text \in Texts \cup {"gone"} :
        /\ shown' = Saw(d, Told(text))
        /\ \/ folder' = [folder EXCEPT ![d] = [text |-> text, mtime |-> edits + 2]]
           \/ folder' = [folder EXCEPT ![d].text = text] /\ d \in blurred'
           \/ folder' = [folder EXCEPT ![d] = Gone] /\ text = "gone"
  BY DEF Unlink, Edit, Told
<1>4. folder'[d].text = text /\ \A e \in Docs \ {d} : folder'[e] = folder[e]
  <2>1. CASE folder' = [folder EXCEPT ![d] = [text |-> text, mtime |-> edits + 2]]
    BY <1>2, <2>1
  <2>2. CASE folder' = [folder EXCEPT ![d].text = text]
    BY <1>2, <2>2 DEF Files
  <2>3. CASE folder' = [folder EXCEPT ![d] = Gone] /\ text = "gone"
    BY <1>2, <2>3 DEF Gone
  <2> QED
    BY <1>3, <2>1, <2>2, <2>3
<1>5. ASSUME NEW o \in Calls
      PROVE  /\ at[o] \in Resting => shown'[o] = shown[o]
             /\ \A e \in Docs : shown[o][e] \subseteq shown'[o][e]
             /\ at[o] \notin Resting => Told(text) \in shown'[o][d]
  BY <1>2, <1>3 DEF Saw
<1>6. ASSUME NEW r \in [Docs -> Rows], TimeTells(r) PROVE Tells(r, folder', blurred')
  <2> SUFFICES ASSUME NEW e \in Docs \ blurred', folder'[e] # Gone, r[e].mtime = folder'[e].mtime
               PROVE  r[e].text = folder'[e].text
    BY DEF Tells
  <2>1. CASE e # d
    BY <1>1, <1>4, <1>6, <2>1 DEF TimeTells, Tells
  <2>2. CASE e = d
    <3>1. folder' = [folder EXCEPT ![d] = [text |-> text, mtime |-> edits + 2]]
      BY <1>2, <1>3, <2>2
    <3>2. r[d].mtime = edits + 2 /\ r[d].mtime \in 0..(edits + 1)
      BY <1>2, <2>2, <3>1 DEF Rows
    <3> QED
      BY <1>2, <3>2
  <2> QED
    BY <2>1, <2>2
<1>7. ASSUME NEW o \in Calls PROVE CallInv(o)'
  <2>1. at[o] \notin Resting => \A e \in Docs : Told(folder'[e].text) \in shown'[o][e]
    <3>1. at[o] \notin Resting => \A e \in Docs : Told(folder[e].text) \in shown[o][e]
      BY DEF WholeInv, CallInv, KnowsWhatIs
    <3> QED
      BY <1>4, <1>5, <3>1
  <2>2. CallInv(o) /\ sees[o].rows \in [Docs -> Rows]
    BY <1>2 DEF WholeInv, See
  <2> QED
    BY <1>1, <1>2, <1>5, <1>6, <2>1, <2>2, BesideIsKept
<1>8. WholeOrEmpty' /\ Agree(row', section', word') /\ Tells(row', folder', blurred')
  BY <1>1, <1>2, <1>6 DEF WholeInv, WholeOrEmpty
<1>9. AnswersAreFresh => AnswersAreFresh'
  BY <1>1, <1>5 DEF AnswersAreFresh, Resting
<1> QED
  BY <1>7, <1>8, <1>9 DEF WholeInv, TimeTells

\* What a call is told is what the index was, when all that is in it it was shown.
LEMMA CallKeepsAnswers ==
  ASSUME IndexTyped, LockIsOfTheWriter, DropsInOrder, WholeInv, AnswersAreFresh,
         NEW c \in Calls, Call(c) \/ Fails(c), ~torn'
  PROVE  AnswersAreFresh'
<1>1. /\ at \in [Calls -> Place] /\ answer \in [Calls -> [Docs -> Words]]
      /\ row \in [Docs -> Rows] /\ section \in [Docs -> Words] /\ word \in [Docs -> Words]
  BY DEF IndexTyped, Place
<1>2. /\ blurred' = blurred /\ ~torn
      /\ \A o \in Calls \ {c} :
           /\ at'[o] = at[o] /\ answer'[o] = answer[o]
           /\ at[o] \in Resting => shown'[o] = shown[o]
  BY OthersOf
<1>3. ASSUME NEW o \in Calls \ {c}, at'[o] = "done", NEW d \in Docs \ blurred'
      PROVE  answer'[o][d] \in shown'[o][d]
  BY <1>2, <1>3 DEF AnswersAreFresh, Resting
<1>4. ASSUME at'[c] = "done", NEW d \in Docs \ blurred' PROVE answer'[c][d] \in shown'[c][d]
  <2>1. Ask(c)
    <3>1. Drop(c) \/ Create(c) \/ ListDocs(c) \/ Look(c) \/ Compare(c) \/ Begin(c) \/ Commit(c) \/ Open(c)
            \/ Fails(c) => at'[c] # "done"
      BY <1>1 DEF Drop, Create, ListDocs, Look, Compare, Begin, Commit, Open, Fails, Go
    <3>2. Read(c) \/ (\E e \in Docs : Stat(c, e)) => at'[c] = "writes"
      BY DEF Read, Stat
    <3> QED
      BY <1>4, <3>1, <3>2 DEF Call
  <2>2. /\ at[c] = "asks" /\ shown' = shown
        /\ answer'[c][d] = IF row[d] # Gone /\ section[d] # "gone" THEN word[d] ELSE "gone"
    BY <1>1, <2>1 DEF Ask, Go
  <2>3. section[d] = word[d] /\ section[d] = row[d].text
    BY DEF WholeInv, Agree
  <2>4. answer'[c][d] = row[d].text
    BY <2>2, <2>3 DEF Gone
  <2>5. row[d].text \in shown[c][d]
    BY <1>2, <2>2 DEF WholeInv, CallInv, RowsAreShown
  <2> QED
    BY <2>2, <2>4, <2>5
<1> QED
  BY <1>3, <1>4 DEF AnswersAreFresh

LEMMA IndexStep == IndexInv /\ [Next]_vars => IndexInv'
<1> SUFFICES ASSUME IndexInv, [Next]_vars PROVE IndexInv'
  OBVIOUS
<1>1. IndexTyped /\ LockIsOfTheWriter /\ DropsInOrder /\ (~torn => WholeInv /\ AnswersAreFresh)
  BY DEF IndexInv
<1>2. IndexTyped' /\ LockIsOfTheWriter' /\ DropsInOrder'
  BY <1>1, TypesAreKept, LockIsKept, OrderIsKept
<1>3. ASSUME ~torn' PROVE WholeInv' /\ AnswersAreFresh'
  <2>1. CASE UNCHANGED vars
    <3>1. WholeInv /\ AnswersAreFresh
      BY <1>1, <1>3, <2>1 DEF vars
    <3> QED
      BY <2>1, <3>1 DEF vars, db, WholeInv, WholeOrEmpty, Agree, TimeTells, Tells, CallInv,
           KnowsWhatIs, ListIsOfTheFolder, RowsAreShown, WriterIsShown, AnswersAreFresh
  <2>2. ASSUME NEW d \in Docs, Unlink(d) \/ \E text \in Texts : Edit(d, text)
        PROVE  WholeInv' /\ AnswersAreFresh'
    <3>1. torn' = torn
      BY <2>2 DEF Unlink, Edit
    <3> QED
      BY <1>1, <1>3, <2>2, <3>1, OwnerKeepsWhole
  <2>3. ASSUME NEW c \in Calls, Call(c) \/ Fails(c) PROVE WholeInv' /\ AnswersAreFresh'
    <3>1. ~torn
      <4>1. CASE Drop(c)
        BY <1>3, <4>1 DEF Drop
      <4>2. CASE Open(c) \/ Create(c) \/ ListDocs(c) \/ Look(c) \/ Compare(c) \/ Ask(c) \/ Fails(c)
        BY <1>3, <4>2 DEF Open, Create, ListDocs, Look, Compare, Ask, Fails
      <4>3. CASE Begin(c) \/ Read(c)
        BY <1>3, <4>3 DEF Begin, Read
      <4>4. ASSUME Commit(c) \/ \E d \in Docs : Stat(c, d) PROVE torn' = torn
        BY <4>4 DEF Commit, Stat
      <4> QED
        BY <1>3, <2>3, <4>1, <4>2, <4>3, <4>4 DEF Call
    <3> QED
      BY <1>1, <1>2, <1>3, <2>3, <3>1, CallKeepsWhole, CallKeepsAnswers
  <2> QED
    BY <2>1, <2>2, <2>3 DEF Next
<1> QED
  BY <1>2, <1>3 DEF IndexInv

-----------------------------------------------------------------------------
\* A search answers of the folder as it was since the search began - of each
\* document what it was at some moment of the call, or of a call that wrote the
\* index meanwhile - and what it finds, joins and lists is of one text, whoever
\* dies while writing the index and whatever the owner edits meanwhile
\* (nothing_to_write, reindex and with_db): of any number of calls, documents
\* and texts.
THEOREM IndexIsWholeHolds == Spec => []IndexIsWhole
<1>1. IndexInv => IndexIsWhole
  <2> SUFFICES ASSUME IndexInv PROVE IndexIsWhole
    OBVIOUS
  <2>1. TypeOK
    <3>1. row \in [Docs -> [text : Texts \cup {"gone"}, mtime : 0..(MaxEdits + 1)]]
      <4>1. Rows \subseteq [text : Texts \cup {"gone"}, mtime : 0..(MaxEdits + 1)]
        BY IndexAssumption DEF IndexInv, IndexTyped, Rows
      <4>2. row \in [Docs -> Rows]
        BY DEF IndexInv, IndexTyped
      <4> QED
        BY <4>1, <4>2
    <3>2. lock # None <=> \E c \in Calls : at[c] = "writes"
      BY IndexAssumption DEF IndexInv, IndexTyped, LockIsOfTheWriter
    <3>3. /\ version \in {None, "old", "new"} /\ lock \in Calls \cup {None}
          /\ at \in [Calls -> {"drop", "create", "opened", "listed", "looked", "waits", "writes", "asks",
                               "done", "failed"}]
      BY DEF IndexInv, IndexTyped, Place
    <3> QED
      BY <3>1, <3>2, <3>3 DEF TypeOK
  <2>2. SchemaIsOfTheVersion
    <3>1. DOMAIN table = Names
      BY DEF IndexInv, IndexTyped
    <3> QED
      BY <3>1 DEF IndexInv, DropsInOrder, SchemaIsOfTheVersion
  <2>3. TablesAgree
    BY DEF IndexInv, WholeInv, Agree, TablesAgree
  <2>4. AnswersAreFresh
    <3>1. CASE torn
      BY <3>1 DEF AnswersAreFresh
    <3>2. CASE ~torn
      BY <3>2 DEF IndexInv
    <3> QED
      BY <3>1, <3>2
  <2> QED
    BY <2>1, <2>2, <2>3, <2>4 DEF IndexIsWhole
<1> QED
  BY <1>1, IndexInit, IndexStep, PTL DEF Spec

-----------------------------------------------------------------------------
(* Plugins: counting and recursion *)

\* A set of numbers has a least one.
LEMMA LeastNat == ASSUME NEW T, T \subseteq Nat, T # {} PROVE \E x \in T : \A y \in T : x <= y
<1>1. PICK x \in T : \A y \in T : ~(<<y, x>> \in OpToRel(<, Nat))
  BY WFMin, NatLessThanWellFounded
<1>2. \A y \in T : ~(y < x)  BY <1>1 DEF OpToRel
<1> QED  BY <1>2

\* What holds of zero, and of the next of any number it holds of, holds of all.
LEMMA Counting ==
  ASSUME NEW S, 0 \in S, \A n \in Nat : n \in S => n + 1 \in S
  PROVE  \A n \in Nat : n \in S
<1> SUFFICES ASSUME Nat \ S # {} PROVE FALSE  OBVIOUS
<1>1. PICK x \in Nat \ S : \A y \in Nat \ S : x <= y  BY LeastNat
<1>2. x # 0 /\ x - 1 \in Nat  BY <1>1
<1>3. x - 1 \in S  BY <1>1, <1>2
<1> QED  BY <1>1, <1>2, <1>3

\* What a function is up to m that goes on from nothing by these steps, each
\* of a sequence that becomes another: `adds` says which numbers change it and
\* `becomes` what it becomes.
GoesOn(h, becomes, m) ==
  h = [n \in 0..m |-> IF n = 0 THEN <<>> ELSE becomes[<<n, h[n - 1]>>]]

\* There is one.
LEMMA Recursion ==
  ASSUME NEW T, <<>> \in T, NEW becomes, \A n \in Nat : \A x \in T : becomes[<<n, x>>] \in T, NEW m \in Nat
  PROVE  \E h \in [0..m -> T] : GoesOn(h, becomes, m)
<1> DEFINE Is(h, k) == h[0] = <<>> /\ \A n \in 1..k : h[n] = becomes[<<n, h[n - 1]>>]
           S == {k \in Nat : \E h \in [0..k -> T] : Is(h, k)}
<1>1. 0 \in S
  <2> DEFINE f == [n \in 0..0 |-> <<>>]
  <2>1. f \in [0..0 -> T] /\ Is(f, 0)  OBVIOUS
  <2> QED  BY <2>1
<1>2. ASSUME NEW k \in Nat, k \in S PROVE k + 1 \in S
  <2>1. PICK f \in [0..k -> T] : Is(f, k)  BY <1>2
  <2> DEFINE g == [n \in 0..(k + 1) |-> IF n = k + 1 THEN becomes[<<k + 1, f[k]>>] ELSE f[n]]
  <2>2. g \in [0..(k + 1) -> T]  OBVIOUS
  <2>3. g[k + 1] = becomes[<<k + 1, f[k]>>] /\ \A n \in 0..k : g[n] = f[n]  OBVIOUS
  <2> HIDE DEF g
  <2>4. ASSUME NEW n \in 1..(k + 1) PROVE g[n] = becomes[<<n, g[n - 1]>>]
    <3>1. CASE n = k + 1
      <4>1. n - 1 = k /\ k \in 0..k  BY <3>1
      <4> QED  BY <2>3, <3>1, <4>1
    <3>2. CASE n # k + 1
      <4>1. n \in 1..k /\ n - 1 \in 0..k /\ n \in 0..k  BY <3>2
      <4>2. g[n] = f[n] /\ g[n - 1] = f[n - 1]  BY <2>3, <4>1
      <4> QED  BY <2>1, <4>1, <4>2
    <3> QED  BY <3>1, <3>2
  <2>5. Is(g, k + 1)  BY <2>1, <2>3, <2>4
  <2> QED  BY <2>2, <2>5
<1> HIDE DEF S
<1>3. m \in S  BY <1>1, <1>2, Counting
<1>4. PICK h \in [0..m -> T] : Is(h, m)  BY <1>3 DEF S
<1>5. \A n \in 0..m : h[n] = IF n = 0 THEN <<>> ELSE becomes[<<n, h[n - 1]>>]
  <2> TAKE n \in 0..m
  <2>1. n # 0 => n \in 1..m  OBVIOUS
  <2> QED  BY <1>4, <2>1
<1>6. h = [n \in 0..m |-> h[n]]  BY <1>4
<1> QED  BY <1>5, <1>6 DEF GoesOn

-----------------------------------------------------------------------------
(* The directories a path lies in *)

LEMMA PrefixIs ==
  ASSUME NEW p \in Path, NEW q \in Path
  PROVE  PL!IsPrefix(p, q) <=> Len(p) <= Len(q) /\ \A k \in 1..Len(p) : p[k] = q[k]
<1>1. SubSeq(p, 1, Len(p)) = p  BY DEF Path
<1>2. ASSUME Len(p) <= Len(q)
      PROVE  SubSeq(q, 1, Len(p)) \in Path /\ Len(SubSeq(q, 1, Len(p))) = Len(p)
             /\ \A k \in 1..Len(p) : SubSeq(q, 1, Len(p))[k] = q[k]
  BY <1>2, SubSeqProperties DEF Path
<1>3. ASSUME Len(p) <= Len(q), \A k \in 1..Len(p) : p[k] = q[k] PROVE p = SubSeq(q, 1, Len(p))
  BY <1>2, <1>3, SeqEqual DEF Path
<1> QED  BY <1>1, <1>2, <1>3 DEF PL!IsPrefix

LEMMA UpIs == ASSUME NEW q \in Path PROVE PL!Up(q) = {p \in Path : PL!IsPrefix(p, q)}
<1>1. ASSUME NEW n \in 0..Len(q) PROVE SubSeq(q, 1, n) \in Path /\ PL!IsPrefix(SubSeq(q, 1, n), q)
  <2>1. /\ SubSeq(q, 1, n) \in Path /\ Len(SubSeq(q, 1, n)) = n
        /\ \A k \in 1..n : SubSeq(q, 1, n)[k] = q[k]
    BY <1>1, SubSeqProperties DEF Path
  <2>2. n <= Len(q)  BY <1>1
  <2> DEFINE p == SubSeq(q, 1, n)
  <2>3. p \in Path /\ Len(p) <= Len(q) /\ \A k \in 1..Len(p) : p[k] = q[k]  BY <2>1, <2>2
  <2> HIDE DEF p
  <2>4. PL!IsPrefix(p, q)  BY <2>3, PrefixIs
  <2> QED  BY <2>3, <2>4 DEF p
<1>2. ASSUME NEW p \in Path, PL!IsPrefix(p, q) PROVE p \in PL!Up(q)
  <2>1. Len(p) \in 0..Len(q) /\ SubSeq(p, 1, Len(p)) = SubSeq(q, 1, Len(p))  BY <1>2 DEF PL!IsPrefix, Path
  <2>2. SubSeq(p, 1, Len(p)) = p  BY DEF Path
  <2> QED  BY <2>1, <2>2 DEF PL!Up
<1> QED  BY <1>1, <1>2 DEF PL!Up

LEMMA PrefixOfPrefix ==
  ASSUME NEW p \in Path, NEW q \in Path, NEW r \in Path, PL!IsPrefix(p, q), PL!IsPrefix(q, r)
  PROVE  PL!IsPrefix(p, r)
<1>1. Len(p) \in Nat /\ Len(q) \in Nat /\ Len(r) \in Nat  BY DEF Path
<1>2. /\ Len(p) <= Len(q) /\ \A k \in 1..Len(p) : p[k] = q[k]
      /\ Len(q) <= Len(r) /\ \A k \in 1..Len(q) : q[k] = r[k]
  BY PrefixIs
<1>3. Len(p) <= Len(r) /\ \A k \in 1..Len(p) : p[k] = r[k]  BY <1>1, <1>2
<1> QED  BY <1>3, PrefixIs

\* Of two that a path lies in, the shorter one is above the other.
LEMMA PrefixesCompare ==
  ASSUME NEW p \in Path, NEW q \in Path, NEW r \in Path, PL!IsPrefix(p, r), PL!IsPrefix(q, r), Len(p) <= Len(q)
  PROVE  PL!IsPrefix(p, q)
<1>1. Len(p) \in Nat /\ Len(q) \in Nat /\ Len(r) \in Nat  BY DEF Path
<1>2. /\ \A k \in 1..Len(p) : p[k] = r[k]
      /\ \A k \in 1..Len(q) : q[k] = r[k]
  BY PrefixIs
<1>3. Len(p) <= Len(q) /\ \A k \in 1..Len(p) : p[k] = q[k]  BY <1>1, <1>2
<1> QED  BY <1>3, PrefixIs

LEMMA EqualPrefix ==
  ASSUME NEW p \in Path, NEW q \in Path, PL!IsPrefix(p, q), Len(p) >= Len(q)
  PROVE  p = q
<1>1. Len(p) \in Nat /\ Len(q) \in Nat  BY DEF Path
<1>2. Len(p) = Len(q) /\ \A k \in 1..Len(p) : p[k] = q[k]  BY <1>1, PrefixIs
<1> QED  BY <1>2, SeqEqual DEF Path

LEMMA PrefixOfJoined ==
  ASSUME NEW p \in Path, NEW f \in Path
  PROVE  p \o f \in Path /\ Len(p \o f) = Len(p) + Len(f) /\ PL!IsPrefix(p, p \o f)
<1>1. /\ p \o f \in Path /\ Len(p \o f) = Len(p) + Len(f)
      /\ \A k \in 1..Len(p) : (p \o f)[k] = p[k]
  BY ConcatProperties DEF Path
<1>2. Len(p) \in Nat /\ Len(f) \in Nat  BY DEF Path
<1> DEFINE q == p \o f
<1>3. q \in Path /\ Len(p) <= Len(q) /\ \A k \in 1..Len(p) : p[k] = q[k]  BY <1>1, <1>2
<1> HIDE DEF q
<1>4. PL!IsPrefix(p, q)  BY <1>3, PrefixIs
<1> QED  BY <1>1, <1>4 DEF q

LEMMA PrefixIsItself == ASSUME NEW p \in Path PROVE PL!IsPrefix(p, p)
  BY PrefixIs DEF Path

-----------------------------------------------------------------------------
(* The files of a new plugin are there all or none *)

\* The shortest directory that is missing: what is above it is there.
LEMMA TopmostIs ==
  ASSUME NEW tree \in SUBSET Path, NEW dir \in Path, \A path \in tree : PL!Up(path) \subseteq tree
  PROVE  \/ PL!TopmostMissing(tree, dir) = PL!NotFound /\ PL!Up(dir) \subseteq tree
         \/ \E m \in PL!Up(dir) :
              /\ PL!TopmostMissing(tree, dir) = <<m>>
              /\ \A p \in PL!Up(dir) : p \in tree <=> Len(p) < Len(m)
<1> DEFINE missing == {p \in PL!Up(dir) : \A q \in PL!Up(dir) : PL!IsPrefix(p, q) => q \notin tree}
           m == CHOOSE p \in missing : \A q \in missing : Len(p) <= Len(q)
           lengths == {Len(p) : p \in missing}
<1>0. \A p \in PL!Up(dir) : p \in Path /\ PL!IsPrefix(p, dir) /\ Len(p) \in Nat  BY UpIs DEF Path
<1>1. PL!TopmostMissing(tree, dir) = IF missing = {} THEN PL!NotFound ELSE <<m>>
  BY DEF PL!TopmostMissing, PL!Found
<1>2. CASE missing = {}
  <2>1. dir \in PL!Up(dir)  BY UpIs, PrefixIsItself
  <2>2. PICK q \in PL!Up(dir) : PL!IsPrefix(dir, q) /\ q \in tree  BY <1>2, <2>1
  <2>3. Len(q) <= Len(dir)  BY <1>0, PrefixIs
  <2>4. dir = q  BY <1>0, <2>2, <2>3, EqualPrefix DEF Path
  <2> QED  BY <1>1, <1>2, <2>2, <2>4
<1>3. CASE missing # {}
  <2>1. lengths \subseteq Nat /\ lengths # {}  BY <1>0, <1>3
  <2>2. \E x \in lengths : \A y \in lengths : x <= y  BY <2>1, LeastNat
  <2>3. \E p \in missing : \A q \in missing : Len(p) <= Len(q)  BY <2>2
  <2>4. m \in missing /\ \A q \in missing : Len(m) <= Len(q)  BY <2>3
  <2> HIDE DEF m
  <2>5. ASSUME NEW p \in PL!Up(dir), Len(p) < Len(m) PROVE p \in tree
    <3>1. p \notin missing  BY <1>0, <2>4, <2>5
    <3>2. PICK q \in PL!Up(dir) : PL!IsPrefix(p, q) /\ q \in tree  BY <3>1
    <3>3. p \in PL!Up(q)  BY <1>0, <3>2, UpIs
    <3> QED  BY <3>2, <3>3
  <2>6. ASSUME NEW p \in PL!Up(dir), ~(Len(p) < Len(m)) PROVE p \notin tree
    <3>1. Len(m) <= Len(p)  BY <1>0, <2>4, <2>6
    <3>2. PL!IsPrefix(m, p)  BY <1>0, <2>4, <3>1, PrefixesCompare
    <3> QED  BY <2>4, <3>2
  <2> QED  BY <1>1, <1>3, <2>4, <2>5, <2>6
<1> QED  BY <1>2, <1>3

\* Targets that are to be written below a directory that holds nothing, and that
\* are none of others.
ToWrite(tree, dir, attempted, others) ==
  /\ tree \subseteq Path /\ dir \in Path /\ others \subseteq Path
  /\ attempted \in Seq(Path \ {<<>>}) /\ attempted # <<>>
  /\ \A path \in tree : PL!Up(path) \subseteq tree
  /\ \A k \in DOMAIN attempted : \A other \in others :
       ~PL!IsPrefix(dir \o attempted[k], other) /\ ~PL!IsPrefix(other, dir \o attempted[k])
  /\ ~PL!HoldsAnything(tree, dir)

\* Some of the files, or of the directories on their way.
AreOnTheWay(some, dir, attempted) ==
  some \subseteq Path /\ \A p \in some : \E k \in DOMAIN attempted : PL!IsPrefix(p, dir \o attempted[k])

\* When any of those are there and are undone, what was there is there and what
\* others wrote; nothing else is when the target had been made, and directories
\* above it when not.
LEMMA UndoneIs ==
  ASSUME NEW tree, NEW dir, NEW attempted, NEW others, NEW some,
         ToWrite(tree, dir, attempted, others), AreOnTheWay(some, dir, attempted)
  PROVE  LET wrote == tree \cup some \cup PL!WriteFile(others)
             kept == tree \cup PL!WriteFile(others)
             undone == PL!Undo(wrote, dir, attempted, PL!TopmostMissing(tree, dir))
         IN /\ kept \subseteq undone
            /\ dir \in wrote => undone = kept
            /\ \A p \in undone \ kept : p \in Path /\ PL!IsPrefix(p, dir) /\ p # dir
<1> SUFFICES ASSUME tree \in SUBSET Path, dir \in Path, others \in SUBSET Path, attempted \in Seq(Path \ {<<>>}),
                    attempted # <<>>, some \in SUBSET Path,
                    \A p \in some : \E k \in DOMAIN attempted : PL!IsPrefix(p, dir \o attempted[k]),
                    \A path \in tree : PL!Up(path) \subseteq tree,
                    \A k \in DOMAIN attempted : \A other \in others :
                      ~PL!IsPrefix(dir \o attempted[k], other) /\ ~PL!IsPrefix(other, dir \o attempted[k]),
                    ~PL!HoldsAnything(tree, dir)
             PROVE  LET wrote == tree \cup some \cup PL!WriteFile(others)
                        kept == tree \cup PL!WriteFile(others)
                        undone == PL!Undo(wrote, dir, attempted, PL!TopmostMissing(tree, dir))
                    IN /\ kept \subseteq undone
                       /\ dir \in wrote => undone = kept
                       /\ \A p \in undone \ kept : p \in Path /\ PL!IsPrefix(p, dir) /\ p # dir
  BY Zenon DEF ToWrite, AreOnTheWay
<1> DEFINE file(k) == dir \o attempted[k]
           Targets == {file(k) : k \in DOMAIN attempted}
           Others == PL!WriteFile(others)
           wrote == (tree \cup some \cup Others) \ Targets
           dirs == UNION {{p \in PL!Up(f) : Len(p) > Len(dir) /\ p # f} : f \in Targets}
           below == PL!RemoveDirs(wrote, dirs)
<1>0. Len(dir) \in Nat  BY DEF Path
<1>1. ASSUME NEW k \in DOMAIN attempted
      PROVE  file(k) \in Path /\ PL!IsPrefix(dir, file(k)) /\ Len(file(k)) \in Nat /\ Len(file(k)) > Len(dir)
  <2>1. attempted[k] \in Path /\ attempted[k] # <<>>  BY <1>1
  <2>2. Len(attempted[k]) \in Nat /\ Len(attempted[k]) # 0  BY <2>1 DEF Path
  <2> QED  BY <1>0, <2>1, <2>2, PrefixOfJoined DEF Path
\* Nothing below dir was there.
<1>2. ASSUME NEW p \in Path, PL!IsPrefix(dir, p), Len(p) > Len(dir) PROVE p \notin tree
  <2>1. SUFFICES ASSUME p \in tree PROVE FALSE  OBVIOUS
  <2>2. dir \in tree  BY <1>2, <2>1, UpIs
  <2>3. p \in PL!Children(tree, dir)  BY <1>2, <2>1 DEF PL!Children, PL!IsStrictPrefix
  <2> QED  BY <2>2, <2>3 DEF PL!HoldsAnything
<1>3. ASSUME NEW p \in Others
      PROVE  p \in Path /\ \E other \in others : PL!IsPrefix(p, other)
  BY UpIs DEF PL!WriteFile
<1>4. ASSUME NEW p \in Path, NEW other \in others, PL!IsPrefix(p, other) PROVE p \in Others
  BY <1>4, UpIs DEF PL!WriteFile
<1>5. \A p \in some : p \in Path /\ \E k \in DOMAIN attempted : PL!IsPrefix(p, file(k))
  OBVIOUS
<1>6. ASSUME NEW p \in dirs
      PROVE  p \in Path /\ Len(p) > Len(dir) /\ PL!IsPrefix(dir, p) /\ \E k \in DOMAIN attempted : PL!IsPrefix(p, file(k))
  <2>1. PICK k \in DOMAIN attempted : p \in PL!Up(file(k)) /\ Len(p) > Len(dir)  BY <1>6
  <2>2. p \in Path /\ PL!IsPrefix(p, file(k))  BY <1>1, <2>1, UpIs
  <2>3. Len(dir) <= Len(p)  BY <1>0, <2>1, <2>2 DEF Path
  <2> QED  BY <1>1, <2>1, <2>2, <2>3, PrefixesCompare
<1>7. ASSUME NEW p \in Path, NEW k \in DOMAIN attempted, PL!IsPrefix(p, file(k)), Len(p) > Len(dir), p \notin Targets
      PROVE  p \in dirs
  <2>1. file(k) \in Path /\ file(k) \in Targets  BY <1>1, <1>7
  <2>2. p \in PL!Up(file(k)) /\ p # file(k)  BY <1>7, <2>1, UpIs
  <2> HIDE DEF file
  <2> QED  BY <1>7, <2>1, <2>2
<1> HIDE DEF file, Others, dirs
\* What was there and what others wrote is none of the files.
<1>8. tree \cup Others \subseteq wrote
  <2>1. ASSUME NEW k \in DOMAIN attempted PROVE file(k) \notin tree  BY <1>1, <1>2
  <2>2. ASSUME NEW k \in DOMAIN attempted, file(k) \in Others PROVE FALSE  BY <1>3, <2>2 DEF file
  <2> QED  BY <2>1, <2>2
<1>9. ASSUME NEW x \in wrote, x \notin tree \cup Others, x \notin dirs PROVE x \in PL!Up(dir)
  <2>1. x \in some /\ x \notin Targets  BY <1>9
  <2>2. x \in Path  BY <1>5, <2>1
  <2>3. PICK k \in DOMAIN attempted : PL!IsPrefix(x, file(k))  BY <1>5, <2>1
  <2>4. ~(Len(x) > Len(dir))  BY <1>7, <1>9, <2>1, <2>2, <2>3
  <2>5. Len(x) <= Len(dir)  BY <1>0, <2>2, <2>4 DEF Path
  <2>6. PL!IsPrefix(x, dir)  BY <1>1, <2>2, <2>3, <2>5, PrefixesCompare
  <2> QED  BY <2>2, <2>6, UpIs
<1>10. ASSUME NEW other \in others, NEW k \in DOMAIN attempted PROVE ~PL!IsPrefix(other, file(k))
  BY DEF file
<1>11. ASSUME NEW x \in Path, NEW y \in tree \cup Others, PL!IsPrefix(x, y) PROVE x \in tree \cup Others
  <2>1. CASE y \in tree  BY <1>11, <2>1, UpIs
  <2>2. CASE y \in Others
    <3>1. y \in Path  BY <1>3, <2>2
    <3>2. PICK other \in others : PL!IsPrefix(y, other)  BY <1>3, <2>2
    <3>3. PL!IsPrefix(x, other)  BY <1>11, <3>1, <3>2, PrefixOfPrefix
    <3> QED  BY <1>4, <3>3
  <2> QED  BY <2>1, <2>2
\* Where none of these is removed they stay, with the directories of others.
<1>12. ASSUME NEW T, tree \cup Others \subseteq T, NEW gone, gone \cap (tree \cup others) = {}
       PROVE  tree \cup Others \subseteq PL!RemoveDirs(T, gone)
  <2>1. ASSUME NEW x \in Others PROVE x \in PL!RemoveDirs(T, gone)
    <3>1. PICK other \in others : PL!IsPrefix(x, other)  BY <1>3
    <3>2. other \in Others  BY <1>4, PrefixIsItself
    <3>3. other \in T \ gone  BY <1>12, <3>2
    <3> QED  BY <1>12, <3>1, <3>3 DEF PL!RemoveDirs
  <2>2. tree \subseteq PL!RemoveDirs(T, gone)  BY <1>12 DEF PL!RemoveDirs
  <2> QED  BY <2>1, <2>2
<1>13. dirs \cap (tree \cup others) = {}
  <2>1. ASSUME NEW p \in dirs PROVE p \notin tree  BY <1>2, <1>6
  <2>2. ASSUME NEW p \in dirs PROVE p \notin others  BY <1>6, <1>10
  <2> QED  BY <2>1, <2>2
<1>14. tree \cup Others \subseteq below  BY <1>8, <1>12, <1>13
<1>15. ASSUME NEW x \in below PROVE x \in tree \cup Others \cup PL!Up(dir)
  <2>0. x \in wrote  BY DEF PL!RemoveDirs
  <2>1. CASE x \in dirs /\ x \notin tree \cup Others
    <3>1. PICK q \in wrote \ dirs : PL!IsPrefix(x, q)  BY <2>1 DEF PL!RemoveDirs
    <3>2. x \in Path  BY <1>6, <2>1
    <3>3. q \notin tree \cup Others  BY <1>11, <2>1, <3>1, <3>2
    <3>4. q \in PL!Up(dir)  BY <1>9, <3>1, <3>3
    <3>5. q \in Path /\ PL!IsPrefix(q, dir)  BY <3>4, UpIs
    <3>6. Len(x) <= Len(dir)  BY <3>1, <3>2, <3>5, PrefixOfPrefix, PrefixIs
    <3> QED  BY <1>0, <1>6, <2>1, <3>2, <3>6 DEF Path
  <2> QED  BY <1>9, <2>0, <2>1
<1> DEFINE topmost == PL!TopmostMissing(tree, dir)
           undone == PL!Undo(tree \cup some \cup Others, dir, attempted, topmost)
           made == tree \cup some \cup Others
\* The target is no file of its own and no directory below itself.
<1>20. dir \in below <=> dir \in made
  <2>1. dir \notin dirs  BY <1>0, <1>6
  <2>2. dir \notin Targets  BY <1>0, <1>1
  <2> QED  BY <2>1, <2>2 DEF PL!RemoveDirs
<1>16. undone = IF topmost = PL!NotFound THEN below ELSE PL!Upwards(below, dir, topmost[1])
  <2>1. Targets = {dir \o f : f \in PL!Range(attempted)}  BY DEF PL!Range, file
  <2> QED  BY <2>1 DEF PL!Undo, dirs
<1> HIDE DEF below, wrote, topmost, undone, made
<1> DEFINE Done == /\ tree \cup Others \subseteq undone
                   /\ dir \in made => undone = tree \cup Others
                   /\ \A p \in undone \ (tree \cup Others) : p \in Path /\ PL!IsPrefix(p, dir) /\ p # dir
<1>17. ASSUME topmost = PL!NotFound /\ PL!Up(dir) \subseteq tree PROVE Done
  <2>1. below = tree \cup Others  BY <1>14, <1>15, <1>17
  <2> QED  BY <1>16, <1>17, <2>1
<1>18. ASSUME \E m \in PL!Up(dir) : topmost = <<m>> /\ \A p \in PL!Up(dir) : p \in tree <=> Len(p) < Len(m)
       PROVE  Done
  <2>1. PICK m \in PL!Up(dir) : topmost = <<m>> /\ \A p \in PL!Up(dir) : p \in tree <=> Len(p) < Len(m)  BY <1>18
  <2> DEFINE up == {p \in PL!Up(dir) : Len(p) >= Len(m)}
  <2>2. topmost # PL!NotFound /\ topmost[1] = m  BY <2>1 DEF PL!NotFound
  <2>3. \A p \in PL!Up(dir) : p \in Path /\ Len(p) \in Nat /\ PL!IsPrefix(p, dir)  BY UpIs DEF Path
  <2>4. \A p \in PL!Up(dir) : p \in up <=> p \notin tree  BY <2>1, <2>3
  <2>5. up \cap (tree \cup others) = {}
    <3>1. ASSUME NEW p \in up PROVE p \notin others
      <4>1. 1 \in DOMAIN attempted  BY DEF Path
      <4>2. p \in Path /\ PL!IsPrefix(p, dir)  BY <2>3
      <4>3. PL!IsPrefix(p, file(1))  BY <1>1, <4>1, <4>2, PrefixOfPrefix
      <4> QED  BY <1>10, <4>1, <4>3
    <3> QED  BY <2>4, <3>1
  <2>8. undone = IF dir \notin below THEN below ELSE PL!RemoveDirs(below, up)
    BY <1>16, <2>2 DEF PL!Upwards, up
  <2> HIDE DEF up
  <2>6. tree \cup Others \subseteq PL!RemoveDirs(below, up)  BY <1>12, <1>14, <2>5
  <2>7. ASSUME NEW x \in PL!RemoveDirs(below, up) PROVE x \in tree \cup Others
    <3>1. SUFFICES ASSUME x \notin tree \cup Others PROVE FALSE  OBVIOUS
    <3>2. x \in below  BY DEF PL!RemoveDirs
    <3>3. x \in PL!Up(dir)  BY <1>15, <3>1, <3>2
    <3>4. x \in up /\ x \in Path  BY <2>3, <2>4, <3>1, <3>3
    <3>5. PICK q \in below \ up : PL!IsPrefix(x, q)  BY <3>4 DEF PL!RemoveDirs
    <3>6. q \in tree \cup Others  BY <1>15, <2>4, <3>5
    <3> QED  BY <1>11, <3>1, <3>4, <3>5, <3>6
  <2>9. PL!RemoveDirs(below, up) = tree \cup Others  BY <2>6, <2>7
  <2>10. CASE dir \in below  BY <2>8, <2>9, <2>10
  <2>11. CASE dir \notin below
    <3>1. undone = below /\ dir \notin made  BY <1>20, <2>8, <2>11
    <3>2. \A p \in below \ (tree \cup Others) : p \in PL!Up(dir) /\ p # dir  BY <1>15, <2>11
    <3> QED  BY <1>14, <2>3, <3>1, <3>2
  <2> QED  BY <2>10, <2>11
<1>19. Done  BY <1>17, <1>18, TopmostIs DEF topmost
<1> QED  BY <1>19 DEF undone, made, topmost, Others

\* What is written of a new plugin, whatever fails.
LEMMA FilesAllOrNone ==
  ASSUME NEW tree, NEW dir, NEW files, NEW fails, NEW made, NEW fault, NEW others,
         IsScaffold([tree |-> tree, dir |-> dir, files |-> files, fails |-> fails, made |-> made, others |-> others])
  PROVE  PL!WrittenAllOrNone(tree, dir, files, fails, made, fault, others)
<1>0. /\ tree \in SUBSET Path /\ others \in SUBSET Path /\ dir \in Path /\ files \in Seq(Path \ {<<>>}) /\ fails \in Nat
      /\ made \in Nat /\ \A path \in tree : PL!Up(path) \subseteq tree
      /\ \A k \in DOMAIN files : \A other \in others :
           ~PL!IsPrefix(dir \o files[k], other) /\ ~PL!IsPrefix(other, dir \o files[k])
  BY DEF IsScaffold
<1> DEFINE file(k) == dir \o files[k]
           Others == PL!WriteFile(others)
           kept == tree \cup Others
           wrote(n) == tree \cup PL!WriteFile({file(k) : k \in 1..n})
           written == PL!WriteFiles(tree, dir, files, fails, made, fault, others)
           short == fails = 1 /\ made < Len(dir)
<1>4. PL!WrittenAllOrNone(tree, dir, files, fails, made, fault, others) =
        (/\ written.code = 0 => \A k \in DOMAIN files : file(k) \in written.tree
         /\ written.code = 3 => written.tree = kept
         /\ written.code = 1 => /\ kept \subseteq written.tree
                                /\ \A p \in written.tree \ kept : short /\ PL!IsStrictPrefix(p, dir))
  BY DEF PL!WrittenAllOrNone
<1>5. wrote(0) = tree  BY DEF PL!WriteFile
<1> DEFINE early == (dir \in tree /\ fault = "scandir") \/ PL!HoldsAnything(tree, dir) \/ fault = "root"
<1>1. CASE early
  <2>1. \E code \in {1, 3} : written = [code |-> code, tree |-> kept]  BY <1>1, <1>5 DEF PL!WriteFiles
  <2>2. written.code \in {1, 3} /\ written.tree = kept  BY <2>1
  <2> HIDE DEF written, kept
  <2> QED  BY <1>4, <2>2
<1>2. CASE ~early /\ fails \in DOMAIN files
  <2> DEFINE before == wrote(fails - 1)
             failed == PL!WriteFails(before, file(fails), made)
             attempted == SubSeq(files, 1, fails)
             undone == PL!Undo(failed \cup Others, dir, attempted, PL!TopmostMissing(tree, dir))
             some == failed \ tree
  <2>1. written = [code |-> 1, tree |-> undone]  BY <1>2 DEF PL!WriteFiles
  <2>2. written.code = 1 /\ written.tree = undone  BY <2>1
  <2>3. fails \in 1..Len(files) /\ 1..(fails - 1) \subseteq 1..fails  BY <1>0, <1>2
  <2>4. attempted \in Seq(Path \ {<<>>}) /\ Len(attempted) = fails /\ \A k \in 1..fails : attempted[k] = files[k]
    BY <1>0, <2>3, SubSeqProperties
  <2> HIDE DEF attempted, written
  <2>5. DOMAIN attempted = 1..fails /\ attempted # <<>> /\ 1..fails \subseteq DOMAIN files  BY <1>0, <2>3, <2>4
  <2>6. \A k \in DOMAIN attempted : \A other \in others :
           ~PL!IsPrefix(dir \o attempted[k], other) /\ ~PL!IsPrefix(other, dir \o attempted[k])
    BY <1>0, <2>4, <2>5
  <2>7. ASSUME NEW k \in 1..fails
        PROVE  /\ file(k) \in Path /\ PL!IsPrefix(dir, file(k)) /\ dir \in PL!Up(file(k))
               /\ \A p \in PL!Up(file(k)) : p \in Path /\ PL!IsPrefix(p, dir \o attempted[k])
    <3>1. k \in DOMAIN files /\ attempted[k] = files[k] /\ files[k] \in Path  BY <1>0, <2>3, <2>4, <2>5
    <3>2. file(k) \in Path /\ PL!IsPrefix(dir, file(k))  BY <1>0, <3>1, PrefixOfJoined
    <3> QED  BY <1>0, <3>1, <3>2, UpIs
  <2> HIDE DEF file
  <2>8. ASSUME NEW p \in some PROVE \E k \in 1..fails : p \in PL!Up(file(k))
    <3>1. CASE p \in before
      <4>1. \E k \in 1..(fails - 1) : p \in PL!Up(file(k))  BY <3>1 DEF PL!WriteFile
      <4> QED  BY <2>3, <4>1
    <3>2. CASE p \notin before  BY <2>3, <3>2 DEF PL!WriteFails
    <3> QED  BY <3>1, <3>2
  <2>9. AreOnTheWay(some, dir, attempted)
    <3>1. ASSUME NEW p \in some PROVE p \in Path /\ \E k \in DOMAIN attempted : PL!IsPrefix(p, dir \o attempted[k])
      BY <2>5, <2>7, <2>8
    <3> HIDE DEF some
    <3> QED  BY <3>1 DEF AreOnTheWay
  <2>10. ToWrite(tree, dir, attempted, others)  BY <1>0, <1>2, <2>4, <2>5, <2>6 DEF ToWrite
  <2>11. failed = tree \cup some  BY DEF PL!WriteFails
  \* The target is there when a file before the one that fails was written, or
  \* when that one's making got as far.
  <2>12. dir \in failed \/ short
    <3>1. CASE fails # 1
      <4>1. 1 \in 1..(fails - 1) /\ 1 \in 1..fails  BY <2>3, <3>1
      <4>2. dir \in PL!WriteFile({file(k) : k \in 1..(fails - 1)})  BY <2>7, <4>1 DEF PL!WriteFile
      <4> QED  BY <4>2 DEF PL!WriteFails
    <3>2. CASE fails = 1
      <4>2. 1 \in 1..fails  BY <2>3
      <4>3. dir \in PL!Up(file(fails))  BY <2>7, <3>2, <4>2
      <4>4. Len(dir) <= made => dir \in failed  BY <4>3 DEF PL!WriteFails
      <4>5. Len(dir) \in Nat  BY <1>0 DEF Path
      <4> QED  BY <1>0, <3>2, <4>4, <4>5
    <3> QED  BY <3>1, <3>2
  <2> HIDE DEF some, undone, failed, kept
  <2>13. /\ kept \subseteq undone /\ (dir \in tree \cup some \cup Others => undone = kept)
         /\ \A p \in undone \ kept : p \in Path /\ PL!IsPrefix(p, dir) /\ p # dir
    BY <2>9, <2>10, <2>11, UndoneIs DEF undone, kept
  <2>14. \A p \in undone \ kept : short /\ PL!IsStrictPrefix(p, dir)
    BY <2>11, <2>12, <2>13 DEF PL!IsStrictPrefix
  <2> HIDE DEF short
  <2> QED  BY <1>4, <2>2, <2>13, <2>14
<1>3. CASE ~early /\ fails \notin DOMAIN files
  <2>1. written = [code |-> 0, tree |-> wrote(Len(files)) \cup Others]  BY <1>3 DEF PL!WriteFiles
  <2>2. written.code = 0 /\ written.tree = wrote(Len(files)) \cup Others  BY <2>1
  <2>3. ASSUME NEW k \in DOMAIN files PROVE file(k) \in wrote(Len(files))
    <3>1. files[k] \in Path /\ k \in 1..Len(files)  BY <1>0
    <3>2. file(k) \in Path  BY <1>0, <3>1, PrefixOfJoined
    <3>3. file(k) \in PL!Up(file(k))  BY <3>2, UpIs, PrefixIsItself
    <3>4. file(k) \in PL!WriteFile({file(j) : j \in 1..Len(files)})  BY <3>1, <3>3 DEF PL!WriteFile
    <3> QED  BY <3>4
  <2> HIDE DEF written, wrote
  <2>4. written.code = 0 /\ \A k \in DOMAIN files : file(k) \in written.tree  BY <2>2, <2>3
  <2> HIDE DEF file, kept, short
  <2> QED  BY <1>4, <2>4
<1> QED  BY <1>1, <1>2, <1>3

-----------------------------------------------------------------------------
(* An edit of the configuration is whole *)

LEMMA EditIsWhole ==
  ASSUME NEW disk \in ConfigFile, NEW fails, NEW made
  PROVE  PC!IsWhole(disk, fails, made, PC!Edit(disk, fails, made))
<1> DEFINE edit == PC!Edit(disk, fails, made)
           half == PC!Temporary(disk, <<PC!Half(made.text)>>)
           whole == PC!Temporary(disk, <<made.text>>)
           removed(left) == IF "remove" \in fails THEN left ELSE PC!Temporary(left, <<>>)
           renamed == PC!Renamed(whole)
\* What may be on the disk on the way of an edit.
<1>1. /\ PC!Temporary(disk, <<>>) = disk /\ disk.temporary = <<>>
      /\ PC!Temporary(half, <<>>) = disk /\ PC!Temporary(whole, <<>>) = disk
  BY DEF ConfigFile, PC!Temporary
<1>2. renamed.text = made.text /\ renamed.temporary = <<>> /\ (disk.at = "link" => renamed.at = "link")
  BY DEF ConfigFile, PC!Temporary, PC!Renamed
<1> HIDE DEF half, whole, renamed
<1>3. \A left \in {half, whole} :
        PC!Temporary(removed(left), <<>>) = disk /\ (removed(left).temporary # <<>> => "remove" \in fails)
  BY <1>1
<1> HIDE DEF removed
<1>4. \/ \E kind : kind # "written" /\ edit = [kind |-> kind, disks |-> <<disk>>]
      \/ edit = [kind |-> "fault", disks |-> <<disk, half, removed(half)>>]
      \/ edit = [kind |-> "fault", disks |-> <<disk, half, whole, removed(whole)>>]
      \/ edit = [kind |-> "written", disks |-> <<disk, half, whole, renamed>>]
  <2> DEFINE saved == PC!Save(disk, made.text, fails)
             kind == IF fails \cap {"mkdir", "write", "rename"} = {} THEN "written" ELSE "fault"
  <2>1. \/ edit = [kind |-> "fault", disks |-> <<disk>>]
        \/ made.kind # "written" /\ edit = [kind |-> made.kind, disks |-> <<disk>>]
        \/ edit = [kind |-> kind, disks |-> saved]
    BY DEF PC!Edit
  <2>2. CASE "mkdir" \in fails
    <3>1. saved = <<disk>>  BY <2>2 DEF PC!Save
    <3>2. kind = "fault"  BY <2>2
    <3> QED  BY <2>1, <3>1, <3>2
  <2>3. CASE "mkdir" \notin fails /\ "write" \in fails
    <3>1. saved = <<disk, half, removed(half)>>  BY <2>3 DEF PC!Save, half, removed
    <3>2. kind = "fault"  BY <2>3
    <3> QED  BY <2>1, <3>1, <3>2
  <2>4. CASE fails \cap {"mkdir", "write"} = {} /\ "rename" \in fails
    <3>1. saved = <<disk, half, whole, removed(whole)>>  BY <2>4 DEF PC!Save, half, whole, removed
    <3>2. kind = "fault"  BY <2>4
    <3> QED  BY <2>1, <3>1, <3>2
  <2>5. CASE fails \cap {"mkdir", "write", "rename"} = {}
    <3>1. saved = <<disk, half, whole, renamed>>  BY <2>5 DEF PC!Save, half, whole, renamed
    <3>2. kind = "written"  BY <2>5
    <3> QED  BY <2>1, <3>1, <3>2
  <2> QED  BY <2>2, <2>3, <2>4, <2>5
<1> HIDE DEF edit
\* What the disks are, one by one, and the last of them.
<1> DEFINE Fine(d) == PC!Temporary(d, <<>>) = disk \/ (d.text = made.text /\ (disk.at = "link" => d.at = "link"))
           Left(kind, d) == /\ kind # "written" => PC!Temporary(d, <<>>) = disk
                            /\ kind = "written" => d.text = made.text
                            /\ d.temporary # <<>> => "remove" \in fails
<1>5. Fine(disk) /\ Fine(half) /\ Fine(whole) /\ Fine(renamed) /\ Fine(removed(half)) /\ Fine(removed(whole))
  BY <1>1, <1>2, <1>3
<1>6. (\A i \in DOMAIN edit.disks : Fine(edit.disks[i])) /\ Left(edit.kind, PL!Last(edit.disks))
  <2>1. CASE \E kind : kind # "written" /\ edit = [kind |-> kind, disks |-> <<disk>>]
    <3>1. PICK kind : kind # "written" /\ edit = [kind |-> kind, disks |-> <<disk>>]  BY <2>1
    <3>2. Left(kind, disk)  BY <1>1, <3>1
    <3> HIDE DEF Fine, Left
    <3> QED  BY <1>5, <3>1, <3>2 DEF PL!Last
  <2>2. CASE edit = [kind |-> "fault", disks |-> <<disk, half, removed(half)>>]
    <3>1. Left("fault", removed(half))  BY <1>3
    <3> HIDE DEF Fine, Left
    <3> QED  BY <1>5, <2>2, <3>1 DEF PL!Last
  <2>3. CASE edit = [kind |-> "fault", disks |-> <<disk, half, whole, removed(whole)>>]
    <3>1. Left("fault", removed(whole))  BY <1>3
    <3> HIDE DEF Fine, Left
    <3> QED  BY <1>5, <2>3, <3>1 DEF PL!Last
  <2>4. CASE edit = [kind |-> "written", disks |-> <<disk, half, whole, renamed>>]
    <3>1. Left("written", renamed)  BY <1>2
    <3> HIDE DEF Fine, Left
    <3> QED  BY <1>5, <2>4, <3>1 DEF PL!Last
  <2> QED  BY <1>4, <2>1, <2>2, <2>3, <2>4
<1>7. PC!IsWhole(disk, fails, made, edit)  BY <1>6 DEF PC!IsWhole, PC!Last, PL!Last
<1> QED  BY <1>7 DEF edit

-----------------------------------------------------------------------------
(* A call that fails edits nothing, and a plugin's name can be typed *)

LEMMA MaxOfBounded ==
  ASSUME NEW T, T \subseteq Nat, NEW n \in Nat, \A x \in T : x <= n, T # {}
  PROVE  PL!Max(T) \in T /\ \A y \in T : PL!Max(T) >= y
<1> DEFINE U == {n - x : x \in T}
<1>1. U \subseteq Nat /\ U # {}  OBVIOUS
<1>2. PICK u \in U : \A y \in U : u <= y  BY <1>1, LeastNat
<1>3. PICK x \in T : u = n - x  OBVIOUS
<1>4. \A y \in T : n - x <= n - y  BY <1>2, <1>3
<1>5. \A y \in T : x >= y  BY <1>4
<1>6. \E a \in T : \A y \in T : a >= y  BY <1>5
<1> QED  BY <1>6 DEF PL!Max

\* A name but for a prefix is made of the same parts.
LEMMA NamesAreTyped ==
  ASSUME NEW name \in Path, name # <<>>, "bad" \notin PL!Range(name), PL!Last(name) # "/"
  PROVE  PL!IsName(PL!DefaultPluginName(name)) \/ PL!DefaultPluginName(name)[1] = "_"
<1> DEFINE slashes == {0} \cup {k \in DOMAIN name : name[k] = "/"}
           top == PL!Max(slashes)
           bare == SubSeq(name, top + 1, Len(name))
           without(prefix, n) == IF n # <<>> /\ Head(n) = prefix THEN Tail(n) ELSE n
           inner == without("tagents-plugin-", bare)
           trimmed == without("plugin-", inner)
           Part == {x \in STRING : x \notin {"bad", "/"}}
<1>1. Len(name) \in Nat /\ Len(name) >= 1 /\ DOMAIN name = 1..Len(name)  BY DEF Path
<1>2. \A k \in DOMAIN name : name[k] \in STRING /\ name[k] # "bad"  BY DEF Path, PL!Range
<1>3. slashes \subseteq Nat /\ slashes # {} /\ \A x \in slashes : x <= Len(name)  BY <1>1
<1>4. top \in slashes /\ \A y \in slashes : top >= y  BY <1>1, <1>3, MaxOfBounded
<1>5. name[Len(name)] # "/"  BY DEF PL!Last
<1>6. top \in Nat /\ top < Len(name)  BY <1>1, <1>4, <1>5
<1>7. ASSUME NEW k \in DOMAIN name, k > top PROVE name[k] \in Part
  <2>1. k \notin slashes  BY <1>1, <1>4, <1>6, <1>7
  <2> QED  BY <1>2, <2>1
<1> HIDE DEF top, slashes, Part
<1>8. bare \in Seq(Part) /\ bare # <<>>
  <2> DEFINE n == Len(name) - top
  <2>1. n \in Nat /\ n >= 1  BY <1>1, <1>6
  <2>2. bare = [k \in 1..n |-> name[top + k]]
    <3>1. bare \in Path /\ Len(bare) = n /\ \A k \in 1..n : bare[k] = name[top + k]
      <4>1. top + 1 \in 1..Len(name) + 1 /\ Len(name) \in top..Len(name)  BY <1>1, <1>6
      <4>2. \A k \in (top + 1)..Len(name) : name[k] \in STRING  BY <1>1, <1>2, <1>6
      <4>3. top + 1 \in Int /\ Len(name) \in Int /\ top + 1 <= Len(name)  BY <1>1, <1>6
      <4>4. /\ bare \in Seq(STRING) /\ Len(bare) = Len(name) - (top + 1) + 1
            /\ \A k \in 1..(Len(name) - (top + 1) + 1) : bare[k] = name[top + 1 + k - 1]
        BY <4>2, <4>3, SubSeqProperties
      <4>5. Len(name) - (top + 1) + 1 = n  BY <1>1, <1>6
      <4>6. \A k \in 1..n : top + 1 + k - 1 = top + k  BY <1>6
      <4> QED  BY <4>4, <4>5, <4>6 DEF Path
    <3> QED  BY <3>1 DEF Path
  <2>3. ASSUME NEW k \in 1..n PROVE name[top + k] \in Part
    <3>1. top + k \in DOMAIN name /\ top + k > top  BY <1>1, <1>6, <2>1, <2>3
    <3> QED  BY <1>7, <3>1
  <2> HIDE DEF bare, n
  <2>4. bare \in Seq(Part)  BY <2>1, <2>2, <2>3
  <2>5. Len(bare) = n  BY <2>1, <2>2
  <2> QED  BY <2>1, <2>4, <2>5
<1> HIDE DEF bare
<1>9. \A n \in Seq(Part) : n # <<>> => Tail(n) \in Seq(Part)  OBVIOUS
<1>10. inner \in Seq(Part)  BY <1>8, <1>9
<1> HIDE DEF inner
<1>11. trimmed \in Seq(Part)  BY <1>9, <1>10
<1>12. PL!DefaultPluginName(name) = IF trimmed = <<>> THEN bare ELSE trimmed
  BY DEF PL!DefaultPluginName, inner, bare, top, slashes
<1> HIDE DEF trimmed
<1>13. PL!DefaultPluginName(name) \in Seq(Part) /\ PL!DefaultPluginName(name) # <<>>  BY <1>8, <1>11, <1>12
<1>14. ASSUME NEW n \in Seq(Part), n # <<>> PROVE PL!IsName(n) \/ n[1] = "_"
  <2>1. \A k \in DOMAIN n : n[k] \in Part  BY <1>14
  <2> QED  BY <1>14, <2>1 DEF PL!IsName, Part
<1> QED  BY <1>13, <1>14

LEMMA FailuresAreNoEdits ==
  ASSUME NEW call, NEW cwd, NEW resolved, NEW made,
         IsPluginCall([call |-> call, resolved |-> resolved])
  PROVE  PL!FailuresEditNothing(call, cwd, resolved, made)
<1> DEFINE said == PL!Serve(call, cwd, resolved, made)
           name == IF call.name # <<>> THEN call.name ELSE PL!DefaultPluginName(resolved.name)
<1>1. \A m : PL!Edited(m).edits => m = "written" /\ PL!Edited(m).code = 0  BY DEF PL!Edited, PL!Says
<1>2. \A c : ~PL!Says(c).edits  BY DEF PL!Says
<1>3. ~PL!NewVerb(call, made).edits
  <2>1. \E c : PL!Edited(made) = [code |-> c, edits |-> TRUE] \/ PL!Edited(made) = [code |-> c, edits |-> FALSE]
    BY DEF PL!Edited, PL!Says
  <2>2. ~[PL!Edited(made) EXCEPT !.edits = FALSE].edits  BY <2>1
  <2> QED  BY <1>2, <2>2 DEF PL!NewVerb
<1>4. ~PL!Stays.edits  BY DEF PL!Stays
<1>5. said.edits => /\ said = PL!Edited(made) /\ cwd # "gone"
                    /\ call.verb = "add" => resolved.ok /\ PL!IsName(name)
  <2> HIDE DEF name
  <2>1. \/ said = PL!Stays \/ \E c : said = PL!Says(c)
        \/ said = PL!NewVerb(call, made)
        \/ /\ said = PL!Edited(made) /\ cwd # "gone"
           /\ call.verb = "add" => resolved.ok /\ PL!IsName(name)
    BY DEF PL!Serve, name
  <2> QED  BY <1>2, <1>3, <1>4, <2>1
<1>6. resolved.ok => resolved.name \in Path /\ resolved.name # <<>>  BY DEF IsPluginCall
<1>7. resolved.ok => ("bad" \notin PL!Range(resolved.name) /\ PL!Last(resolved.name) # "/" =>
                        PL!IsName(PL!DefaultPluginName(resolved.name)) \/ PL!DefaultPluginName(resolved.name)[1] = "_")
  BY <1>6, NamesAreTyped
<1> HIDE DEF said, name
<1>8. said.edits => said.code = 0 /\ made = "written" /\ cwd # "gone"  BY <1>1, <1>5
<1> QED  BY <1>5, <1>7, <1>8 DEF PL!FailuresEditNothing, said, name

-----------------------------------------------------------------------------
(* A name is the nearest package *)

\* The least of a set of places.
LEMMA NearestIs ==
  ASSUME NEW T, T \subseteq Nat, T # {}
  PROVE  PL!Min(T) \in T /\ \A y \in T : PL!Min(T) <= y
<1>1. \E x \in T : \A y \in T : x <= y  BY LeastNat
<1> QED  BY <1>1 DEF PL!Min

\* The finding of the modules, directory by directory.
Looking(h, dirs) ==
  h = [n \in 0..Len(dirs) |->
         IF n = 0 THEN <<>>
         ELSE IF PL!IsModules(dirs[n]) THEN h[n - 1] ELSE Append(h[n - 1], Append(dirs[n], "node_modules"))]

LEMMA ModulesAreFolders ==
  ASSUME NEW dirs, Len(dirs) \in Nat
  PROVE  \E S : PL!Modules(dirs) \in Seq(S)
<1> DEFINE N == Len(dirs)
           S == {Append(dirs[n], "node_modules") : n \in Nat}
           becomes == [p \in Nat \X Seq(S) |->
             IF PL!IsModules(dirs[p[1]]) THEN p[2] ELSE Append(p[2], Append(dirs[p[1]], "node_modules"))]
<1>1. ASSUME NEW n \in Nat, NEW x \in Seq(S)
      PROVE  /\ becomes[<<n, x>>] = IF PL!IsModules(dirs[n]) THEN x ELSE Append(x, Append(dirs[n], "node_modules"))
             /\ becomes[<<n, x>>] \in Seq(S)
  <2>1. becomes[<<n, x>>] = IF PL!IsModules(dirs[n]) THEN x ELSE Append(x, Append(dirs[n], "node_modules"))
    OBVIOUS
  <2>2. Append(dirs[n], "node_modules") \in S  OBVIOUS
  <2> HIDE DEF becomes, S
  <2> QED  BY <2>1, <2>2
<1> HIDE DEF becomes, S
<1>2. <<>> \in Seq(S) /\ \A n \in Nat : \A x \in Seq(S) : becomes[<<n, x>>] \in Seq(S)  BY <1>1
<1>3. PICK f \in [0..N -> Seq(S)] : GoesOn(f, becomes, N)  BY <1>2, Recursion
<1>4. ASSUME NEW n \in 0..N
      PROVE  f[n] = IF n = 0 THEN <<>>
                    ELSE IF PL!IsModules(dirs[n]) THEN f[n - 1] ELSE Append(f[n - 1], Append(dirs[n], "node_modules"))
  <2>1. f[n] = IF n = 0 THEN <<>> ELSE becomes[<<n, f[n - 1]>>]  BY <1>3 DEF GoesOn
  <2>2. n # 0 => n \in Nat /\ n - 1 \in 0..N  OBVIOUS
  <2>3. n # 0 => n \in Nat /\ f[n - 1] \in Seq(S)  BY <1>3, <2>2
  <2> QED  BY <1>1, <2>1, <2>3
<1>5. Looking(f, dirs)
  <2>1. f = [n \in 0..N |-> f[n]]  BY <1>3
  <2> HIDE DEF N
  <2> QED  BY <1>4, <2>1 DEF Looking, N
<1> DEFINE g == CHOOSE h : Looking(h, dirs)
<1>6. Looking(g, dirs)  BY <1>5
<1>7. PL!Modules(dirs) = g[N]  BY DEF PL!Modules, Looking
<1>8. g = f
  <2> HIDE DEF g
  <2> DEFINE T == {n \in Nat : n <= N => g[n] = f[n]}
  <2>0. \A n \in 0..N : g[n] = IF n = 0 THEN <<>>
          ELSE IF PL!IsModules(dirs[n]) THEN g[n - 1] ELSE Append(g[n - 1], Append(dirs[n], "node_modules"))
    BY <1>6 DEF Looking
  <2>1. 0 \in T  BY <1>4, <2>0
  <2>2. ASSUME NEW n \in Nat, n \in T PROVE n + 1 \in T
    <3> SUFFICES ASSUME n + 1 <= N PROVE g[n + 1] = f[n + 1]  OBVIOUS
    <3>1. n + 1 \in 0..N /\ n + 1 # 0 /\ (n + 1) - 1 = n  OBVIOUS
    <3>2. g[n] = f[n]  BY <2>2
    <3> QED  BY <1>4, <2>0, <3>1, <3>2
  <2> HIDE DEF T
  <2>3. \A n \in Nat : n \in T  BY <2>1, <2>2, Counting
  <2>4. \A n \in 0..N : g[n] = f[n]  BY <2>3 DEF T
  <2>5. g = [n \in 0..N |-> g[n]] /\ f = [n \in 0..N |-> f[n]]  BY <1>3, <1>6 DEF Looking
  <2> QED  BY <2>4, <2>5
<1>9. N \in 0..N  OBVIOUS
<1>10. PL!Modules(dirs) \in Seq(S)  BY <1>3, <1>7, <1>8, <1>9
<1> QED  BY <1>10

LEMMA AncestorsAre ==
  ASSUME NEW cwd \in Path
  PROVE  /\ Len(PL!Ancestors(cwd)) = Len(cwd) + 1 /\ DOMAIN PL!Ancestors(cwd) = 1..(Len(cwd) + 1)
         /\ \A k \in DOMAIN PL!Ancestors(cwd) : PL!IsPrefix(PL!Ancestors(cwd)[k], cwd)
<1>1. Len(cwd) \in Nat  BY DEF Path
<1>2. Len(PL!Ancestors(cwd)) = Len(cwd) + 1 /\ DOMAIN PL!Ancestors(cwd) = 1..(Len(cwd) + 1)  BY <1>1 DEF PL!Ancestors
<1>3. ASSUME NEW k \in 1..(Len(cwd) + 1) PROVE PL!IsPrefix(PL!Ancestors(cwd)[k], cwd)
  <2>1. PL!Ancestors(cwd)[k] = SubSeq(cwd, 1, Len(cwd) + 1 - k) /\ Len(cwd) + 1 - k \in 0..Len(cwd)
    BY <1>1 DEF PL!Ancestors
  <2>2. PL!Ancestors(cwd)[k] \in PL!Up(cwd)  BY <2>1 DEF PL!Up
  <2> QED  BY <2>2, UpIs
<1> QED  BY <1>2, <1>3

LEMMA FoldersAre == ASSUME NEW cwd \in Path, NEW env, env.nodePath \in Seq(Path)
                    PROVE  DOMAIN PL!Folders(cwd, env) \subseteq Nat
<1>1. Len(PL!Ancestors(cwd)) \in Nat  BY AncestorsAre DEF Path
<1>2. PICK S : PL!Modules(PL!Ancestors(cwd)) \in Seq(S)  BY <1>1, ModulesAreFolders
<1> DEFINE a == Append(env.home, ".node_modules")
           b == Append(env.home, ".node_libraries")
           T == S \cup Path \cup {a, b}
           modules == PL!Modules(PL!Ancestors(cwd))
<1>3. modules \in Seq(T) /\ env.nodePath \in Seq(T) /\ <<a, b>> \in Seq(T)
  <2>1. modules \in Seq(T)  BY <1>2, SeqMonotonic
  <2>2. env.nodePath \in Seq(T)  BY SeqMonotonic
  <2> QED  BY <2>1, <2>2
<1>4. PL!Folders(cwd, env) = modules \o env.nodePath \o <<a, b>>  BY DEF PL!Folders
<1> HIDE DEF modules, a, b, T
<1>5. modules \o env.nodePath \o <<a, b>> \in Seq(T)  BY <1>3
<1>6. PL!Folders(cwd, env) \in Seq(T)  BY <1>4, <1>5
<1> QED  BY <1>6

\* What the package the working directory is in says.
LEMMA SelfIs ==
  ASSUME NEW disk, NEW spec, NEW cwd \in Path
  PROVE  LET self == PL!SelfReference(disk, spec, cwd)
         IN /\ self.ends => \/ self.dir = PL!NotFound
                            \/ \E d \in DOMAIN disk : /\ self.dir = <<d>> /\ disk[d].name = spec.package
                                                      /\ PL!IsPrefix(d, cwd)
            /\ PL!Range(PL!Ancestors(cwd)) \cap DOMAIN disk = {} => ~self.ends
<1> DEFINE ups == PL!Ancestors(cwd)
           stops == {k \in DOMAIN ups : PL!IsModules(ups[k])} \cup {Len(ups) + 1}
           near == {k \in DOMAIN ups : k < PL!Min(stops) /\ ups[k] \in DOMAIN disk}
           first == PL!Min(near)
           manifest == disk[ups[first]]
           self == PL!SelfReference(disk, spec, cwd)
<1>1. self = IF near = {} THEN PL!Further
             ELSE IF ~manifest.object THEN PL!Ends(PL!NotFound)
             ELSE IF manifest.name # spec.package \/ manifest.exports.type \in {"absent", "null"} THEN PL!Further
             ELSE PL!Ends(IF PL!Allows(manifest, spec) THEN PL!Found(ups[first]) ELSE PL!NotFound)
  BY DEF PL!SelfReference
<1>2. near \subseteq Nat  BY AncestorsAre
<1>3. near # {} => first \in near  BY <1>2, NearestIs
<1>4. near # {} => ups[first] \in DOMAIN disk /\ PL!IsPrefix(ups[first], cwd)  BY <1>3, AncestorsAre
<1>5. PL!Range(ups) \cap DOMAIN disk = {} => near = {}  BY DEF PL!Range
<1>6. ~PL!Further.ends /\ \A d : PL!Ends(d).ends /\ PL!Ends(d).dir = d  BY DEF PL!Further, PL!Ends
<1> HIDE DEF near, ups, first, self
<1>7. self.ends => \/ self.dir = PL!NotFound
                   \/ near # {} /\ self.dir = <<ups[first]>> /\ manifest.name = spec.package
  <2>1. \/ self = PL!Further \/ self = PL!Ends(PL!NotFound)
        \/ near # {} /\ self = PL!Ends(PL!Found(ups[first])) /\ manifest.name = spec.package
    BY <1>1
  <2> QED  BY <1>6, <2>1 DEF PL!Found
<1>8. PL!Range(ups) \cap DOMAIN disk = {} => ~self.ends  BY <1>1, <1>5, <1>6
<1> HIDE DEF manifest
<1>9. self.ends => \/ self.dir = PL!NotFound
                   \/ \E d \in DOMAIN disk : self.dir = <<d>> /\ disk[d].name = spec.package /\ PL!IsPrefix(d, cwd)
  BY <1>4, <1>7 DEF manifest
<1> QED  BY <1>8, <1>9 DEF ups, self

\* The nearest folder that has it decides, whatever it holds.
LEMMA FoundIs ==
  ASSUME NEW disk, NEW spec, NEW cwd \in Path, NEW env, env.nodePath \in Seq(Path)
  PROVE  LET found == PL!FoundByName(disk, spec, cwd, env)
             nearest == PL!Nearest(disk, spec, PL!Folders(cwd, env))
             self == PL!SelfReference(disk, spec, cwd)
         IN IF self.ends THEN found = self.dir
            ELSE IF nearest = PL!NotFound THEN found = PL!NotFound
            ELSE /\ PL!Under(nearest[1], spec) \in DOMAIN disk
                 /\ found = IF PL!ExportedAt(disk, nearest[1] \o <<spec.package>>, spec)
                            THEN <<PL!Under(nearest[1], spec)>> ELSE PL!NotFound
<1> DEFINE folders == PL!Folders(cwd, env)
           looks == [k \in DOMAIN folders |-> PL!InFolder(disk, spec, folders[k])]
           ending == {k \in DOMAIN looks : looks[k].ends}
           having == {k \in DOMAIN folders : PL!Under(folders[k], spec) \in DOMAIN disk}
           self == PL!SelfReference(disk, spec, cwd)
           found == PL!FoundByName(disk, spec, cwd, env)
           nearest == PL!Nearest(disk, spec, folders)
           first == PL!Min(having)
<1>1. DOMAIN folders \subseteq Nat  BY FoldersAre
<1> HIDE DEF folders
<1>2. ASSUME NEW place
      PROVE  LET look == PL!InFolder(disk, spec, place)
             IN /\ look.ends <=> PL!Under(place, spec) \in DOMAIN disk
                /\ look.ends => look.dir = IF PL!ExportedAt(disk, place \o <<spec.package>>, spec)
                                           THEN <<PL!Under(place, spec)>> ELSE PL!NotFound
  <2> DEFINE root == place \o <<spec.package>>
             look == PL!InFolder(disk, spec, place)
  <2>1. look = IF PL!Under(place, spec) \notin DOMAIN disk THEN PL!Further
               ELSE IF root \notin DOMAIN disk \/ ~disk[root].object \/ ~PL!Allows(disk[root], spec) THEN PL!Ends(PL!NotFound)
               ELSE PL!Ends(PL!Found(PL!Under(place, spec)))
    BY DEF PL!InFolder
  <2>2. PL!ExportedAt(disk, root, spec) <=> root \in DOMAIN disk /\ disk[root].object /\ PL!Allows(disk[root], spec)
    BY DEF PL!ExportedAt
  <2>3. ~PL!Further.ends /\ \A d : PL!Ends(d).ends /\ PL!Ends(d).dir = d  BY DEF PL!Further, PL!Ends
  <2> HIDE DEF look, root
  <2>4. look.ends <=> PL!Under(place, spec) \in DOMAIN disk  BY <2>1, <2>3
  <2>5. look.ends => look.dir = IF PL!ExportedAt(disk, root, spec) THEN <<PL!Under(place, spec)>> ELSE PL!NotFound
    BY <2>1, <2>2, <2>3 DEF PL!Found
  <2> QED  BY <2>4, <2>5 DEF look, root
<1>3. ending = having  BY <1>2
<1>4. having # {} => first \in having  BY <1>1, NearestIs
<1>5. found = IF self.ends THEN self.dir ELSE IF having = {} THEN PL!NotFound ELSE looks[first].dir
  <2>1. found = IF self.ends THEN self.dir ELSE IF ending = {} THEN PL!NotFound ELSE looks[PL!Min(ending)].dir
    BY DEF PL!FoundByName, PL!Decides, folders
  <2> QED  BY <1>3, <2>1
<1>6. nearest = IF having = {} THEN PL!NotFound ELSE <<folders[first]>>  BY DEF PL!Nearest, PL!Found
<1> HIDE DEF found, nearest, self, first
<1>7. having # {} => /\ nearest # PL!NotFound /\ nearest[1] = folders[first]
                     /\ PL!Under(folders[first], spec) \in DOMAIN disk
                     /\ looks[first] = PL!InFolder(disk, spec, folders[first])
  BY <1>4, <1>6 DEF PL!NotFound
<1> HIDE DEF having, looks
<1>8. having # {} => looks[first].dir = IF PL!ExportedAt(disk, nearest[1] \o <<spec.package>>, spec)
                                        THEN <<PL!Under(nearest[1], spec)>> ELSE PL!NotFound
  BY <1>2, <1>7
<1>9. having = {} => nearest = PL!NotFound  BY <1>6
<1> QED  BY <1>5, <1>7, <1>8, <1>9 DEF found, nearest, self, folders

\* What resolves is a plugin whose entry is there.
LEMMA ResolvedIs ==
  ASSUME NEW disk, NEW spec, NEW dirs, \A dir \in DOMAIN disk : disk[dir] \in PackageJson,
         dirs = PL!NotFound \/ \E d : dirs = <<d>>
  PROVE  LET resolved == PL!ResolveIn(disk, spec, dirs)
         IN /\ resolved.ok => /\ dirs # PL!NotFound /\ dirs[1] \in DOMAIN disk /\ resolved.dir = dirs[1]
                              /\ disk[dirs[1]].entry = "there" /\ disk[dirs[1]].apiVersion = 1
            /\ resolved.ok \in BOOLEAN
            /\ dirs # PL!NotFound /\ dirs[1] \in DOMAIN disk =>
                 resolved.ok = (PL!Qualifies(disk[dirs[1]]) /\ disk[dirs[1]].entry = "there")
<1> DEFINE resolved == PL!ResolveIn(disk, spec, dirs)
           d == dirs[1]
           reads == dirs # PL!NotFound /\ d \in DOMAIN disk /\ disk[d].json
           good == reads /\ PL!Qualifies(disk[d]) /\ disk[d].entry # "missing"
<1>1. /\ resolved.ok = good
      /\ good => resolved.dir = d
  <2>1. CASE good
    <3>1. \E from, name : resolved = [ok |-> TRUE, dir |-> d, from |-> from, name |-> name]
      BY <2>1 DEF PL!ResolveIn
    <3> HIDE DEF resolved, d
    <3>2. resolved.ok = TRUE /\ resolved.dir = d  BY <3>1
    <3> HIDE DEF good
    <3>3. good = TRUE  BY <2>1, Zenon DEF good
    <3> QED  BY <3>2, <3>3
  <2>2. CASE ~good
    <3>1. \E why : resolved = [ok |-> FALSE, why |-> why]  BY <2>2 DEF PL!ResolveIn
    <3> HIDE DEF resolved, d
    <3>2. resolved.ok = FALSE  BY <3>1
    <3>3. good = FALSE  BY <2>2, Zenon
    <3> HIDE DEF good
    <3> QED  BY <3>2, <3>3
  <2> QED  BY <2>1, <2>2
<1>2. ASSUME d \in DOMAIN disk
      PROVE  /\ disk[d].object \in BOOLEAN /\ disk[d].json \in BOOLEAN /\ (disk[d].object => disk[d].json)
             /\ disk[d].entry \in {"absent", "", "missing", "there"}
  BY <1>2 DEF PackageJson
<1>3. ASSUME d \in DOMAIN disk, PL!Qualifies(disk[d])
      PROVE  disk[d].json /\ disk[d].apiVersion = 1 /\ (disk[d].entry # "missing" <=> disk[d].entry = "there")
  BY <1>2, <1>3 DEF PL!Qualifies
<1> HIDE DEF resolved, d
<1>4. resolved.ok => /\ dirs # PL!NotFound /\ d \in DOMAIN disk /\ resolved.dir = d
                     /\ disk[d].entry = "there" /\ disk[d].apiVersion = 1
  BY <1>1, <1>3
<1>5. dirs # PL!NotFound /\ d \in DOMAIN disk => resolved.ok = (PL!Qualifies(disk[d]) /\ disk[d].entry = "there")
  BY <1>1, <1>3
<1>6. resolved.ok \in BOOLEAN  BY <1>1
<1> QED  BY <1>4, <1>5, <1>6 DEF resolved, d

LEMMA NearestIsTaken ==
  ASSUME NEW disk, NEW spec, NEW cwd \in Path, NEW env, env.nodePath \in Seq(Path),
         \A dir \in DOMAIN disk : disk[dir] \in PackageJson, spec.byPath \in BOOLEAN
  PROVE  PL!NearestPackageIsTaken(disk, spec, cwd, env)
<1> DEFINE nearest == PL!Nearest(disk, spec, PL!Folders(cwd, env))
           found == PL!FoundByName(disk, spec, cwd, env)
           look == PL!SelfReference(disk, spec, cwd)
           global == PL!Under(env.global, spec)
           located == PL!LocateByName(disk, spec, cwd, env)
           dirs == IF spec.byPath THEN <<spec.path>> ELSE located
           resolved == PL!Resolve(disk, spec, cwd, env)
           exported == nearest # PL!NotFound /\ PL!ExportedAt(disk, nearest[1] \o <<spec.package>>, spec)
           under == PL!Under(nearest[1], spec)
           self == {d \in DOMAIN disk : disk[d].name = spec.package /\ PL!IsPrefix(d, cwd)}
           alone == PL!Range(PL!Ancestors(cwd)) \cap DOMAIN disk = {}
<1>1. /\ look.ends => look.dir = PL!NotFound \/ \E d \in self : look.dir = <<d>>
      /\ alone => ~look.ends
  BY SelfIs
<1>2. /\ look.ends => found = look.dir
      /\ ~look.ends /\ nearest = PL!NotFound => found = PL!NotFound
      /\ ~look.ends /\ nearest # PL!NotFound =>
           under \in DOMAIN disk /\ found = IF exported THEN <<under>> ELSE PL!NotFound
  <2> HIDE DEF look, nearest, found
  <2> QED  BY FoundIs DEF look, nearest, found
<1>3. located = IF found # PL!NotFound THEN found
                ELSE IF env.global # <<>> /\ global \in DOMAIN disk THEN <<global>> ELSE PL!NotFound
  BY DEF PL!LocateByName, PL!FirstOf, PL!Global, PL!Found
<1>4. resolved = PL!ResolveIn(disk, spec, dirs)  BY DEF PL!Resolve, PL!Found
<1> HIDE DEF look, nearest, found, located, global, under, self, exported, alone
\* Where a name is: in the package the call is in, in the nearest folder that
\* has it when it is exported there, or in the global one.
<1>5. \/ located = PL!NotFound
      \/ \E d \in self : located = <<d>>
      \/ exported /\ located = <<under>>
      \/ env.global # <<>> /\ located = <<global>>
  BY <1>1, <1>2, <1>3 DEF exported
<1>6. dirs = PL!NotFound \/ \E d : dirs = <<d>>  BY <1>5
<1> HIDE DEF dirs, resolved
<1>7. /\ resolved.ok => /\ dirs # PL!NotFound /\ dirs[1] \in DOMAIN disk /\ resolved.dir = dirs[1]
                        /\ disk[dirs[1]].entry = "there" /\ disk[dirs[1]].apiVersion = 1
      /\ resolved.ok \in BOOLEAN
      /\ dirs # PL!NotFound /\ dirs[1] \in DOMAIN disk =>
           resolved.ok = (PL!Qualifies(disk[dirs[1]]) /\ disk[dirs[1]].entry = "there")
  BY <1>4, <1>6, ResolvedIs
<1>8. resolved.ok => disk[resolved.dir].entry = "there" /\ disk[resolved.dir].apiVersion = 1  BY <1>7
<1>9. resolved.ok /\ spec.byPath => resolved.dir = spec.path
  <2>1. spec.byPath => dirs[1] = spec.path  BY DEF dirs
  <2> QED  BY <1>7, <2>1
<1>10. resolved.ok /\ ~spec.byPath =>
         \/ resolved.dir \in self
         \/ env.global # <<>> /\ resolved.dir = global
         \/ exported /\ resolved.dir = under
  <2> SUFFICES ASSUME resolved.ok, ~spec.byPath
               PROVE  \/ resolved.dir \in self
                      \/ env.global # <<>> /\ resolved.dir = global
                      \/ exported /\ resolved.dir = under
    OBVIOUS
  <2>1. dirs = located /\ located # PL!NotFound /\ resolved.dir = located[1]  BY <1>7 DEF dirs
  <2>2. \A d : <<d>>[1] = d  OBVIOUS
  <2> QED  BY <1>5, <2>1, <2>2
<1>11. ~spec.byPath /\ nearest # PL!NotFound /\ alone =>
         IF ~exported THEN resolved.ok => resolved.dir = global
         ELSE resolved.ok = (PL!Qualifies(disk[under]) /\ disk[under].entry = "there")
  <2> SUFFICES ASSUME ~spec.byPath, nearest # PL!NotFound, alone
               PROVE  IF ~exported THEN resolved.ok => resolved.dir = global
                      ELSE resolved.ok = (PL!Qualifies(disk[under]) /\ disk[under].entry = "there")
    OBVIOUS
  <2>1. dirs = located /\ under \in DOMAIN disk /\ found = IF exported THEN <<under>> ELSE PL!NotFound
    BY <1>1, <1>2 DEF dirs
  <2>2. \A d : <<d>>[1] = d /\ <<d>> # PL!NotFound  BY DEF PL!NotFound
  <2>3. CASE exported
    <3>1. dirs = <<under>>  BY <1>3, <2>1, <2>2, <2>3
    <3> QED  BY <1>7, <2>1, <2>2, <2>3, <3>1
  <2>4. CASE ~exported
    <3>1. dirs = <<global>> \/ dirs = PL!NotFound  BY <1>3, <2>1, <2>4
    <3> QED  BY <1>7, <2>2, <2>4, <3>1
  <2> QED  BY <2>3, <2>4
<1>12. PL!TakesTheNearest(disk, spec, cwd, env, resolved, nearest, exported)
  BY <1>8, <1>9, <1>10, <1>11 DEF PL!TakesTheNearest, self, global, under, alone
<1> QED  BY <1>12 DEF PL!NearestPackageIsTaken, PL!WithNearest, resolved, nearest, exported

-----------------------------------------------------------------------------
(* Plugins: the theorem *)

\* PluginsAreWhole, of any directory of packages, call, tree and files
\* (plugin.rs, plugin/config.rs, plugin/resolve.rs).
THEOREM PluginsAreWholeHolds == ASSUME IsPluginInput(given) PROVE PluginsAreWhole
<1> DEFINE i == given.input
<1>1. CASE given.of = "disk"
  <2>1. i.disk \in ConfigFile  BY <1>1 DEF IsPluginInput
  <2> HIDE DEF i
  <2>2. PC!EditsAreWhole(i.disk, i.fails, "a", "y")  BY <2>1, EditIsWhole DEF PC!EditsAreWhole
  <2> QED  BY <1>1, <2>2 DEF PluginsAreWhole, i
<1>2. CASE given.of = "resolve"
  <2>1. IsResolve(i)  BY <1>2 DEF IsPluginInput
  <2> HIDE DEF i
  <2>2. PL!NearestPackageIsTaken(i.disk, i.spec, i.cwd, i.env)  BY <2>1, NearestIsTaken DEF IsResolve
  <2> QED  BY <1>2, <2>2 DEF PluginsAreWhole, i
<1>3. CASE given.of = "plugin"
  <2>1. IsPluginCall(i)  BY <1>3 DEF IsPluginInput
  <2> HIDE DEF i
  <2>2. IsPluginCall([call |-> i.call, resolved |-> i.resolved])  BY <2>1 DEF IsPluginCall
  <2>3. PL!FailuresEditNothing(i.call, i.cwd, i.resolved, i.made)  BY <2>2, FailuresAreNoEdits
  <2> QED  BY <1>3, <2>3 DEF PluginsAreWhole, i
<1>4. CASE given.of = "scaffold"
  <2>1. IsScaffold(i)  BY <1>4 DEF IsPluginInput
  <2> HIDE DEF i
  <2>2. IsScaffold([tree |-> i.tree, dir |-> i.dir, files |-> i.files, fails |-> i.fails, made |-> i.made,
                    others |-> i.others])
    BY <2>1 DEF IsScaffold
  <2>3. PL!WrittenAllOrNone(i.tree, i.dir, i.files, i.fails, i.made, i.fault, i.others)  BY <2>2, FilesAllOrNone
  <2> QED  BY <1>4, <2>3 DEF PluginsAreWhole, i
<1>5. CASE given.of \notin {"disk", "resolve", "plugin", "scaffold"}  BY <1>5 DEF PluginsAreWhole
<1> QED  BY <1>1, <1>2, <1>3, <1>4, <1>5
=============================================================================
