--------------------------- MODULE KnowledgeDocs ---------------------------
(***************************************************************************)
(* How a file of the knowledge folder becomes a document (knowledge/doc.rs *)
(* and front_matter.rs): which files are listed, the front matter split    *)
(* off, its fields read tolerantly, the body cut at its headings, and the  *)
(* dates the queries compare with now.                                     *)
(*                                                                         *)
(* A line is what tells it apart: the marker of a code fence, or what      *)
(* follows "##", "s" for a space, "n" for a line terminator.  A value of   *)
(* the front matter is its kind and, for a text, a name for the text.      *)
(***************************************************************************)
EXTENDS Integers, Sequences, SequencesExt

-----------------------------------------------------------------------------
(* date.rs, and the dates of doc.rs; a moment is a day and milliseconds of it *)

MsPerDay == 86400000

DaysInMonth(y, m) ==
  CASE m = 2 -> IF (y % 4 = 0 /\ y % 100 # 0) \/ y % 400 = 0 THEN 29 ELSE 28
    [] m \in {4, 6, 9, 11} -> 30
    [] OTHER -> 31

DaysFromCivil(y0, m, d) ==
  LET y == IF m <= 2 THEN y0 - 1 ELSE y0
      era == y \div 400
      yoe == y - era * 400
      doy == (153 * (IF m > 2 THEN m - 3 ELSE m + 9) + 2) \div 5 + d - 1
  IN era * 146097 + yoe * 365 + yoe \div 4 - yoe \div 100 + doy - 719468

CivilFromDays(days) ==
  LET z == days + 719468
      era == z \div 146097
      doe == z % 146097
      yoe == (doe - doe \div 1460 + doe \div 36524 - doe \div 146096) \div 365
      doy == doe - (365 * yoe + yoe \div 4 - yoe \div 100)
      shifted == (5 * doy + 2) \div 153
      month == IF shifted < 10 THEN shifted + 3 ELSE shifted - 9
  IN <<yoe + era * 400 + (IF month <= 2 THEN 1 ELSE 0), month, doy - (153 * shifted + 2) \div 5 + 1>>

IsRealDate(date) ==
  date[2] \in 1..12 /\ date[3] >= 1 /\ date[3] <= DaysInMonth(date[1], date[2])

NoMoment == [ok |-> FALSE, day |-> 0, ms |-> 0]

\* A datetime without an offset, or with a part beyond its range, is none.
ParseOffsetDatetime(at) ==
  LET offset == at.sign * (at.zone[1] * 60 + at.zone[2]) * 60000
      ms == at.clock[1] * 3600000 + at.clock[2] * 60000 + at.clock[3] * 1000 - offset
  IN IF /\ IsRealDate(at.date) /\ at.sign \in {-1, 0, 1}
        /\ at.zone[1] < 24 /\ at.zone[2] < 60
        /\ at.clock[1] <= 23 /\ at.clock[2] <= 59 /\ at.clock[3] <= 59
       THEN [ok |-> TRUE, ms |-> ms % MsPerDay,
             day |-> DaysFromCivil(at.date[1], at.date[2], at.date[3]) + ms \div MsPerDay]
       ELSE NoMoment

UtcDateOf(at) == CivilFromDays(ParseOffsetDatetime(at).day)

IsStale(at, now) ==
  LET limit == ParseOffsetDatetime(at)
  IN limit.ok /\ (now.day > limit.day \/ (now.day = limit.day /\ now.ms >= limit.ms))

-----------------------------------------------------------------------------
(* The folder *)

Reserved == {"index", "log"}

\* A name is its stem and what is around it.
IsDocumentFile(entry) ==
  entry.is = "file" /\ entry.md /\ ~entry.dot /\ entry.stem \notin Reserved

ListFiles(dir) == {entry \in dir : IsDocumentFile(entry)}

\* is_slug: words of lower case letters and digits, joined by single dashes.
IsSlug(words) == words # <<>> /\ \A i \in DOMAIN words : words[i] = "lower"

-----------------------------------------------------------------------------
(* split_frontmatter: a text is the lines of it, TRUE for one that starts    *)
(* with three dashes                                                         *)

NoSplit == [ok |-> FALSE, yaml |-> <<>>, body |-> <<>>]

SplitFrontmatter(lines) ==
  LET ends == {i \in 2..Len(lines) : lines[i].dashes}
      end == CHOOSE i \in ends : \A j \in ends : i <= j
  IN IF lines = <<>> \/ ~Head(lines).dashes \/ ends = {} THEN NoSplit
     ELSE [ok |-> TRUE, yaml |-> SubSeq(lines, 2, end - 1), body |-> SubSeq(lines, end + 1, Len(lines))]

\* saphyr refuses a run of tabs that comes after a colon and before a scalar;
\* 0 when there is none.
RefusedTab(source) ==
  LET runs == {i \in 2..(Len(source) - 1) : /\ source[i] = "tab" /\ source[i + 1] = "x"
                                            /\ \E k \in 1..(i - 1) : /\ source[k] = "colon"
                                                                     /\ \A j \in (k + 1)..i : source[j] = "tab"}
  IN IF runs = {} THEN 0 ELSE CHOOSE i \in runs : \A j \in runs : i <= j

\* space_after_colon: the first tab of the run becomes a space.
SpaceAfterColon(source, at) ==
  LET first == CHOOSE i \in 2..at : /\ source[i - 1] = "colon" /\ \A j \in i..at : source[j] = "tab"
  IN [source EXCEPT ![first] = "space"]

\* parse: until nothing is refused.
WithoutTabs(source) ==
  LET pass[n \in 0..Len(source)] ==
        IF n = 0 THEN source
        ELSE LET last == pass[n - 1]
             IN IF RefusedTab(last) = 0 THEN last ELSE SpaceAfterColon(last, RefusedTab(last))
  IN pass[Len(source)]

-----------------------------------------------------------------------------
(* Sections *)

IsSpace(c) == c \in {"s", "n"}
NoHeading == <<>>

\* heading_of: the regular expression takes all the space it can and gives it
\* back one at a time, and as little text as it can.
HeadingOf(line) ==
  LET n == Len(line.rest)
      allSpaceFrom(i) == \A j \in i..n : IsSpace(line.rest[j])
      found == {<<k, end>> \in (2..n) \X (2..n) :
                 /\ k <= end /\ \A j \in 1..(k - 1) : IsSpace(line.rest[j])
                 /\ \A j \in k..end : line.rest[j] # "n"
                 /\ allSpaceFrom(end + 1)}
      best == CHOOSE f \in found : \A g \in found : g[1] < f[1] \/ (g[1] = f[1] /\ g[2] >= f[2])
  IN IF ~line.hash \/ found = {} THEN NoHeading ELSE SubSeq(line.rest, best[1], best[2])

IsBlank(line) == line.fence = "none" /\ ~line.hash /\ line.rest = <<>>

\* The text of a section: the blank lines around it go.
Trimmed(lines) ==
  LET filled == {i \in DOMAIN lines : ~IsBlank(lines[i])}
  IN IF filled = {} THEN <<>>
     ELSE SubSeq(lines, CHOOSE i \in filled : \A j \in filled : i <= j,
                        CHOOSE i \in filled : \A j \in filled : i >= j)

\* A document that opens with a heading has no preamble.
Flush(at) ==
  IF at.heading = NoHeading /\ Trimmed(at.lines) = <<>> THEN at.chunks
  ELSE Append(at.chunks, [heading |-> at.heading, ord |-> Len(at.chunks), body |-> Trimmed(at.lines)])

\* A fence is closed by the marker that opened it.
Fence(fence, marker) ==
  IF fence = "none" THEN marker ELSE IF fence = marker THEN "none" ELSE fence

ReadLine(at, line) ==
  LET inFence == line.fence # "none" \/ at.fence # "none"
      fence == IF line.fence = "none" THEN at.fence ELSE Fence(at.fence, line.fence)
  IN IF ~inFence /\ HeadingOf(line) # NoHeading
       THEN [chunks |-> Flush(at), heading |-> HeadingOf(line), lines |-> <<>>, fence |-> fence]
       ELSE [at EXCEPT !.lines = Append(@, line), !.fence = fence]

Chunk(body) ==
  Flush(FoldLeft(ReadLine, [chunks |-> <<>>, heading |-> NoHeading, lines |-> <<>>, fence |-> "none"], body))

-----------------------------------------------------------------------------
(* Fields *)

Absent == [is |-> "absent", text |-> ""]
Str(text) == [is |-> "str", text |-> text]

\* The texts a field may have: what reads them as a date or a moment.
IsDateText(text) == text = "date"
IsMomentText(text) == text = "moment"
Midnight(text) == "midnight of " \o text

NonEmpty(v) == v.is = "str" /\ v.text # "blank"
TextOr(v, other) == IF NonEmpty(v) THEN v.text ELSE other

IsLegacy(raw) == raw["type"].is = "absent" /\ raw["kind"].is # "absent"
TypeKey(raw) == IF IsLegacy(raw) THEN "kind" ELSE "type"

NoGenerated == [by |-> "", at |-> ""]

\* generated_of, or the legacy `updated`; a part that is wrong is the whole.
GeneratedOf(raw) ==
  IF IsLegacy(raw)
    THEN IF raw["updated"].is = "str" /\ IsDateText(raw["updated"].text)
           THEN [by |-> "legacy", at |-> Midnight(raw["updated"].text)] ELSE NoGenerated
    ELSE IF NonEmpty(raw["by"]) /\ raw["at"].is = "str" /\ IsMomentText(raw["at"].text)
           THEN [by |-> raw["by"].text, at |-> raw["at"].text] ELSE NoGenerated

\* sources_of: an entry without a resource is passed over.
SourcesOf(raw) ==
  IF IsLegacy(raw)
    THEN IF NonEmpty(raw["generated_from"]) THEN <<raw["generated_from"].text>> ELSE <<>>
    ELSE IF NonEmpty(raw["resource of a source"]) THEN <<raw["resource of a source"].text>> ELSE <<>>

OneOf(v, texts, other) == IF v.is = "str" /\ v.text \in texts THEN v.text ELSE other

Refused == [ok |-> FALSE, type |-> "", legacy |-> FALSE, title |-> "", generated |-> NoGenerated,
            sources |-> <<>>, status |-> "", stale_after |-> "", scope |-> ""]

\* parse_doc: the type alone can refuse a document.
ParseDoc(stem, raw) ==
  IF ~NonEmpty(raw[TypeKey(raw)]) THEN Refused
  ELSE [ok |-> TRUE, type |-> raw[TypeKey(raw)].text, legacy |-> IsLegacy(raw),
        title |-> TextOr(raw["title"], stem),
        generated |-> GeneratedOf(raw), sources |-> SourcesOf(raw),
        status |-> OneOf(raw["status"], {"draft", "stable", "deprecated"}, "stable"),
        stale_after |-> IF raw["stale_after"].is = "str" /\ IsMomentText(raw["stale_after"].text)
                          THEN raw["stale_after"].text ELSE "",
        scope |-> OneOf(raw["scope"], {"global", "project"}, "")]

\* read_doc: a name that is no slug is refused before the file is read.
ReadDoc(words, raw) == IF IsSlug(words) THEN ParseDoc("stem", raw) ELSE Refused

-----------------------------------------------------------------------------
(* Properties *)

\* The day after a day.
NextDay(date) ==
  CASE date[3] < DaysInMonth(date[1], date[2]) -> <<date[1], date[2], date[3] + 1>>
    [] date[2] < 12 /\ date[3] = DaysInMonth(date[1], date[2]) -> <<date[1], date[2] + 1, 1>>
    [] OTHER -> <<date[1] + 1, 1, 1>>

\* Days are numbered without a gap, and a number names its day again, leap
\* years and the turns of centuries included (date.rs).
DaysAreCounted(date) ==
  LET n == DaysFromCivil(date[1], date[2], date[3])
      next == NextDay(date)
  IN CivilFromDays(n) = date /\ DaysFromCivil(next[1], next[2], next[3]) = n + 1

\* The lines that are inside a fence: one that is not itself inside one opened
\* it, and no marker of its kind came since.
Inside(body) ==
  LET in[i \in DOMAIN body] ==
        \E o \in 1..(i - 1) : /\ body[o].fence # "none" /\ ~in[o]
                              /\ \A c \in (o + 1)..(i - 1) : body[c].fence # body[o].fence
  IN {i \in DOMAIN body : in[i]}

\* A line is a heading when something can be taken for its text.
MayBeHeading(line) ==
  /\ line.hash /\ Len(line.rest) >= 2 /\ IsSpace(Head(line.rest))
  /\ \E i \in 2..Len(line.rest) : line.rest[i] # "n"
  /\ LET text == {i \in DOMAIN line.rest : ~IsSpace(line.rest[i])}
     IN text # {} => \A i \in DOMAIN line.rest :
          line.rest[i] = "n" => (\A t \in text : i < t) \/ (\A t \in text : i > t)

\* A document is cut at every heading outside a fence and nowhere else, and no
\* line of it is lost, changed or moved (chunk).
SectionsAreTheText(body) ==
  LET chunks == Chunk(body)
      cuts == {i \in DOMAIN body : i \notin Inside(body) /\ MayBeHeading(body[i])}
      kept == SelectSeq([i \in DOMAIN body |-> i], LAMBDA i : i \in cuts \/ ~IsBlank(body[i]))
      parts == [i \in DOMAIN chunks |->
                  (IF chunks[i].heading = NoHeading THEN <<>> ELSE <<[heading |-> chunks[i].heading, line |-> Absent]>>)
                  \o [j \in DOMAIN SelectSeq(chunks[i].body, LAMBDA l : ~IsBlank(l)) |->
                        [heading |-> NoHeading, line |-> SelectSeq(chunks[i].body, LAMBDA l : ~IsBlank(l))[j]]]]
      flat == FlattenSeq(parts)
  IN /\ Len(flat) = Len(kept)
     /\ \A n \in DOMAIN kept :
          IF kept[n] \in cuts THEN flat[n].heading = HeadingOf(body[kept[n]]) /\ flat[n].heading # NoHeading
          ELSE flat[n].heading = NoHeading /\ flat[n].line = body[kept[n]]
     /\ \A i \in DOMAIN chunks : chunks[i].ord = i - 1

\* What is not the type cannot refuse a document, what belongs to the one form
\* of the front matter says nothing in the other, and what is kept of a moment
\* can be compared with now (parse_doc).
FieldsAreTolerated(raw, values) ==
  LET meta == ParseDoc("stem", raw)
      others == DOMAIN raw \ {"type", "kind"}
      ofTheOther == IF IsLegacy(raw) THEN {"by", "at", "resource of a source"}
                    ELSE {"kind", "updated", "generated_from"}
  IN /\ \A key \in others, v \in values : ParseDoc("stem", [raw EXCEPT ![key] = v]).ok = meta.ok
     /\ raw["type"].is # "absent" \/ IsLegacy(raw) =>
          \A key \in ofTheOther, v \in values :
            IsLegacy([raw EXCEPT ![key] = v]) = IsLegacy(raw) => ParseDoc("stem", [raw EXCEPT ![key] = v]) = meta
     /\ meta.ok => /\ meta.type # "blank" /\ meta.title # "blank"
                   /\ meta.stale_after \in {"", "moment"}
                   /\ meta.generated.at \in {"", "moment", Midnight("date")}

\* A tab after a colon is a space, and nothing else of the text is changed.
TabsAreSpaces(source) ==
  LET read == WithoutTabs(source)
  IN /\ RefusedTab(read) = 0 /\ Len(read) = Len(source)
     /\ \A i \in DOMAIN source : read[i] # source[i] =>
          source[i] = "tab" /\ read[i] = "space" /\ source[i - 1] = "colon"
=============================================================================
