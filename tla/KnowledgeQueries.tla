-------------------------- MODULE KnowledgeQueries --------------------------
(***************************************************************************)
(* What the tools of the knowledge server answer from an index that is in  *)
(* line with the folder, and what they leave in the usage store: the check *)
(* of the arguments (knowledge/args.rs), search and list (search.rs), the  *)
(* calls (tools.rs), the events and the report (usage.rs) and the places   *)
(* of the files (paths.rs).                                                *)
(*                                                                         *)
(* A document is a number, in the order of the names; the rank FTS5 gives  *)
(* a section for the words is part of the input, 0 for no match and less   *)
(* for a better one.  A text of the owner is a name of it.                 *)
(***************************************************************************)
EXTENDS Integers, Sequences, FiniteSets, SequencesExt

CONSTANTS
  MaxSafe,   \* the largest integer JavaScript counts exactly
  DefaultLimit, DefaultTop, DefaultSince, DefaultMinGets, DefaultMinDays,
  Retention  \* how long the store keeps an event, in days

NoneN == 0 - 1
DayLength == 2   \* moments in a day
DayOf(ts) == ts \div DayLength

-----------------------------------------------------------------------------
(* args.rs: a value is its type, its length or number, and whether a number  *)
(* has a fraction or is beyond a double                                      *)

Missing == [type |-> "undefined", n |-> 0, kind |-> ""]

\* The minimum is checked of whatever has a length.
StringIssues(p, v) ==
  (IF v.type # "string" THEN <<"expected string">> ELSE <<>>)
  \o (IF p.min # NoneN /\ v.type \in {"string", "array", "object with length"} /\ v.n < p.min
        THEN <<"too small">> ELSE <<>>)

IntegerIssues(p, v) ==
  CASE v.type # "number" -> <<"expected number">>
    [] v.type = "number" /\ v.kind = "infinite" -> <<"received Infinity">>
    [] v.type = "number" /\ v.kind = "fraction" -> <<"expected int">>
    [] OTHER -> (IF v.n > MaxSafe THEN <<"too big an int">>
                 ELSE IF v.n < 0 - MaxSafe THEN <<"too small an int">> ELSE <<>>)
                \o (IF p.over # NoneN /\ v.n <= p.over THEN <<"too small">> ELSE <<>>)
                \o (IF p.max # NoneN /\ p.max < MaxSafe /\ v.n > p.max THEN <<"too big">> ELSE <<>>)

BooleanIssues(v) == IF v.type = "boolean" THEN <<>> ELSE <<"expected boolean">>

PropertyIssues(p, v) ==
  CASE p.type = "string" -> StringIssues(p, v)
    [] p.type = "integer" -> IntegerIssues(p, v)
    [] p.type = "boolean" -> BooleanIssues(v)
    [] OTHER -> <<>>

Told(key, whys) == [i \in DOMAIN whys |-> [key |-> key, why |-> whys[i]]]

\* One that was left out is checked when it must be there; each issue names its
\* property.
Issues(schema, args) ==
  FlattenSeq([i \in DOMAIN schema |->
    IF args[schema[i].key].type = "undefined" /\ ~schema[i].required THEN <<>>
    ELSE Told(schema[i].key, PropertyIssues(schema[i], args[schema[i].key]))])

-----------------------------------------------------------------------------
(* search.rs *)

\* fts_query: everything typed is quoted; a word of quotes alone is none.
FtsQuery(words) ==
  LET said == SelectSeq(words, LAMBDA w : w.bare # "")
  IN [i \in DOMAIN said |-> [term |-> said[i].bare, prefix |-> said[i].star]]

\* filter_sql: `kind` is the old name of `type`, which wins; an empty one
\* filters nothing.
TypeFilter(f) == IF f.type # "" THEN f.type ELSE f.kind
Passes(doc, f) ==
  /\ TypeFilter(f) # "" => doc.key = TypeFilter(f)
  /\ f.tag # "" => f.tag \in doc.tags

Status(doc) == IF doc.status \in {"draft", "stable", "deprecated"} THEN doc.status ELSE "stable"

Before(a, b) ==
  \/ a[1] < b[1]
  \/ a[1] = b[1] /\ a[2] < b[2]
  \/ a[1] = b[1] /\ a[2] = b[2] /\ a[3] < b[3]
  \/ a[1] = b[1] /\ a[2] = b[2] /\ a[3] = b[3] /\ a[4] < b[4]

\* Mutant: the rank goes before the life of a document.
Place_RankFirst(index, c) ==
  <<c.rank, IF index[c.id].status = "deprecated" THEN 1 ELSE 0, c.id, c.ord>>

\* order by: a deprecated document after every other, then the rank.
Place(index, c) == <<IF index[c.id].status = "deprecated" THEN 1 ELSE 0, c.rank, c.id, c.ord>>

Matching(index, f) ==
  {c \in UNION {{[id |-> d, ord |-> i, rank |-> index[d].chunks[i].rank] : i \in DOMAIN index[d].chunks} :
                  d \in DOMAIN index} : c.rank # 0 /\ Passes(index[c.id], f)}

\* A limit, in halves, that is not above zero is the default; a fraction is
\* floored, so a half is no hits.
Limit(halves) == IF halves > 0 THEN halves \div 2 ELSE DefaultLimit

Cut(s, n) == SubSeq(s, 1, IF n < Len(s) THEN n ELSE Len(s))

\* A query that fails is one without hits.
Search(index, words, f, halves, works) ==
  IF FtsQuery(words) = <<>> \/ ~works THEN <<>>
  ELSE Cut(SetToSortSeq(Matching(index, f), LAMBDA a, b : Before(Place(index, a), Place(index, b))), Limit(halves))

ListDocs(index, f) ==
  SetToSortSeq({d \in DOMAIN index : Passes(index[d], f)},
               LAMBDA a, b : Before(<<IF index[a].status = "deprecated" THEN 1 ELSE 0, a, 0, 0>>,
                                    <<IF index[b].status = "deprecated" THEN 1 ELSE 0, b, 0, 0>>))

\* get_section: without case, the first of a name.
GetSection(doc, lower) == SelectInSeq(doc.chunks, LAMBDA c : c.lower = lower)

-----------------------------------------------------------------------------
(* usage.rs: the events *)

Event(ts, id, kind) == [ts |-> ts, id |-> id, kind |-> kind]

\* hit_events: each document once.
HitEvents(hits, ts) ==
  LET first == SelectSeq([i \in DOMAIN hits |-> i], LAMBDA i : \A j \in 1..(i - 1) : hits[j].id # hits[i].id)
  IN [i \in DOMAIN first |-> Event(ts, hits[first[i]].id, "hit")]

Kept(store, now) == SelectSeq(store, LAMBDA e : e.ts >= now - Retention * DayLength)

\* append_events, by record_reads: nothing to record does not open the store,
\* and a store that fails changes nothing.
RecordReads(store, events, now, works) ==
  IF events = <<>> \/ ~works THEN store ELSE Kept(store, now) \o events

-----------------------------------------------------------------------------
(* usage.rs: the report *)

NoCounts == [gets |-> 0, hits |-> 0, days |-> 0, last |-> NoneN]

\* counts_by_doc: the window for the counts, all of time for the last.
CountsByDoc(store, since) ==
  LET of(d, kind) == {i \in DOMAIN store : store[i].id = d /\ store[i].kind = kind}
      recent(d, kind) == {i \in of(d, kind) : store[i].ts >= since}
      newest(d) == CHOOSE i \in of(d, "get") : \A j \in of(d, "get") : store[i].ts >= store[j].ts
  IN [d \in {store[i].id : i \in DOMAIN store} |->
        [gets |-> Cardinality(recent(d, "get")), hits |-> Cardinality(recent(d, "hit")),
         days |-> Cardinality({DayOf(store[i].ts) : i \in recent(d, "get")}),
         last |-> IF of(d, "get") = {} THEN NoneN ELSE DayOf(store[newest(d)].ts)]]

\* window_start and read_counts: a store that is not there counts nothing.
ReadCounts(store, since, now) ==
  CountsByDoc(store, now - (IF since = NoneN THEN DefaultSince ELSE since) * DayLength)

\* slice(0, top): a negative number drops from the end.
SliceEnd(top, n) == IF top < 0 THEN IF n + top > 0 THEN n + top ELSE 0 ELSE IF top < n THEN top ELSE n

Or(n, default) == IF n = NoneN THEN default ELSE n

Row(counts, id, inFolder, status) ==
  [id |-> id, inFolder |-> inFolder, status |-> status,
   counts |-> IF id \in DOMAIN counts THEN counts[id] ELSE NoCounts]

IsCandidate(row, o) ==
  /\ row.inFolder /\ row.status # "deprecated"
  /\ row.counts.gets >= Or(o.minGets, DefaultMinGets) /\ row.counts.days >= Or(o.minDays, DefaultMinDays)

\* join_rows: what the folder has, and with `all` what it had.
JoinRows(index, counts, o) ==
  LET f == [type |-> o.type, kind |-> "", tag |-> ""]
      docs == {d \in DOMAIN index : Passes(index[d], f)}
      gone == IF o.all /\ o.type = "" THEN DOMAIN counts \ docs ELSE {}
      rows == {Row(counts, d, TRUE, Status(index[d])) : d \in docs} \cup {Row(counts, d, FALSE, "") : d \in gone}
      kept == {r \in rows : o.candidates => IsCandidate(r, o)}
      sorted == SetToSortSeq(kept, LAMBDA a, b :
                  Before(<<0 - a.counts.gets, 0 - a.counts.hits, a.id, 0>>, <<0 - b.counts.gets, 0 - b.counts.hits, b.id, 0>>))
  IN Cut(sorted, SliceEnd(Or(o.top, DefaultTop), Len(sorted)))

ReadUsageRows(index, store, o, now) == JoinRows(index, ReadCounts(store, o.since, now), o)

-----------------------------------------------------------------------------
(* paths.rs, host.rs: a path is its names as they were written, "/" before    *)
(* them when it is absolute; there is no ".." in it.  A variable is a path,    *)
(* <<>> when it is not set and <<" ">> when it is blank.                       *)

\* path.resolve, below a directory that is absolute.
Resolve(base, path) == IF path # <<>> /\ Head(path) = "/" THEN path ELSE base \o path

ExpandHome(path, home) == IF path # <<>> /\ Head(path) = "~" THEN home \o Tail(path) ELSE path

\* What a variable names (given).
Given(env, path) == Resolve(env.cwd, ExpandHome(path, env.home))

\* not_blank.
IsSet(path) == path \notin {<<>>, <<" ">>}

\* config_dir: a variable is used as it was written, relative or with a "~".
ConfigDir(env) ==
  IF IsSet(env.config) THEN env.config
  ELSE Append(IF IsSet(env.xdg) THEN env.xdg ELSE Append(env.home, ".config"), "tagents")

\* configured_dir: what the config file says, below the directory it is in; a
\* blank text is one.
ConfiguredDir(env) == Resolve(Resolve(env.cwd, ConfigDir(env)), ExpandHome(env.configured, env.home))

\* resolve_dir: the variable, else the config.
ResolveDir(env, exists) ==
  LET said == IsSet(env.dir) \/ env.configured # <<>>
      dir == IF IsSet(env.dir) THEN Given(env, env.dir) ELSE ConfiguredDir(env)
  IN CASE ~said -> [is |-> "unset", dir |-> <<>>]
       [] said /\ dir \notin exists -> [is |-> "missing", dir |-> dir]
       [] OTHER -> [is |-> "found", dir |-> dir]

\* As relative as the directory of the config is.
ResolveDb(env) == IF IsSet(env.db) THEN Given(env, env.db) ELSE Append(ConfigDir(env), "knowledge.sqlite")

\* The store is beside the index in use.
ResolveUsageDb(env) ==
  IF IsSet(env.usage) THEN Given(env, env.usage) ELSE Append(Front(ResolveDb(env)), "knowledge-usage.sqlite")

-----------------------------------------------------------------------------
(* tools.rs *)

Fail(store) == [error |-> TRUE, hits |-> <<>>, rows |-> <<>>, store |-> store]
Answer(hits, rows, store) == [error |-> FALSE, hits |-> hits, rows |-> rows, store |-> store]

\* call: an unknown tool, arguments that do not pass and a folder that is not
\* found are failures; what is read is recorded.
Call(w, name, q) ==
  LET found == ResolveDir(w.env, w.exists).is = "found" /\ w.indexWorks
      hits == Search(w.index, q.words, q.filters, q.limit, w.queryWorks)
      section == GetSection(w.index[q.id], q.heading)
  IN CASE q.issues \/ name = "unknown" -> Fail(w.store)
       [] ~q.issues /\ name # "unknown" /\ ~found -> Fail(w.store)
       [] ~q.issues /\ found /\ name = "knowledge_search" ->
            Answer(hits, <<>>, RecordReads(w.store, HitEvents(hits, w.now), w.now, w.storeWorks))
       [] ~q.issues /\ found /\ name = "knowledge_list" -> Answer(ListDocs(w.index, q.filters), <<>>, w.store)
       [] ~q.issues /\ found /\ name = "knowledge_get" ->
            IF q.id \notin DOMAIN w.index \/ (q.heading # "whole" /\ section = 0) THEN Fail(w.store)
            ELSE Answer(<<q.id>>, <<>>, RecordReads(w.store, <<Event(w.now, q.id, "get")>>, w.now, w.storeWorks))
       [] OTHER -> IF ~w.storeWorks THEN Fail(w.store)
                   ELSE Answer(<<>>, ReadUsageRows(w.index, w.store, q.report, w.now), w.store)

-----------------------------------------------------------------------------
(* Properties *)

Accepts(p, v) ==
  CASE p.type = "string" -> v.type = "string" /\ (p.min = NoneN \/ v.n >= p.min)
    [] p.type = "boolean" -> v.type = "boolean"
    [] p.type = "integer" -> /\ v.type = "number" /\ v.kind = "" /\ v.n \in (0 - MaxSafe)..MaxSafe
                             /\ p.over = NoneN \/ v.n > p.over
                             /\ p.max = NoneN \/ v.n <= p.max

\* The arguments pass when each that is there is what the schema says, and
\* each that must be there is; what does not pass is told of, each property that
\* is wrong and no other, and nothing twice (refusal, issues).
ArgumentsAreChecked(schema, args) ==
  LET wrong == {i \in DOMAIN schema : LET v == args[schema[i].key]
                                      IN IF v.type = "undefined" THEN schema[i].required ELSE ~Accepts(schema[i], v)}
      issues == Issues(schema, args)
  IN /\ {issues[i].key : i \in DOMAIN issues} = {schema[i].key : i \in wrong}
     /\ \A i, j \in DOMAIN issues : i # j => issues[i] # issues[j]

\* What is at a place of an answer is what exactly so many others come before,
\* and only what the limit leaves no place for is missing (search, join_rows).
IsBestOf(answer, all, limit, before(_, _)) ==
  /\ Len(answer) = IF Cardinality(all) < limit THEN Cardinality(all) ELSE limit
  /\ \A i \in DOMAIN answer :
       answer[i] \in all /\ Cardinality({o \in all : before(o, answer[i])}) = i - 1

\* A search shows the best sections of all that match, a section of a
\* deprecated document never before one of a live one, and records each
\* document it shows once (search, hit_events).
SearchesAreBest(index, words, f, halves) ==
  LET hits == Search(index, words, f, halves, TRUE)
      all == IF \A i \in DOMAIN words : words[i].bare = "" THEN {} ELSE Matching(index, f)
      dead(c) == index[c.id].status = "deprecated"
      events == HitEvents(hits, 0)
  IN /\ IsBestOf(hits, all, IF halves > 0 THEN halves \div 2 ELSE DefaultLimit,
                 LAMBDA a, b : IF dead(a) # dead(b) THEN dead(b) ELSE Before(<<a.rank, a.id, a.ord, 0>>, <<b.rank, b.id, b.ord, 0>>))
     /\ {events[i].id : i \in DOMAIN events} = {hits[i].id : i \in DOMAIN hits}
     /\ \A i, j \in DOMAIN events : i # j => events[i].id # events[j].id

\* What a report counts in a window the retention covers is all that was read
\* in it, although each write forgets what is old; a read that could not be
\* answered or recorded counts nothing (append_events, read_counts).
ReadsAreCounted(calls, now, since) ==
  LET store == FoldLeft(LAMBDA s, c : RecordReads(s, c.events, c.now, c.works), <<>>, calls)
      counts == CountsByDoc(store, now - since * DayLength)
      ever == FlattenSeq([i \in DOMAIN calls |-> IF calls[i].works THEN calls[i].events ELSE <<>>])
      in(d, kind) == {i \in DOMAIN ever : ever[i].id = d /\ ever[i].kind = kind /\ ever[i].ts >= now - since * DayLength}
  IN since <= Retention =>
       \A d \in {ever[i].id : i \in DOMAIN ever} :
         LET c == IF d \in DOMAIN counts THEN counts[d] ELSE NoCounts
         IN /\ c.gets = Cardinality(in(d, "get")) /\ c.hits = Cardinality(in(d, "hit"))
            /\ c.days = Cardinality({DayOf(ever[i].ts) : i \in in(d, "get")})
            /\ in(d, "get") # {} => \A i \in in(d, "get") : c.last >= DayOf(ever[i].ts)

\* A report has every document of the folder that it is asked for, those that
\* were read most first; a candidate is in the folder and not deprecated.
ReportsAreOfTheFolder(index, store, o, now) ==
  LET rows == ReadUsageRows(index, store, o, now)
      ids == {rows[i].id : i \in DOMAIN rows}
      n == Or(o.top, DefaultTop)
  IN /\ Len(rows) <= n
     /\ \A i, j \in DOMAIN rows : i < j => rows[i].id # rows[j].id /\ rows[i].counts.gets >= rows[j].counts.gets
     /\ o.candidates => \A i \in DOMAIN rows : rows[i].id \in DOMAIN index /\ index[rows[i].id].status # "deprecated"
     /\ ~o.candidates /\ Len(rows) < n =>
          \A d \in DOMAIN index : o.type \in {"", index[d].key} => d \in ids
     /\ o.type # "" \/ ~o.all => ids \subseteq DOMAIN index

\* An answer is the same whether the store works or not, but for the report,
\* and what is recorded is what was answered (tools.rs, record).
RecordingIsSilent(w, name, q) ==
  LET broken == Call([w EXCEPT !.storeWorks = FALSE], name, q)
      whole == Call([w EXCEPT !.storeWorks = TRUE], name, q)
  IN /\ name # "knowledge_usage" => broken.error = whole.error /\ broken.hits = whole.hits
     /\ broken.store = w.store
     /\ whole.error => whole.store = w.store
     /\ name \in {"knowledge_search", "knowledge_get"} /\ whole.hits # <<>> =>
          \E i \in DOMAIN whole.store : whole.store[i].ts = w.now

\* Where the files are, from the directory the program runs in.
Places(env) == <<Resolve(env.cwd, ResolveDb(env)), Resolve(env.cwd, ResolveUsageDb(env)), ResolveDir(env, {}).dir>>

\* A scratch index has a scratch store: the store is beside the index and another
\* file, unless it has a place of its own or the index took its name.  And what
\* was written without regard to a directory is at the same place wherever the
\* program runs, the folder of a config that names it relative to itself
\* included (paths.rs).
PlacesAreApart(env, exists) ==
  LET index == Resolve(env.cwd, ResolveDb(env))
      store == Resolve(env.cwd, ResolveUsageDb(env))
      dir == ResolveDir(env, exists)
      rooted(path) == IsSet(path) => Head(path) = "/"
      anywhere(path) == IsSet(path) => Head(path) \in {"/", "~"}
  IN /\ ~IsSet(env.usage) => /\ Front(store) = Front(index)
                             /\ store # index \/ Last(env.db) = "knowledge-usage.sqlite"
     /\ dir.is = "found" => dir.dir \in exists
     /\ dir.is # "unset" => Head(dir.dir) = "/"
     /\ /\ rooted(env.config) /\ (IsSet(env.config) \/ rooted(env.xdg))
        /\ anywhere(env.dir) /\ anywhere(env.db) /\ anywhere(env.usage)
        => Places([env EXCEPT !.cwd = <<"/", "elsewhere">>]) = Places(env)
=============================================================================
