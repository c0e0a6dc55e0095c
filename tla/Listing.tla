------------------------------ MODULE Listing -------------------------------
(***************************************************************************)
(* The tools that list nodes (src/src/tools/query.rs) over an index that   *)
(* changes between two of their calls, and within one.  A client walks a   *)
(* listing page by page, each call on whatever index is in the cell then:  *)
(* a ScanIndex, a snapshot whose notes come in the order of a hash map, or *)
(* a SqliteIndex, whose statements read what org-roam.db holds when each   *)
(* of them runs.                                                           *)
(*                                                                         *)
(* Titles and tags are sequences of bytes, since orders and matches are    *)
(* what is at stake.  A note is what the listings tell apart.  Aliases,    *)
(* which are matched as tags are, file nodes with headlines, TODO states,  *)
(* the filter by substring and the answer's other fields are left out.     *)
(***************************************************************************)
EXTENDS Naturals, FiniteSets, SequencesExt

CONSTANTS
  Ids,         \* the notes' ids, in the order of their file names
  Shapes,      \* what a note may be
  FirstVault,  \* the vault at first
  Walks,       \* the listings asked for
  Queries,     \* what search_nodes is asked
  MaxChanges   \* bound on the changes to the vault

NoNote == [title |-> <<>>]   \* there is no such note
NoTag  == <<>>               \* no filter by tag

Text  == Seq(Nat)
Note  == [title: Text, tags: SUBSET Text, todo: BOOLEAN, priority: 1..4,
          alone: BOOLEAN, external: BOOLEAN]
Walk  == [tool: {"list_nodes", "list_orphans", "list_tasks", "list_files",
                 "list_external_links", "search_by_tag"},
          sort: {"title", "title_desc", "priority"}, tag: Text, limit: Nat \ {0}]

ASSUME ListingAssumption ==
  /\ Ids \subseteq Nat /\ IsFiniteSet(Ids)
  /\ \A note \in Shapes : note \in Note /\ note.title # <<>>
  /\ FirstVault \in [Ids -> Shapes \cup {NoNote}]
  /\ \A w \in Walks : w \in Walk
  /\ \A q \in Queries : q \in Text
  /\ MaxChanges \in Nat

VARIABLES
  vault,    \* the notes on disk
  db,       \* the rows of org-roam.db, in the order of their row ids
  cell,     \* the index served from: its kind, and the notes of a scan
  walk,     \* the listing the client walks
  call,     \* what its call has read so far
  got,      \* the ids it was given
  over,     \* whether it has seen the end
  changes,  \* number of changes to the vault, for the bound
  first,    \* history: all that the first call had to list, of which it
  latest,   \*   gave a page, and all that the latest call had
  grown,    \* history: whether each had at least what the one before had
  kinds     \* history: the kinds of the indexes that answered

fileVars  == <<vault, db, changes>>
pageVars  == <<got, over, first, latest, grown, kinds>>
vars == <<fileVars, cell, walk, call, pageVars>>

Row(id)    == [id |-> id, note |-> vault[id]]
Rows       == {Row(id) : id \in {i \in Ids : vault[i] # NoNote}}
Slice(s, skip, n) == SubSeq(s, skip + 1, Min({Len(s), skip + n}))
IdsOf(rows) == [i \in DOMAIN rows |-> rows[i].id]

-----------------------------------------------------------------------------
(* Orders and matches on texts                                             *)

Quote == 34
Lower(t) == [i \in DOMAIN t |-> IF t[i] \in 65..90 THEN t[i] + 32 ELSE t[i]]

(* Rust's order of strings. *)
Less(s, t) ==
  \E n \in 0..Len(s) :
    /\ n < Len(t) /\ \A i \in 1..n : s[i] = t[i]
    /\ n = Len(s) \/ s[n + 1] < t[n + 1]

(* The order of a column, whose values emacsql has put in quotes. *)
DbLess(s, t) == Less(Append(s, Quote), Append(t, Quote))

(* The rows at some places, each before those it precedes. *)
Arranged(rows, at, Precedes(_, _)) ==
  LET place(i) == Cardinality({j \in at : j = i \/ Precedes(j, i)})
  IN [k \in 1..Cardinality(at) |-> rows[CHOOSE i \in at : place(i) = k]]

(* A filter. *)
Only(rows, wanted) ==
  Arranged(rows, {i \in DOMAIN rows : rows[i] \in wanted}, LAMBDA i, j : i < j)

(* A stable sort. *)
SortedBy(rows, Precedes(_, _)) ==
  Arranged(rows, DOMAIN rows, LAMBDA i, j :
    \/ Precedes(rows[i], rows[j])
    \/ i < j /\ ~ Precedes(rows[j], rows[i]))

Title(a, b)     == Less(a.note.title, b.note.title)
TitleDesc(a, b) == Less(b.note.title, a.note.title)
DbTitle(a, b)   == DbLess(a.note.title, b.note.title)
Folded(a, b)    == Less(Lower(a.note.title), Lower(b.note.title))
FileName(a, b)  == a.id < b.id

(* Tasks of the same priority go by title; a task without one comes last. *)
Urgency(a, b) ==
  \/ a.note.priority < b.note.priority
  \/ a.note.priority = b.note.priority /\ Title(a, b)

Before(order, a, b) ==
  CASE order = "title"      -> Title(a, b)
    [] order = "title_desc" -> TitleDesc(a, b)
    [] order = "db_title"   -> DbTitle(a, b)
    [] order = "folded"     -> Folded(a, b)
    [] order = "file"       -> FileName(a, b)
    [] order = "priority"   -> Urgency(a, b)

Sorted(rows, order) == SortedBy(rows, LAMBDA a, b : Before(order, a, b))

-----------------------------------------------------------------------------
(* What the index returns                                                  *)

(* The scan's filter by tag does not look at case. *)
Tagged(kind, row) ==
  \/ walk.tag \in {NoTag} \cup row.note.tags
  \/ kind = "scan" /\ Lower(walk.tag) \in {Lower(t) : t \in row.note.tags}

ByTitle(kind, rows) ==
  Sorted(rows, IF kind = "scan" THEN "title" ELSE "db_title")

(* Faulty variant: the tags are joined to the nodes. *)
FindNodesByJoin(kind, rows) ==
  FlattenSeq([i \in DOMAIN rows |-> [n \in 1..Cardinality(rows[i].note.tags) |-> rows[i]]])

FindNodes(kind, rows) ==
  ByTitle(kind, Only(rows, {row \in ToSet(rows) : Tagged(kind, row)}))

Orphans(kind, rows) ==
  ByTitle(kind, Only(rows, {row \in ToSet(rows) : row.note.alone}))

NodesWithExternalLinks(rows) ==
  Sorted(Only(rows, {row \in ToSet(rows) : row.note.external}), "title")

(* What the tool's query selects. *)
Selected(kind, rows) ==
  CASE walk.tool = "list_orphans" -> Orphans(kind, rows)
    [] walk.tool = "list_external_links" -> NodesWithExternalLinks(rows)
    [] OTHER -> FindNodes(kind, rows)

(* The tags those rows have in the database by now. *)
Attached(rows) ==
  LET now(id) == UNION {db[i].note.tags : i \in {j \in DOMAIN db : db[j].id = id}}
  IN [i \in DOMAIN rows |-> [rows[i] EXCEPT !.note.tags = now(rows[i].id)]]

-----------------------------------------------------------------------------
(* What the tool makes of it                                               *)

(* Faulty variant: relies on the order of the index. *)
ListNodesAsReturned(rows) == rows

ListNodes(rows) ==
  Sorted(rows, IF walk.sort = "title_desc" THEN "title_desc" ELSE "title")

ListOrphans(rows) ==
  IF walk.sort = "title_desc" THEN Sorted(rows, "title_desc") ELSE rows

ListTasks(rows) ==
  LET tasks == Only(rows, {row \in ToSet(rows) : row.note.todo}) IN
  IF walk.sort = "priority" THEN Sorted(tasks, "priority") ELSE ListNodes(tasks)

(* Faulty variant: whatever the index's filter let through is listed. *)
SearchByTagUnfiltered(rows) == Sorted(rows, "folded")

SearchByTag(rows) ==
  Sorted(Only(rows, {row \in ToSet(rows) : walk.tag \in row.note.tags}), "folded")

(* The disk is walked; the index only adds ids and titles. *)
ListFiles == Sorted(SetToSeq(Rows), "file")

Listed(rows) ==
  CASE walk.tool = "list_nodes" -> ListNodes(rows)
    [] walk.tool = "list_orphans" -> ListOrphans(rows)
    [] walk.tool = "list_tasks" -> ListTasks(rows)
    [] walk.tool = "search_by_tag" -> SearchByTag(rows)
    [] walk.tool = "list_files" -> ListFiles
    [] walk.tool = "list_external_links" -> rows

(* What tells a row from others in a listing, and its place there. *)
Keys(rows) == {<<row.id, row.note.title, row.note.priority>> : row \in ToSet(rows)}

(* The page after what the client has got, and the end of the walk. *)
Answer(kind, rows) ==
  LET listed == Listed(rows)
      page   == Slice(listed, Len(got), walk.limit)
      new    == kinds = {}
  IN /\ got' = got \o IdsOf(page)
     /\ over' = (Len(got') >= Len(listed))
     /\ first' = IF new THEN listed ELSE first
     /\ latest' = listed
     /\ grown' = (grown /\ Keys(latest) \subseteq Keys(listed))
     /\ kinds' = kinds \cup {kind}

-----------------------------------------------------------------------------
Idle == [at |-> "idle", rows |-> <<>>]

(* A listing has no note twice. *)
TypeOK ==
  /\ vault \in [Ids -> Shapes \cup {NoNote}]
  /\ changes \in 0..MaxChanges
  /\ \A i, j \in DOMAIN db : db[i].id = db[j].id => i = j
  /\ \A i \in DOMAIN db : db[i].id \in Ids /\ db[i].note \in Shapes
  /\ cell.kind \in {"scan", "sql"} /\ \A i \in DOMAIN cell.rows : cell.rows[i].id \in Ids
  /\ walk \in Walks
  /\ call.at \in {"idle", "links", "attach"} /\ ToSet(IdsOf(call.rows)) \subseteq Ids
  /\ ToSet(got) \subseteq Ids /\ ToSet(IdsOf(first \o latest)) \subseteq Ids
  /\ \A i, j \in DOMAIN latest : latest[i].id = latest[j].id => i = j
  /\ over \in BOOLEAN /\ grown \in BOOLEAN
  /\ kinds \subseteq {"scan", "sql"}

Scan(rows) == [kind |-> "scan", rows |-> rows]
Sql        == [kind |-> "sql", rows |-> <<>>]

Init ==
  /\ vault = FirstVault /\ changes = 0
  /\ db \in SetToSeqs(Rows)
  /\ cell \in {Sql} \cup {Scan(s) : s \in SetToSeqs(Rows)}
  /\ walk \in Walks
  /\ call = Idle
  /\ got = <<>> /\ over = FALSE /\ first = <<>> /\ latest = <<>>
  /\ grown = TRUE /\ kinds = {}

(* A note is written, rewritten or deleted. *)
Save(id, note) ==
  /\ changes < MaxChanges /\ note # vault[id]
  /\ changes' = changes + 1
  /\ vault' = [vault EXCEPT ![id] = note]
  /\ UNCHANGED <<db, cell, walk, call, pageVars>>

(* Emacs finds that the note's file has changed, and replaces its rows. *)
Commit(id) ==
  LET others == Only(db, {row \in ToSet(db) : row.id # id})
      ofFile == {row \in ToSet(db) : row.id = id} IN
  /\ ofFile # {row \in Rows : row.id = id}
  /\ db' = IF vault[id] = NoNote THEN others ELSE Append(others, Row(id))
  /\ UNCHANGED <<vault, changes, cell, walk, call, pageVars>>

(* The index is reloaded, from the vault or from the database. *)
Reload ==
  /\ cell' \in {Sql} \cup {Scan(s) : s \in SetToSeqs(Rows)}
  /\ UNCHANGED <<fileVars, walk, call, pageVars>>

(* A call on a scan holds on to it and is answered from it. *)
ListScan ==
  /\ call = Idle /\ ~ over /\ cell.kind = "scan"
  /\ Answer("scan", Selected("scan", cell.rows))
  /\ UNCHANGED <<fileVars, cell, walk, call>>

(* On a database, list_external_links first reads the links. *)
ReadLinks ==
  /\ call = Idle /\ ~ over /\ cell.kind = "sql"
  /\ walk.tool = "list_external_links"
  /\ call' = [at |-> "links", rows |-> Selected("sql", db)]
  /\ UNCHANGED <<fileVars, cell, walk, pageVars>>

(* The nodes, of those that had such links or of all. *)
SelectNodes ==
  /\ \/ /\ call = Idle /\ ~ over /\ cell.kind = "sql"
        /\ walk.tool # "list_external_links"
        /\ call' = [at |-> "attach", rows |-> Selected("sql", db)]
     \/ /\ call.at = "links"
        /\ call' = [at |-> "attach",
                    rows |-> Sorted(Only(db, {row \in ToSet(db) :
                                row.id \in ToSet(IdsOf(call.rows))}), "title")]
  /\ UNCHANGED <<fileVars, cell, walk, pageVars>>

(* attach_aliases_and_tags, and the answer. *)
Attach ==
  /\ call.at = "attach"
  /\ Answer("sql", Attached(call.rows))
  /\ call' = Idle
  /\ UNCHANGED <<fileVars, cell, walk>>

Next ==
  \/ \E id \in Ids, note \in Shapes \cup {NoNote} : Save(id, note)
  \/ \E id \in Ids : Commit(id)
  \/ Reload
  \/ ListScan \/ ReadLinks \/ SelectNodes \/ Attach

Spec == Init /\ [][Next]_vars
-----------------------------------------------------------------------------
(* search_nodes                                                            *)

(* How many letters of a query are found in a text, one after the other.   *)
Found(query, text) ==
  FoldLeft(LAMBDA n, byte :
             IF n < Len(query) /\ query[n + 1] = byte THEN n + 1 ELSE n, 0, text)

(* How well a query matches a text, both in lower case: exactly, at its    *)
(* start, somewhere in it, or letter by letter in their order, the denser  *)
(* the better.                                                             *)
Score(query, text) ==
  LET part == \E n \in 0..Len(text) : IsPrefix(query, SubSeq(text, n + 1, Len(text)))
  IN IF query = <<>> THEN 50
     ELSE CASE query = text -> 1000
            [] query # text /\ IsPrefix(query, text) -> 900
            [] ~ IsPrefix(query, text) /\ part -> 700
            [] ~ part /\ Found(query, text) = Len(query) -> Max({1, (Len(query) * 50) \div Len(text)})
            [] OTHER -> 0

TextsOf(note) == {Lower(text) : text \in {note.title} \cup note.tags}

BestScores == [query \in Queries |-> [note \in Shapes |->
                 Max({Score(Lower(query), text) : text \in TextsOf(note)})]]

(* The index that answers now. *)
Served == ByTitle(cell.kind, IF cell.kind = "scan" THEN cell.rows ELSE db)

Ranked(query, rows) ==
  LET score(row)   == BestScores[query][row.note]
      Better(a, b) == \/ score(a) > score(b)
                      \/ score(a) = score(b) /\ Title(a, b)
  IN SortedBy(Only(rows, {row \in ToSet(rows) : score(row) > 0}), Better)

(* Faulty variant: the limit is passed on to the index. *)
SearchLimited(query, limit) == Ranked(query, Slice(Served, 0, limit))

SearchNodes(query, limit) == Slice(Ranked(query, Served), 0, limit)

-----------------------------------------------------------------------------
(* Properties                                                              *)

(* Whoever pages through a listing while notes are added, and while the    *)
(* index is reloaded, rows move and a database takes over from a scan or   *)
(* gives way to one, is given every note that was there at first; and, if  *)
(* none was added, each of them once and in order.  Notes have to differ   *)
(* in what the listing is sorted by, since the order of equals is that of  *)
(* a hash map; and orphans are in the index's own order, which is not the  *)
(* same for a scan and a database.                                         *)
GrowthHidesNothing ==
  LET key(row) == CASE walk.tool = "list_files" -> <<row.id>>
                    [] walk.tool = "search_by_tag" -> Lower(row.note.title)
                    [] OTHER -> row.note.title
      apart == \A i, j \in DOMAIN latest : key(latest[i]) = key(latest[j]) => i = j
      asReturned == walk.tool = "list_orphans" /\ walk.sort # "title_desc"
  IN (over /\ grown /\ apart /\ (asReturned => Cardinality(kinds) = 1))
       => /\ ToSet(IdsOf(first)) \subseteq ToSet(got)
          /\ Keys(latest) = Keys(first) => got = IdsOf(first)

(* search_by_tag never hands out a note without that very tag, though a    *)
(* scan filters by tag regardless of case, and though Emacs may retag or   *)
(* delete the note between the statement that finds it in a database and   *)
(* the one that reads its tags.                                            *)
HitsBearTheTag ==
  [][walk.tool = "search_by_tag" =>
       \A i \in (Len(got) + 1)..Len(got') :
         \E row \in ToSet(IF call = Idle THEN cell.rows ELSE db) :
           row.id = got'[i] /\ walk.tag \in row.note.tags]_vars

(* How good a match is, said without scores.  The empty query matches all  *)
(* texts alike.                                                            *)
Grade(query, text) ==
  LET at(n) == Slice(text, n, Len(query)) = query
      reaches(g) == CASE g = 4 -> text = query /\ query # <<>>
                      [] g = 3 -> at(0)
                      [] g = 2 -> \E n \in 0..Len(text) : at(n)
                      [] g = 1 -> \E f \in [1..Len(query) -> 1..Len(text)] :
                           \A n \in 1..Len(query) :
                             /\ text[f[n]] = query[n]
                             /\ \A m \in 1..(n - 1) : f[m] < f[n]
  IN Max({0} \cup {g \in 1..4 : reaches(g)})

BestGrades == [query \in Queries |-> [note \in Shapes |->
                 Max({Grade(Lower(query), text) : text \in TextsOf(note)})]]

(* However few it may return, search_nodes leaves out no note that is a    *)
(* better match than one it returns, and none that matches at all while    *)
(* there is room: no density of letters outweighs a substring, and the     *)
(* limit cuts the ranking, not what is ranked.                             *)
BestMatchesFound ==
  \A query \in Queries, limit \in 1..2 :
    LET answer == ToSet(SearchNodes(query, limit))
        grade(row) == BestGrades[query][row.note]
    IN /\ \A hit \in answer : grade(hit) > 0
       /\ \A row \in ToSet(Served) \ answer :
            /\ \A hit \in answer : grade(row) <= grade(hit)
            /\ grade(row) > 0 => Cardinality(answer) = limit
=============================================================================
