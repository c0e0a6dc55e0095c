# A TLA+ model of roam-mcp

roam-mcp is a server that lets MCP clients read and edit an org-roam vault: a
directory of `.org` notes and, optionally, the `org-roam.db` that Emacs keeps
of it. This directory holds TLA+ models of it, the TLC configurations that
check them, and proofs checked by TLAPS. Paths below are relative to the
repository, which is `src/` here: `src/src/sync.rs` is the crate's `sync.rs`.

## The system

| Part | State | Operations | Talks to |
|---|---|---|---|
| `DbSyncer` (`sync.rs`) | `generation`, `completed`, `run_lock`, `SyncState` | `schedule`, `sync_now`, `run_and_record` | spawned by the write handlers and `sync_database`; runs `emacsclient` or `emacs --batch` |
| write tools (`tools/write.rs`) over `util/mod.rs` | none of their own; the files of the vault | `create_node`, `append_to_node`, `prepend_to_node`, `insert_anchor`, `add_link`, `daily_capture`, `update_node`, `rename_node`, `delete_node`, `add_tag`, `remove_tag`, `set_tags` | read the index for a node's file; race each other, and Emacs, on files |
| served index (`server.rs`) | `index_cell` | `get_index`, `refresh_index_after_write`, `rebuild_scanner_index`, `maybe_reload_index`, `create_database` | opened by `index::open`, swapped under a `RwLock` |
| watcher (`server.rs`) | event queue | `events_to_paths`, `handle_fs_events` | reloads the index, notifies subscribers |
| subscriptions (`server.rs`) | uri -> session -> peer | `subscribe`, `unsubscribe`, `dispatch_notifications` | peers of the sessions |
| scanner (`index/scan.rs`) | an immutable snapshot | `walk_org_files`, link resolution, queries | |
| SQLite index (`index/sqlite.rs`) | a read-only connection | the same queries | `org-roam.db` |
| populator (`index/populate.rs`) | files | `populate_database` | replaces `org-roam.db` |
| org text (`org/*.rs`), validation, search (`tools/query.rs`, `content.rs`, `retrieval.rs`), drift (`tools/sync_tool.rs`) | none | functions of a text or an index | |
| configuration, transports, CLI | none that changes | | |

tokio runs handlers on several threads and spawns one task per request; HTTP
sessions share one `RoamServer`. File operations are blocking calls made
inside the handlers, so between a write, the index refresh and `schedule()`
there is no await, but two handlers interleave at every system call. Nothing
is persisted by the server itself besides the files it writes.

What is hard here: requests that supersede each other (debouncing, coalescing,
giving up), a lock held across child processes that can be killed while the
daemon they spoke to goes on, check-then-act on files with Emacs as a second
writer, snapshots opened outside the lock that publishes them, and a database
file replaced under its readers. `PROJECT.json` lists these at their lines
under "hazards".

What makes each part correct:

* `DbSyncer`: syncs do not overlap; every write is followed by a run that
  starts after it; the state reported to clients is not better than the truth;
  nobody waits for ever.
* write tools: no acknowledged edit is lost except in the window the code
  admits; an `:ID:` is in one file; a locked note is left alone; a failed call
  leaves nothing behind.
* served index: every change becomes visible; reads end up on the live database;
  what is written reaches the readers, through Emacs too.
* subscriptions: a subscriber hears of every change until it unsubscribes, and
  then finds the change in the index.
* scanner, SQLite index, populator: the same vault gives the same answers.
* listings: paging is a walk of the whole listing though the index changes; a
  filter and a ranking mean what they say on either index.
* org text: an edit changes what it names and no other line, and leaves a valid
  note with its `:ID:`.

## Modules

| Module | Models | Checked through |
|---|---|---|
| `DbSync` | `DbSyncer`, driven by write handlers and `sync_database` | `MCDbSync` |
| `SyncPromise` | what callers of `DbSyncer` are promised; implemented by `DbSync` | run `DbSync` |
| `DbSyncProofs` | theorems about `DbSync` | TLAPS |
| `NoteWrites` | the write tools' system calls on the vault, with Emacs | `MCNoteWrites` |
| `NoteWritesProofs` | theorems about `NoteWrites` | TLAPS |
| `IndexCell` | the served index, the watcher, the replacement of `org-roam.db`, the restart of the process | `Server` |
| `Server` | `IndexCell` composed with a synchroniser that keeps `SyncPromise` | `MCServer` |
| `ServerProofs` | theorems about `Server` and `IndexCell` | TLAPS |
| `LinkGraph` | what the scanner makes of the files it reads, and its queries | `MCPopulate` |
| `Populate` | a scan and a `create_database` walking a vault that changes; the tables, their queries and the drift report | `MCPopulate` |
| `PopulateProofs` | theorems about `LinkGraph` and `Populate` | TLAPS |
| `Listing` | the listing tools and `search_nodes` over an index that changes between and within their calls | `MCListing` |
| `ListingProofs` | theorems about `Listing` | TLAPS |
| `Outline` | headlines, subtrees, drawers and `:ID:`s of a text, as orgize and `parse.rs` see them | `NoteText` |
| `OrgEdit` | the line edits of `edit.rs` and `filetags.rs` | `NoteText` |
| `NoteChecks` | `validate_node_source`, and the other readers of a drawer | `NoteText` |
| `Anchors` | `AnchorResolver` | `NoteText` |
| `NoteText` | what each write tool makes of the text of the notes, and the tools that read it: `get_node_section`, `list_anchors`, `get_refs`, `get_outline` | `MCNoteText` |
| `NoteTextProofs` | theorems about `NoteText` and the modules it is made of | TLAPS |
| `Subscriptions` | subscriptions, the watcher's bursts, reloads and notifications | `MCSubscriptions` |
| `SubscriptionsProofs` | theorems about `Subscriptions` | TLAPS |
| `OrderLemmas` | lemmas on numbers, finite orders, sequences and folds | used by `ListingProofs` and `NoteTextProofs`; TLAPS |

Most component modules have a constant that is a set of servers to consider
(`Settings`, `Worlds`, `Servers` of `IndexCell` and of `Subscriptions`) and a
variable that is initially any one of them and never changes (`setting`, `world`,
`server`): how the server is configured, which tools its clients call, what may go
wrong around it. One run thus covers several configurations, and a property that is
about some of them names the condition.

Each component module also has a few definitions headed "faulty variant". No
action uses them: each is the definition below it with a plausible mistake,
and each property of a passing run is violated when one of them takes its
definition's place.

### DbSync

Every call of `schedule()` or `sync_now()` is a task named by the generation it
took. `pc[g]` says where it is: `sleeping` (debounce), `waiting` (queued on the
fair tokio mutex, in `ticket` order), `probing`, `client`, `answered`, `batch`
(inside `run()`), or over: `bailed`, `coalesced`, `ran`, `cancelled`. The vault
is the number of writes landed; `db` is the number of writes `org-roam.db`
reflects. `attempted` and `asked` are history variables. An atomic load is one
step with its use: `completed` is only touched under the lock, and a bump of
`generation` after the load commutes with the step taken under it.

Emacs is external: the daemon evaluates one request at a time and finishes
what it has received even if the `emacsclient` that asked is killed. A sync
sees at least what had landed when it was sent, and perhaps later writes.

`SyncPromise` is the contract: runs one at a time, each seeing what landed
before it began (`Spec`); and a run begins while a write is unseen, and ends
(`Progress`). A caller that gives up may abandon the run it waits for. `DbSync`
implements the first part always and the second where no sync is forced.

### NoteWrites

A call is a record of its locals and a `pc`; each action is one system call:
`Stat`, `Read`, `Recheck` (the second stat of `rewrite_file`), `CheckLock`,
`Replace` (the rename that ends `atomic_write`), `LookExists`, `LookTarget`,
`Move`, `Unlink`. A note is its id, tags, and a set of marks that stand for
the edits visible in its text; `section` is a headline. `clock` ticks with
every change and supplies mtimes. `append` stands for every tool that inserts
text with `rewrite_file`. The tag tools read the tags once (`ReadTags`) before
`rewrite_file` reads the file again. `Emacs` locks a path, and later saves it.

`rewrite_file`'s comment admits a race "in the remaining stat-to-rename
window". The properties admit exactly that one: `checked` records when a call
passed its second stat, `late` becomes true if a write replaces something that
landed after it (`Window`) or that the stats could not tell from it (`Returned`,
see below), and properties about lost text or duplicated ids are stated
as long as no such write has happened.

### IndexCell

The vault is a version; a scan is the version it saw; a SQLite index is the
number of the database file it opened, so that a connection to a file that has
been set aside goes on reading it. Opening an index and swapping it in are two
steps (`Pick`, `OpenScan` or `OpenSql`, `Swap`), for the watcher and for every
request. The watcher drains all queued events at once. `create_database` is
`LookExists`, `Walk`, `Build` (which fails when a note has gone since the walk),
`LookAside`, `SetAside`, `Install`.

The process may be killed at any point (`Restart`): the vault and the database
files stay, whatever a request had got to, and everything in memory is made anew.
`RoamServer::new` opens the index first and then spawns the watcher, whose task
begins to watch later (`StartWatch`); `missed` holds the kinds of files that
changed in between and have raised no event since.

### Server

`Server` puts `IndexCell` and `SyncPromise` together: their vault is one
variable, a write of a client is a write that landed, and a run that ends lets
`org-roam.db` reflect some version of the vault between the run's beginning and
its end (`SyncEnds`). `DbSync` is shown to implement `SyncPromise`, so what holds
of `Server` holds with `DbSync` in its place as far as `DbSync` keeps the
promise: the progress that `ServerSpec` takes for granted is `ProgressKept`, of
servers whose clients force no sync and whose Emacs answers. The property that
needs both parts is `WritesReachReaders`: with a database no write refreshes the
index, so a write is read only once the synchroniser has run, the file has been
updated or made, and, if it is a new file, the watcher has reopened it. Its precondition
`DbFollowed` has two cases. The database is in the watcher's sight; or it is not, and
then it has to be there from the start and nothing but the synchroniser may touch
what is served: each of a forced scan, a `create_database` and a database that comes
later leaves reads behind there for good, as TLC shows when it is allowed.

### LinkGraph and Populate

A file's text is a sequence of sections, each with what its drawer and its own
body hold; parsing is orgize's and is not modelled. `LinkGraph` follows
`ParsedFile::new` (who owns a link), `merge_parsed_file` and the passes of
`ScanIndex::open` as operators over sets; links have a position, so the dedup
has something to do. `Populate` puts them to work in two views that are built
while files change: `Visit` reads and merges one file, `Open` runs the passes
and reads the files once more for their `#+NAME:` keywords; on the other side
`Build`, `Hash` of each file, and `Commit` of the tables. The order of a walk is
arbitrary. The properties state what the notes mean by themselves (`Means`,
`Claimants`) and compare each view with that, and the two views with each other.

### Listing

A client walks one listing, page by page, each page a call of its own on
whatever the cell then holds. On a scan a call is one step, since it holds on to
a snapshot (`ListScan`), whose order comes from a hash map: any order of the
rows is tried. On a database it is one step for each statement that matters
(`ReadLinks`, `SelectNodes`, `Attach`): nothing keeps Emacs from committing in
between (`Commit`). `Reload` swaps either kind of index in at any time. Titles
and tags are sequences of bytes, because the tools sort by Rust's order of
strings, by lower case, or leave the order to the index, where the quotes that
emacsql puts around a title take part in the comparison; filters look at case or
do not. `first`, `latest`, `grown` and `kinds` are history: what the walk is
compared with. `search_nodes` is a function of the index (`SearchNodes`), checked
in every state against grades that are defined without scores.

### Outline, OrgEdit, NoteChecks, Anchors and NoteText

A text is a sequence of lines, a line a record of its kind (headline, drawer
line, keyword, paragraph...) and what the tools look at in it; words are
members of small sets. How orgize finds sections and drawers is external and
written down in `Outline`, by what the code expects of it: a drawer only counts
right below its headline or at the top of the file. `OrgEdit` has the edits one
by one, each computing a line number from the text and splicing there;
`NoteChecks` the validation, whose notion of a drawer differs from orgize's;
`Anchors` the strategies in their order.

`NoteText` puts them together: each call of a write tool is one step on the text
of one note (its interleaving with others is the business of `NoteWrites`).
`known` is what the index has of the ids, brought up to date by `Refresh` only,
so tools also run on a stale index. A call that fails, or changes nothing, is no
step. Most of its properties are action properties: they compare the text after a
call with the one before it and with what was asked.

`NoteLine` says what a line is wherever it comes from: only headlines have a level,
keywords and properties have words, a `#+name:` one, and those of a keyword for tags
are tags. `NoteTextAssumption` takes it of the notes there are at first and of what
the tools are given, and that their words, and those the tools write themselves, are
of the `Vocabulary`; `TypeOK` says that texts stay so.

### Subscriptions

The subscriptions are a set of pairs of a URI and a session. The watcher goes
through `idle`, `open`, `swap` (both of `maybe_reload_index`) and `paths`:
`Collect` takes the next path of the burst and the snapshot of who is concerned
(of a database, any of the nodes may not be answered for: `unread` remembers which),
`Notify` sends to one peer and marks it `dead` if its session has closed,
`Forget` removes the dead of one URI. Between any two of these steps sessions
subscribe, unsubscribe and end, notes change, Emacs updates the database, and a
write tool's handler opens and swaps in a scan of its own. `owed` is history: the
subscriptions whose node has changed since they were last notified.

### What the two views hold

The database is compared as the code builds it, not as the documentation would
have it: links by slug are missing there, so it has orphans the scanner has not.

## What is checked

Passing runs (each completes in about two minutes at most):

| Run | Considers | Bounds | Shows |
|---|---|---|---|
| `DbSync` | writes alone with a healthy, a missing and a faulty Emacs; with queued forced syncs; with forced syncs their callers give up | 3 requests | the lock is held exactly by the running task and is always released; two Emacs processes do not write the database at once unless one was killed on a timeout; `last_sync` is honest; a real sync covers what its request was made after; no write is lost by debouncing; every request ends; `DbSync` implements `SyncPromise`, and where no sync is forced its progress: a run begins while a write is unseen, and ends |
| `Writes` | pairs of calls out of append, create, daily capture, rename; out of append, add_tag, create; rename with Emacs; update, the tag tools, delete_file and delete_headline | 2 calls, 2 paths, 1 Emacs save of each path | no `:ID:` in two files; acknowledged edits and Emacs's saves are kept; `rewrite_file` refuses to overwrite what it has not seen; a failed call has changed nothing; a note locked by a regular file is left alone |
| `Index` | a scanner with the watcher alone, killed once; a scanner with one session's writes and rebuilds; a database created and replaced by `create_database` and Emacs, killed once in one setting; writes announced to the synchroniser, beside forced scans or `create_database` with the database in the watcher's sight, and alone with it out of sight from the start | 1 session; 3 edits, 3 requests; 2 `create_database`, 1 edit, 2 runs by the user, 5 database files | every change becomes visible; reads end on the database that has the name; `create_database` leaves a database; every write reaches the readers, by scan or by Emacs and the database, and stays with them |
| `Graph` | every vault of two files out of six notes, or none, that share slugs, ids and labels | 1 change of a file at any moment | links, backlinks, orphans and nodes of a scan are what the notes mean; what did not change during a walk is indexed; the database has every edge named by `:ID:` and answers lookups by ref; drift never blames a note that did not change |
| `Text` | any two calls of the write tools on each of five notes, with and without headlines, drawers, keywords | 2 calls | ids stay readable by every reader; what is created, given as refs, appended and prepended is read back in its node; the anchors listed are those that resolve, and the outline nests as the edits see it; the link of an anchor leads to its text; tags are as answered; an update is replayed without a change; valid notes stay valid |
| `Listing` | nine listings of two notes, by title, title descending, priority, tag, file name, of which several have titles that quotes or case put in another order; three queries | 1 change of a third note or of those, pages of 1 or 2; every order of a snapshot, a reload at any time | whoever pages while notes are added is given all that was there at first, each once and in order if none was added; no hit of `search_by_tag` lacks the tag; no note is listed twice in an answer; `search_nodes` leaves out no better match than it returns |
| `Subscriptions` | a scanner, a scanner with write tools, a database; two nodes that change, move, come and go in two files | 2 changes, 3 requests of 2 sessions, 2 URIs | who is subscribed at a change is told after it, or gone and forgotten, unless the database failed to answer when its node was looked up; nobody ends another's subscription; who is told reads the index of after the change |

Three requests are the fewest with one running, one superseded and one
superseding. Two calls and two paths are the fewest with a race, a rename and a
file made at the old name. Two creations of a database with a sync between them
give every order of set-aside, install and reopening; `MaxDbs` is large enough
never to disable `Build` or `DbSync`. Calls and paths are interchangeable in
`NoteWrites` (its properties are all safety properties), so `MCNoteWrites`
declares them symmetric. Two files are the fewest for a slug to be ambiguous or
an `:ID:` to be met twice; with `MaxEdits = 2` the properties of `Graph` hold
as well, in three minutes. Two calls on a text are the fewest for one to misread
what the other wrote. One change during a walk of pages of one, over two or three
notes, is enough for a row to move to either side of the page boundary, for a
retag between two statements, and for an index of either kind before and after.
Two changes are the fewest for one to come while the other
is being announced, and three requests let two sessions subscribe and one leave
or end. One session is enough for `Server`'s progress: what two sessions' scans
do to each other is below.

Runs that are expected to find a violation each check one sentence of the
repository against the code; `PROJECT.json` quotes it under "findings":

| Run | What TLC finds |
|---|---|
| `DbSyncCoalesce` | a run stores the generation at its end, so a forced sync asked for during it, after a further write, coalesces with a run that had not seen the write |
| `WritesTags` | a tag added by a concurrent call is dropped |
| `WritesLockSymlink` | a dangling symlink, which is what Emacs makes, is not seen as a lockfile |
| `GraphHash` | a note saved between the walk and the hashing gets the new hash with the old rows, and `org-roam-db-sync` will not read it again |
| `TextDelete` | the subtree of a last child reaches to the end of the file, and `delete_node` removes the rest of the note with it |

### Also met while modelling

Behaviours the models allow and no run is about; where a property would fail on
one, its comment names the exception.

* A forced sync makes the pending debounced task bail out (`sync.rs:141`); when
  its caller's timeout drops it (`server.rs:329`), nobody syncs the write.
* After a timeout the daemon goes on syncing while `emacs --batch` starts
  (`sync.rs:224`): two Emacs processes write the database.
* A write tool's scan begun before `org-roam.db` appeared may replace the database
  the watcher has loaded; `has_db()` then being true, later writes do not refresh
  it (`server.rs:194`).
* The populator drops links by slug and to unknown ids (`populate.rs:315`).
* A forced sync coalesces with a run that was skipped, and reports ok
  (`sync.rs:179`).
* `update_node` compares no mtime and overwrites an Emacs save made between its
  read and its write (`write.rs:623-639`), against `HOW_TO_USE.md:545`.
* A write tool's scan begun before an edit replaces the watcher's later one, and
  no further event corrects it (`server.rs:194`).
* A file that disappears between the walk and its hash fails the whole
  `create_database`, and the temporary database stays (`populate.rs:95`).
* Tags are compared without regard to case by the scanner and exactly by
  SQLite; `by_ref` on a database ignores the scheme of a URL; a citation's link
  is returned twice by SQLite's `forward_links` (`sqlite.rs:204`, `:394`, `:336`).
* Which of two files with one `:ID:` provides the node depends on the order of
  the walk; the links of both are attributed to it (`scan.rs:290-294`).
* Two `create_node` calls of one title in the same second both pass `exists()`
  (`write.rs:227`); the second note replaces the first.
* `rewrite_file` compares two mtimes (`write.rs:111-118`). A note that renames
  take away and bring back between its two stats has the mtime it had, while the
  text that was read in between is another note's: the edit of that one replaces
  it. It takes four calls and a save, more than run `Writes` has; it was met in the
  proof of `RewriteSeesOtherWriters`, whose window includes it.
* Of two sessions that create databases at the same time, the one whose database
  was installed first may be the last to swap in what it has opened
  (`server.rs:194`): reads stay on the file that was set aside until the
  next event. `EndsOnWatchedDb` is of one session.
* `daily_capture` returns an id that is on no file when the daily note exists
  without one, and when two first captures of a day race (`write.rs:411-424`).
* `rename_node` rewrites the title and may then fail to rename the file
  (`write.rs:823`); its handler returns the error without scheduling a sync.
* `rename_unlocked` is documented to refuse if either path has a lockfile
  (`util/mod.rs:127`) and looks at the first only.
* `delete_node` removes the file at the path its index has for the node
  (`write.rs:674`); after a rename and a creation there, it is another note.
* `create_database` leaves no `org-roam.db` between its two renames
  (`populate.rs:101-105`), and replaces one that appears during the build even
  without `overwrite` (`populate.rs:76`).
* Only the roam directory is watched (`server.rs:390`): a database elsewhere
  that appears or is replaced is not noticed, and once a forced scan is served
  (`server.rs:201`) no write reaches the readers any more.
* With two sessions, one's older scan may be swapped in after the other's, and
  a session's own write is missing from its next read (`server.rs:194`), against
  "so the next tool call sees the change" (`server.rs:186`); so it is when the
  watcher's older scan comes after the write's own.
* A change between the opening of the index and the start of the watch raises no
  event (`server.rs:134-139`): it is unseen until something else changes.
* A server killed between `create_database`'s two renames leaves the backup and no
  `org-roam.db`, against "Writes are atomic" (`populate.rs:56`); one killed
  within the debounce window forgets the sync (`sync.rs:133`).
* A database that `create_database` has walked before a sync and installs after
  it replaces the newer one until the next sync.
* `sync_database {force, backend: scanner}` swaps a scan in though there is a
  database (`server.rs:201`); it is served until `org-roam.db` changes.

And of texts:

* `add_link` and `append_to_node` without a headline put their text at the end of
  the file, that is into the last headline's node; `append_to_node` with one looks
  for it in the whole file.
* `apply_file_tags` writes one keyword, at the top: a second `#+filetags:` line, or
  one below the first headline, keeps its tags; a tag with a `:` comes back as two
  (`filetags.rs:115-125`). `update_node` leaves `#+roam_tags:` alone.
* A body that holds `:PROPERTIES:` further down is documented as accepted
  (`write.rs:546-548`); validation refuses it as an unclosed drawer.
* `find_properties_drawer` accepts a headline's drawer for the file's
  (`validation.rs:386`).
* `insert_anchor` looks in the whole file, drawers and keywords included
  (`write.rs:341-345`): a marker put there may cost a note its id.
* `insert_anchor` puts its marker at the first place in the file that has the text,
  which may be in a paragraph of another node with the same words: the link it answers
  then finds no marker in the node.
* Of two `:ID:` lines in one drawer orgize and `extract_file_id` read the first and
  validation the last (`validation.rs:434`).
* The paragraph of an anchor stops at `* ` only, not at deeper headlines
  (`anchors.rs:111`).
* `update_node {tags: []}` removes one `#+filetags:` line (`edit.rs:79-84`): of a note
  that has two the replay removes the second, against "the same call replays cleanly"
  and "`tags: []` removes the `#+filetags:` line" (`HOW_TO_USE.md:376-378`). So it is
  with a property that a drawer holds twice.
* `update_node` with tags and a body, of a note without tags that has a keyword line in
  its body (`#+name:` of a table): the new `#+filetags:` goes below that line
  (`edit.rs:99-106`) and away with the old body (`write.rs:528`). The call reports
  success, the tags are lost, and a replay sets them. A title that is only in the
  body is lost the same way.
* An update whose body begins with a keyword line (`#+name:` of a table) is not
  replayed cleanly, against `HOW_TO_USE.md:376`: `body_start_idx` takes the line
  for header, keeps it and writes it once more (`edit.rs:159`).
* `list_anchors` says its names are "exactly the anchors" that resolve
  (`query.rs:637`): radio targets, code references and footnotes resolve and are
  not listed. A `#+name:` with nothing below it is listed, and resolves to its own
  line only by text search.
* An alias with a quote can neither be created nor be set.
* The subtree of a last child (run `TextDelete`) is also what `append_to_node` and
  `get_node_section` take for it.

And of subscriptions:

* A scanner's subscribers to a node that is deleted are not told
  (`server.rs:466`), against "on any `.org` change to the corresponding file"
  (`HOW_TO_USE.md:326-329`).
* With a database, a node that moves while a burst is handled, or is created
  before Emacs synchronises, may be announced to nobody; and so may a node that
  moves while a write tool's older scan is swapped in.
* The watcher awaits each peer in turn: one that neither takes its notification
  nor fails holds up reloads too (`server.rs:500`).
* A closed session's entries stay in the map until a change of their node.
* A node for which the database gives an error is passed over (`server.rs:467`): its
  subscribers are not told, nor later. An error of the watch itself is only logged
  (`server.rs:427`).

And of listings:

* `list_orphans` leaves ascending order to the index (`query.rs:469`): on a
  database titles are compared with their quotes, `"Ab c"` before `"Ab"`, unlike
  in every other listing. A walk that meets both kinds of index may miss notes.
* A note removed between two pages moves the rest up, and one of them is missed;
  so may be one of two notes of equal titles, whose order is that of a hash map
  on a scan, though `list_nodes` is documented to walk the whole index.
* A tag filter ignores case on a scan and not on a database; `search_by_tag` alone
  filters again.
* The statements of one query are no transaction (`sqlite.rs:226-230`): a node may
  come with the tags and aliases of its next version, or with none.
* `list_tags` of a scan counts a tag twice that a headline repeats;
  `get_node_by_path` has no `warning` of a stale headline, against "same payload
  as `get_node`" (`query.rs:553`); `search_text` and `unlinked_references` return
  one hit for a limit of 0.

### Fairness

`DbSync`: weak fairness of every task's step, of `Schedule` (a handler that has
written has no await before it) and of the daemon. Weak fairness is enough
because the run lock is FIFO. No fairness of writes, forced syncs or giving up.
`IndexCell`: weak fairness of each handler's steps and of the watcher; none of
requests, edits, syncs or kills. `Server` adds that a synchronisation begins while a
write is unseen and ends: what `DbSync` is checked to provide (`ProgressKept`)
under the fairness above, with no forced sync and an Emacs that answers.
`Subscriptions`: weak fairness of the
watcher, whose every notification is assumed to end, delivered or with an error;
none of sessions, changes, Emacs or write tools. `NoteWrites`, `Populate`,
`NoteText` and `Listing` have safety properties only and no fairness. Deadlock is checked except
where the bounds let everything stop (`Text*`, `Subscriptions`); elsewhere `Idle` is
the step of a server with nothing left to do under the bounds.

## What is proved

Every theorem is about every value of the constants that the module's named
assumption allows: any number of requests, calls, paths, sessions, files, edits
and restarts, and any set of settings. The runs show the same on the instances
above, and the invariants below were model-checked on them before being proved.

`DbSyncProofs`:

* `TypeCorrect`, `LockSafe`, `OneWriterAtATime`: the inductive invariant
  `LockInv` adds to the type invariant that tasks of future generations are `none`
  (`Unborn`), without which a new task could inherit a lock, and `LockDiscipline`
  itself. Two Emacs processes write at once only if one was killed.
* `LastSyncSafe`, `RealSyncSafe`: `RunInv` and `CoverInv` relate a running
  task's `runFrom`, the version bound to what the daemon is evaluating and
  `db`: an `answered` task has its run's writes in `db`, a task in `client`
  state is the daemon's client, and no task runs from before its own request.
* `NoWriteLost`: where no sync is forced, what is unseen is covered by the
  latest task. It fails with forced syncs that are given up (see above).
* `KeepsPromise`: each step is a step of `SyncPromise` (a write landing, a run
  beginning, ending or abandoned) or leaves its variables alone.

`NoteWritesProofs`, all six properties of run `Writes`: `TypeCorrect`,
`NoTraceOfFailure`, `LocksObeyed`, `OthersWritesSeen`, `NoIdTwice` and
`ReportedEditsStay`.

* The invariant is local. `CallInv` is what one call knows: which labels its tool
  reaches, that a call which has written has no error left to return (but for the
  two tools that write and go on), and how the mtimes it holds and the text
  it has read relate to what is at its path. `Stamps` says that no two
  notes have one mtime, except those nobody has touched yet: what has the mtime that
  a call remembers is the note it saw, unless renames moved it away and back,
  which is where `Returned` was found. `NewIds` says that
  the id of a call that creates is on no file until its own write.
* A step of a call is shown to keep its own `CallInv`; whatever changes a file, to
  keep everybody else's, whose knowledge is of the past.
* `ReportedEditsStay` adds `EditsKept` to it: as long as nothing is overwritten
  unseen, the marks of finished edits are in the vault under their `:ID:`.

`SubscriptionsProofs`: `TypeCorrect`, `ToldOfWhatIsThere`, `NobodyElseLeaves`,
`NothingIsLost`.

* What is owed is on its way (`OnItsWay`): the file is queued or in the burst, the
  peer is among those to be notified, or it is dead and about to be forgotten.
  `LagsBehindEvents` says that a scan of the watcher lacks only what is queued
  again, which is why who is told reads the index of after the change.
* `NothingIsLost` follows when the watcher is at rest. It is the half of
  `ChangesAnnounced` that is not about fairness.

`ServerProofs`: `ServerTypeCorrect`, `ScansAreFresh`, `WatchedDbServed`,
`SyncedWritesServed`, `UnwatchedWritesServed`, `NoVaultLeftWithoutDb`,
`ServerKeepsPromise`.

* What is not served yet is on its way: `ScanComing`, `DbComing` and `SyncComing`
  say, for the settings the three liveness properties of run `Index` are about,
  that as long as reads are behind there is an event queued or missed, a watcher
  that is going to open the index, or someone about to swap in the right one. The
  clauses about what each handler has opened are what makes them inductive: a
  swap of something older has to be followed by an event.
* Each theorem is what holds once the watcher is at rest: the safety that
  `OneSidedEditsVisible`, `EndsOnWatchedDb` and `WritesReachReaders` rest on. That
  it comes to rest is fairness, and left to TLC.
* `UnwatchedWritesServed` is the other half of `WritesReachReaders`, out of the
  watcher's sight, and of every state: the database stays the first one, whoever opens
  an index opens it (`StaysOnFirst`), so what the synchroniser has seen is served.
* `NoVaultLeftWithoutDb` is of any number of sessions: unless the server is killed,
  a database disappears only under a call that is about to install one.
* `ServerKeepsPromise` is the other end of `KeepsPromise`: the steps of the server,
  its kills and restarts included, are steps of `SyncPromise` or none.

`PopulateProofs`, all five properties of run `Graph`: `TypeCorrect`,
`DriftIsFair`, `UntouchedStays`, `ScanIsOfVault`, `ViewsAgree`.

* The invariant says that a walk is the sum of what it has read (`WalkIsOfRead`:
  `merge` adds one file's nodes, claims and links and nothing else), that a file
  untouched since was read as it is now (`ReadIsThere`), and that the index and
  the tables are those of the walk (`ViewsOfWalks`).
* The rest is lemmas about `LinkGraph`'s passes for any set of files: the dedup
  keeps an edge of every pair, a resolved link leads to what it names
  (`TargetIsMeant`), the two maps mirror each other (`IndexIsMirrored`,
  `BacklinksOfIndex`, `ForwardLinksOfIndex`), and two walks of the same notes in any
  order agree (`FreshWalksAgree`).
* `LinkGraphAssumption` says that `Files` is finite, as a directory is: `Max` picks
  a link's last position, and `MaxIsGreatest` is proved by the well-foundedness
  of the subsets of a finite set.

`ListingProofs`, all properties of run `Listing`: `TypeCorrect`, `NothingIsHidden`,
`HitsAreTagged`, `BestAreFound`.

* Filters and sorts are defined by counting: a row's place is the number of
  rows that come before it or are it. So that a stable sort returns every row
  once, in order (`SortedKeeps`), and a filter what is wanted (`OnlyKeeps`), takes
  no induction, but that a strict order of a finite set gives each element a place
  of its own (`Placement`, in `OrderLemmas`). `BeforeIsOrder` shows that every order the tools sort
  by is one of keys, down to Rust's order of strings (`LessTotal`,
  `LessTransitive`).
* A note that was there at first has been given, or is still to come
  (`NothingHidden`). It stays so because a row never moves up: of two listings in
  one order, of which the later has all rows of the earlier, no row has fewer before
  it in the later (`NoRowMovesUp`). That two calls list in one order is
  `LatestInOrder`, which is where titles in quotes matter: orphans keep the index's
  order, so a database that takes over from a scan in mid-walk may list them in
  another, and the property says so.
* `CallInv` is what a call on a database is known to hold between two of its
  statements. `HitsAreTagged` needs it too: what is given was in the rows whose tags
  have just been read.
* `BestAreFound` is about texts. `fuzzy_score` counts letters in a fold over the text.
  The provers have no induction over data, but numbers have a least counterexample
  (`LeastExists`), and by that the fold is defined for every subset of the text's
  places (`FoldExists`) and is a run of the counter along the text
  (`FoundIsCounted`); the counter is never behind any way to find the query's
  letters in order, and finds one when it reaches the end (`FoundIffEmbedded`).
  `GradeIsRank` and `ScoreOfRank` then show that scores put matches in the order of
  their grades, whatever the density (`ScoresFollowGrades`), and `RankedKeeps` that
  the ranking is by score.

`NoteTextProofs`, of run `Text`: `TextsStayTexts`, `ReadersAgree`, `TagsStayAnswered`,
`FileIdStays`, `AnchorsLead`.

* A text is changed by putting lines in, taking lines out and exchanging one, and
  what each makes of the places of all other lines is stated once (`SpliceIs`,
  `CutIs`, `LineEditsMove`). That what is found by a property of lines is then what was
  found, in the same order (`PickedMoves`), takes no induction: the places of
  finitely many lines have one ascending enumeration (`AscendsOneWay`). Where a fold or
  a repeated search has to be followed, the least place where it goes wrong is looked
  at, as for `BestAreFound`.
* `TextsStayTexts`: every edit gives a text of well-formed lines. It is what the others
  rest on, and they need no further invariant of the file: each is of all texts.
* `ReadersAgree` compares two ways of nesting headlines. `OutlineGrows` says that the
  open headlines of `get_outline` are at each line those above it that nothing has
  closed, so the last shallower one is orgize's `Parent` (`HungBelowParent`); and what
  each of the four kinds of anchors is listed by, a strategy of `AnchorResolver` looks
  for (`ListedIsKnown`).
* `TagsStayAnswered`: `SetKeyword` leaves one line of its keyword or none
  (`SetKeywordSets`) and every other where it was; the tags read back are those
  written (`TagsReadBack`), once each (`DedupOnce`).
* `FileIdStays`: a file's `:ID:` is in a drawer that is first in the file, closes above
  its headlines and has nothing but properties in it (`IdHasDrawer`). Every place an edit
  goes to is below it, or is a property line of it that is not the `:ID:`
  (`EditsBelow`, `SetDrawerKeepsId`), and the three readers, which look for a drawer in
  three ways, all find this one (`ReadersOfId`).
* `AnchorsLead`: a new name is on no line but the marker, so every strategy that comes
  before finds nothing (`OthersFindNothing`). The headlines above the marker keep
  their drawers and parents, those below move by one line with theirs
  (`WordsAbove`, `WordsBelow`), so the node is the one it was (`NodeStays`) and its
  subtree reaches past the marked text (`SubtreeReaches`).
* Two of these properties were too strong, which no run had shown and the proofs did:
  `FileIdKept` where a drawer has two `:ID:` lines, and `AnchorLeadsToText` where a
  paragraph occurs twice (see "And of texts"). Both now say so, and hold.

Only model-checked, and why:

* Every liveness property, `ProgressKept` included: TLAPS does not handle the
  fairness and `ENABLED` reasoning they take. Their safety halves are proved as
  said above.
* `WrittenReadsBack`, `UpdateReplays` and `ValidStaysValid` of run `Text`: they are not
  true of every value of the constants, only of notes, bodies and contents without
  structure of their own, as those of `MCNoteText` are. What is appended may hold a
  headline, an open drawer or a `#+roam_key:`; on an index that is behind, an update
  may find the drawer of a note below its text, and what it sets there goes away with
  the body.

## Not modelled, and the plan

1. The three properties of run `Text` named above, of texts for which they hold.
2. The bulk scan of `find_invalid_nodes` (its walk and its cap), full-text search
   and `unlinked_references`, retrieval, and the emacsql codec: functions of a text,
   an index or a directory, without state.

Left out for good: argument parsing and transports (I/O), the wording of
messages and outcomes, the escaping in `sync.el`, and Emacs itself beyond the
behaviour stated above.
