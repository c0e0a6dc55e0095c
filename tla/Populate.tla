------------------------------ MODULE Populate ------------------------------
(***************************************************************************)
(* The two views of a vault: the ScanIndex that ScanIndex::open builds,    *)
(* and the org-roam.db that populate_database builds without Emacs         *)
(* (src/src/index/populate.rs) as SqliteIndex reads it                     *)
(* (src/src/index/sqlite.rs).  Each walks the vault file by file while     *)
(* notes change under it; populate_database then opens each file again to  *)
(* hash it.                                                                *)
(*                                                                         *)
(* How org-roam.db is put in place and which of the two is served is       *)
(* IndexCell's matter; here each view is built once.  A faulty variant is  *)
(* used by no action, as in LinkGraph.                                     *)
(***************************************************************************)
EXTENDS LinkGraph

CONSTANTS
  Texts,    \* the texts files may hold
  Fold,     \* lower case of each tag
  MaxEdits  \* bound on the number of changes to files

Gone == [sections |-> <<>>, labels |-> {}]   \* what a path without a file holds

ASSUME PopulateAssumption ==
  /\ \A t \in Texts : IsText(t)
  /\ Fold \in [Tags -> Tags]
  /\ MaxEdits \in Nat

VARIABLES
  vault,    \* the text of each file
  edits,    \* number of changes made so far
  stage,    \* how far each of the two has got
  todo,     \* files it has yet to visit, or to hash
  walk,     \* its WalkOutcome
  read,     \* history: the text it has read of each file
  touched,  \* history: files changed since it began
  index,    \* the ScanIndex, once it is open
  hash,     \* files.hash, each text standing for its hash
  db        \* the other tables of org-roam.db

vars == <<vault, edits, stage, todo, walk, read, touched, index, hash, db>>

Views == {"scan", "create"}

-----------------------------------------------------------------------------
(* The rows populate_tables inserts                                        *)

(* classify_ref: a citation loses its @, a URL its scheme. *)
Stored(r) == [url |-> r.scheme \in {"http", "https"}, key |-> r.key]

(* Faulty variant: the nodes of headlines are left to the next sync. *)
FileNodeRows(w) ==
  {[id |-> id, file |-> w.nodes[id].file, level |-> 0]
     : id \in {n \in DOMAIN w.nodes : w.nodes[n].level = 0}}

NodeRows(w) == {[id |-> id, file |-> w.nodes[id].file, level |-> w.nodes[id].level]
                  : id \in DOMAIN w.nodes}
TagRows(w)  == UNION {{id} \X w.nodes[id].tags : id \in DOMAIN w.nodes}
RefRows(w)  == {[node |-> r[2], ref |-> Stored(r[1]), type |-> r[1].scheme] : r \in w.refs}

(* Faulty variant: a link to an unknown node is inserted too. *)
AllLinkRows(w) ==
  {[source |-> l.source, dest |-> l.raw, type |-> l.kind] : l \in w.forward}

(* One row of each edge from a node, slugs as written; a link to no known  *)
(* node has none.                                                          *)
LinkRows(w) ==
  {[source |-> l.source, dest |-> l.raw, type |-> l.kind]
     : l \in {k \in w.forward : /\ k.source \in DOMAIN w.nodes
                                /\ k.kind = "id" => k.raw \in DOMAIN w.nodes}}

CitationRows(w) ==
  {[node |-> l.source, key |-> l.raw, pos |-> l.pos]
     : l \in {k \in w.forward : k.source \in DOMAIN w.nodes /\ k.kind = "cite"}}

Tables(w) == [nodes |-> NodeRows(w), tags |-> TagRows(w), refs |-> RefRows(w),
              links |-> LinkRows(w), citations |-> CitationRows(w)]

FilesWithNodes(w) == {w.nodes[id].file : id \in DOMAIN w.nodes}

-----------------------------------------------------------------------------
(* Queries of a SqliteIndex                                                *)

SqlNodes(d)         == {n.id : n \in d.nodes}
SqlBacklinks(d, id) == {l \in d.links : l.dest = id}

(* A citation is in both tables; so is its link in the answer. *)
SqlForwardLinks(d, id) ==
  {[kind |-> l.type, raw |-> l.dest] : l \in {k \in d.links : k.source = id}}
  \cup {[kind |-> "cite", raw |-> c.key] : c \in {k \in d.citations : k.node = id}}

SqlExternalLinks(d, id) ==
  {[kind |-> l.type, raw |-> l.dest]
     : l \in {k \in d.links : k.source = id /\ k.type \in {"cite", "https"}}}

(* Faulty variant: a citation is looked up with its @. *)
SqlByRefVerbatim(d, r) ==
  {row.node : row \in {k \in d.refs : k.ref = Stored(r) /\ r.scheme # "@"}}

(* The refs table holds what was declared, the citations table what is      *)
(* cited; URLs are looked up by what follows the scheme.                   *)
SqlByRef(d, r) ==
  {row.node : row \in {k \in d.refs : k.ref = Stored(r)}}
  \cup IF r.scheme \in {"@", ""}
       THEN {c.node : c \in {k \in d.citations : k.key = r.key}} ELSE {}

SqlByTag(d, tag) == {id \in SqlNodes(d) : <<id, tag>> \in d.tags}

SqlOrphans(d) ==
  SqlNodes(d) \ UNION {{l.source, l.dest} : l \in {k \in d.links : k.type = "id"}}

(* compute_drift, of a fresh scan against the database. *)
MissingInSqlite(x, d)  == Nodes(x) \ SqlNodes(d)
MissingInScanner(x, d) == SqlNodes(d) \ Nodes(x)

-----------------------------------------------------------------------------
TypeOK ==
  /\ vault \in [Files -> Texts \cup {Gone}]
  /\ edits \in 0..MaxEdits
  /\ stage \in [Views -> {"idle", "walk", "hash", "done", "failed"}]
  /\ todo \in [Views -> SUBSET Files]
  /\ \A v \in Views : /\ DOMAIN walk[v].nodes \subseteq Names
                      /\ \A id \in DOMAIN walk[v].nodes : walk[v].nodes[id] \in NodeMeta
                      /\ walk[v].forward \subseteq LinkRecord
                      /\ walk[v].refs \subseteq Ref \X Names
  /\ read \in [Views -> [Files -> Texts \cup {Gone}]]
  /\ touched \in [Views -> SUBSET Files]
  /\ index.forward \cup index.backward \subseteq LinkRecord
  /\ hash \in [Files -> Texts \cup {Gone}]

Init ==
  /\ vault \in [Files -> Texts \cup {Gone}]
  /\ edits = 0
  /\ stage = [v \in Views |-> "idle"]
  /\ todo = [v \in Views |-> {}]
  /\ walk = [v \in Views |-> EmptyWalk]
  /\ read = [v \in Views |-> [f \in Files |-> Gone]]
  /\ touched = [v \in Views |-> {}]
  /\ index = EmptyIndex
  /\ hash = [f \in Files |-> Gone]
  /\ db = Tables(EmptyWalk)

Enter(v, at) == stage' = [stage EXCEPT ![v] = at]

(* ScanIndex::open or populate_database is called. *)
Begin(v) ==
  /\ stage[v] = "idle"
  /\ Enter(v, "walk")
  /\ todo' = [todo EXCEPT ![v] = Files]
  /\ touched' = [touched EXCEPT ![v] = {}]
  /\ UNCHANGED <<vault, edits, walk, read, index, hash, db>>

(* walkdir comes to a path, in the order of the directory, and the file is  *)
(* read, parsed and merged; one that cannot be read is skipped.            *)
Visit(v, f) ==
  /\ stage[v] = "walk" /\ f \in todo[v]
  /\ todo' = [todo EXCEPT ![v] = @ \ {f}]
  /\ read' = [read EXCEPT ![v][f] = vault[f]]
  /\ walk' = [walk EXCEPT ![v] = IF vault[f] = Gone THEN @ ELSE Merge(@, f, vault[f])]
  /\ UNCHANGED <<vault, edits, stage, touched, index, hash, db>>

(* The passes; the last one reads the files of the nodes once more, one by  *)
(* one.  Here it is at once: of two edits in between, the code may see the *)
(* later one only.  No property tells name links from fuzzy ones then.     *)
Open ==
  /\ stage["scan"] = "walk" /\ todo["scan"] = {}
  /\ index' = Index(walk["scan"],
                    UNION {vault[f].labels : f \in FilesWithNodes(walk["scan"])})
  /\ Enter("scan", "done")
  /\ UNCHANGED <<vault, edits, todo, walk, read, touched, hash, db>>

(* build_database: a row for each file with nodes. *)
Build ==
  /\ stage["create"] = "walk" /\ todo["create"] = {}
  /\ todo' = [todo EXCEPT !["create"] = FilesWithNodes(walk["create"])]
  /\ Enter("create", "hash")
  /\ UNCHANGED <<vault, edits, walk, read, touched, index, hash, db>>

(* file_hash_and_mtime opens the file again; if it is gone, so is the call. *)
Hash(f) ==
  /\ stage["create"] = "hash" /\ f \in todo["create"]
  /\ IF vault[f] = Gone
     THEN Enter("create", "failed") /\ UNCHANGED <<todo, hash>>
     ELSE /\ hash' = [hash EXCEPT ![f] = vault[f]]
          /\ todo' = [todo EXCEPT !["create"] = @ \ {f}]
          /\ UNCHANGED stage
  /\ UNCHANGED <<vault, edits, walk, read, touched, index, db>>

(* The other rows, the commit, and the database is in place. *)
Commit ==
  /\ stage["create"] = "hash" /\ todo["create"] = {}
  /\ db' = Tables(walk["create"])
  /\ Enter("create", "done")
  /\ UNCHANGED <<vault, edits, todo, walk, read, touched, index, hash>>

(* A note is written, created or deleted. *)
Edit(f, t) ==
  /\ edits < MaxEdits /\ t # vault[f]
  /\ vault' = [vault EXCEPT ![f] = t]
  /\ edits' = edits + 1
  /\ touched' = [v \in Views |-> touched[v] \cup {f}]
  /\ UNCHANGED <<stage, todo, walk, read, index, hash, db>>

(* Both have ended. *)
Idle == (\A v \in Views : stage[v] \in {"done", "failed"}) /\ UNCHANGED vars

Next ==
  \/ \E v \in Views : Begin(v) \/ \E f \in Files : Visit(v, f)
  \/ Open \/ Build \/ Commit
  \/ \E f \in Files : Hash(f)
  \/ \E f \in Files, t \in Texts \cup {Gone} : Edit(f, t)
  \/ Idle

Spec == Init /\ [][Next]_vars
-----------------------------------------------------------------------------
(* Properties                                                              *)

Done(v)      == stage[v] = "done"
Untouched(v) == Files \ touched[v]
Fresh        == \A v \in Views : Done(v) /\ touched[v] = {}

SectionsOf(f) == vault[f].sections
Ids           == UNION {IdsIn(SectionsOf(f)) : f \in Files}
IdLinks(f)    == {l \in LinksIn(f, SectionsOf(f)) : l.kind = "id"}

(* A walk is no snapshot, but what did not change during it is indexed:     *)
(* every node of an untouched file, and every link between two of them,    *)
(* whatever was created, deleted or moved around them.                     *)
UntouchedIndexed ==
  Done("scan") =>
    \A f, g \in Untouched("scan") :
      /\ IdsIn(SectionsOf(f)) \subseteq Nodes(index)
      /\ \A l \in IdLinks(f) :
           l.dest \in IdsIn(SectionsOf(g)) =>
             \E b \in Backlinks(index, l.dest) : b.source = l.source

(* What a name in an id: link stands for: the node with that :ID:, else the *)
(* node of the only file called so, else nothing that is there.            *)
Claimants(name) ==
  {f \in Files : name \in SlugsOf[f] /\ vault[f] # Gone /\ SectionsOf(f)[1].id # NoName}
Means(name) ==
  IF name \notin Ids /\ Cardinality(Claimants(name)) = 1
  THEN SectionsOf(CHOOSE f \in Claimants(name) : TRUE)[1].id
  ELSE name

(* An edge is in both directions or in neither, once, with the destination *)
(* its slug stands for.                                                    *)
Mirrored(x) ==
  /\ {LinkKey(l) : l \in x.backward}
       = {LinkKey(l) : l \in {k \in x.forward : k.dest # NoName}}
  /\ \A links \in {x.forward, x.backward} :
       \A k, l \in links : LinkKey(k) = LinkKey(l) => k = l

(* Whatever changed while it was opened, an index's backlinks() are the    *)
(* mirror of its forward_links().  If nothing did, it has the nodes of the *)
(* vault, the backlinks its id: links mean, and as orphans the nodes       *)
(* without either.                                                         *)
ScanMatchesVault ==
  /\ Mirrored(index)
  /\ Done("scan") /\ touched["scan"] = {} =>
       LET links == UNION {IdLinks(f) : f \in Files} IN
       /\ Nodes(index) = Ids
       /\ \A name \in Names :
            {l.source : l \in Backlinks(index, name)}
              = {l.source : l \in {k \in links : Means(k.raw) = name}}
       /\ Orphans(index) = Ids \ UNION {{l.source, Means(l.raw)} : l \in links}

(* Ids of two files: which of the two is a node's depends on the walk. *)
Duplicated == UNION {IdsIn(SectionsOf(p[1])) \cap IdsIn(SectionsOf(p[2]))
                       : p \in {q \in Files \X Files : q[1] # q[2]}}

(* A link to a #+NAME: is a fuzzy one in the database. *)
AsShown(links) ==
  {[kind |-> IF l.kind = "name" THEN "fuzzy" ELSE l.kind, raw |-> l.raw] : l \in links}

ExplicitEdgesAgree ==
  /\ Orphans(index) \subseteq SqlOrphans(db)
  /\ \A id \in Names :
       /\ {l.source : l \in {k \in SqlBacklinks(db, id) : k.type = "id"}}
            = {l.source : l \in {k \in Backlinks(index, id) : k.raw = id /\ id \in Nodes(index)}}
       /\ SqlForwardLinks(db, id)
            = AsShown({l \in ForwardLinks(index, id) : l.kind = "id" => l.raw \in Nodes(index)})
       /\ SqlExternalLinks(db, id) = AsShown(ExternalLinks(index, id))

LookupsAgree ==
  /\ \A r \in Ref : ByRef(index, r) \subseteq SqlByRef(db, r)
  /\ \A tag \in Tags : SqlByTag(db, tag) \ Duplicated \subseteq ByTag(index, tag, Fold)

(* "Both backends return the same shapes": of a vault that did not change,  *)
(* the database has every backlink that names its node by :ID:, and no     *)
(* other, and every forward link but the id: links to no :ID:; what has no  *)
(* links in the notes has none there.  It finds by ref what the scan finds, *)
(* and by tag nothing else.                                                *)
DbAgreesWithScan == Fresh => ExplicitEdgesAgree /\ LookupsAgree

(* Drift never blames a note that changed while neither view was built. *)
DriftBlamesTheTouched ==
  Done("scan") /\ Done("create") =>
    \A f \in Untouched("scan") \cap Untouched("create") :
      IdsIn(SectionsOf(f)) \cap (MissingInSqlite(index, db) \cup MissingInScanner(index, db))
        = {}

(* The hash of each file's row is that of the text its nodes came from, as  *)
(* org-roam-db-sync, which reads no file whose hash is unchanged, assumes. *)
HashIsOfRows ==
  Done("create") => \A f \in FilesWithNodes(walk["create"]) : hash[f] = read["create"][f]
=============================================================================
