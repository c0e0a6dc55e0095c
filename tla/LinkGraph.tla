----------------------------- MODULE LinkGraph ------------------------------
(***************************************************************************)
(* The link graph of a vault as the filesystem scanner builds it: the walk *)
(* that parses and merges one file after the other, the passes that turn   *)
(* its outcome into a ScanIndex, and the index's queries                   *)
(* (src/src/index/scan.rs).                                                *)
(*                                                                         *)
(* A file's text is a sequence of sections, the first the one before any   *)
(* headline, at level 0; a section has what its property drawer and its    *)
(* own body hold.  Ids, basename slugs and citation keys are Names: a slug *)
(* may spell the :ID: of another file.  A link's position is its file and  *)
(* section.                                                                *)
(*                                                                         *)
(* A definition introduced as a faulty variant is used by no other: it is  *)
(* what a plausible mistake would make of the definition after it, and     *)
(* shows that the properties can tell the two apart.                       *)
(***************************************************************************)
EXTENDS Naturals, Sequences, FiniteSetsExt

CONSTANTS
  Files,    \* paths of .org files
  Names,    \* ids, slugs and citation keys
  Tags,     \* tags, as written
  SlugsOf,  \* what a file may be called in an id: link, after its basename
  NoName    \* the id of a section without one

ASSUME LinkGraphAssumption ==
  /\ IsFiniteSet(Files)
  /\ SlugsOf \in [Files -> SUBSET Names]
  /\ NoName \notin Names

Schemes == {"@", "http", "https", ""}          \* of a ROAM_REFS entry
Ref     == [scheme: Schemes, key: Names]
Link    == [kind: {"id", "fuzzy", "cite", "https"}, to: Names]
Section == [level: Nat, id: Names \cup {NoName}, links: SUBSET Link,
            cites: SUBSET Names, refs: SUBSET Ref, tags: SUBSET Tags]

(* Sections, and what the #+NAME: keywords of the file declare. *)
IsText(t) ==
  /\ t.sections \in Seq(Section) /\ Len(t.sections) > 0
  /\ \A i \in DOMAIN t.sections : t.sections[i].level = 0 <=> i = 1
  /\ t.labels \subseteq Names

LinkRecord == [source: Names, dest: Names \cup {NoName}, raw: Names,
               kind: {"id", "fuzzy", "cite", "https", "name"}, pos: Files \X (Nat \ {0})]
NodeMeta   == [file: Files, level: Nat, tags: SUBSET Tags]

-----------------------------------------------------------------------------
(* ParsedFile                                                              *)

Ancestors(s, i) == {j \in 1..(i - 1) : \A k \in (j + 1)..i : s[j].level < s[k].level}

(* What a section holds is attributed to its own node, else to the nearest *)
(* enclosing one, the file's being the outermost.                          *)
Owner(s, i) ==
  LET owners == {j \in Ancestors(s, i) \cup {i} : s[j].id # NoName}
  IN IF owners = {} THEN NoName ELSE s[Max(owners)].id

IdsIn(s) == {s[i].id : i \in DOMAIN s} \ {NoName}

(* Of two sections with one :ID: the later one's entry is kept. *)
NodeIn(f, s, id) ==
  LET i == Max({j \in DOMAIN s : s[j].id = id})
  IN [file |-> f, level |-> s[i].level, tags |-> s[i].tags]

(* Faulty variant: what belongs to no node is recorded too. *)
AllSections(s) == DOMAIN s

OwnedSections(s) == {i \in DOMAIN s : Owner(s, i) # NoName}

LinksIn(f, s) ==
  UNION {
    {[source |-> Owner(s, i), dest |-> IF l.kind = "id" THEN l.to ELSE NoName,
      raw |-> l.to, kind |-> l.kind, pos |-> <<f, i>>] : l \in s[i].links}
    \cup
    {[source |-> Owner(s, i), dest |-> NoName,
      raw |-> k, kind |-> "cite", pos |-> <<f, i>>] : k \in s[i].cites}
    : i \in OwnedSections(s)}

(* Refs of the drawers of nodes, and the citations in the text. *)
RefsIn(s) ==
  UNION {
    {<<r, s[i].id>> : r \in IF s[i].id = NoName THEN {} ELSE s[i].refs}
    \cup {<<[scheme |-> "@", key |-> k], Owner(s, i)>> : k \in s[i].cites}
    : i \in OwnedSections(s)}

-----------------------------------------------------------------------------
(* The walk: WalkOutcome and merge_parsed_file                             *)

EmptyWalk == [nodes |-> <<>>, forward |-> {}, refs |-> {}, claims |-> {}]

(* Faulty variant: a file's links take the place of those already there. *)
MergeReplacing(walk, f, t) ==
  LET s == t.sections IN
  [nodes   |-> [id \in DOMAIN walk.nodes \cup IdsIn(s) |->
                  IF id \in IdsIn(s) THEN NodeIn(f, s, id) ELSE walk.nodes[id]],
   forward |-> {l \in walk.forward : l.source \notin IdsIn(s)} \cup LinksIn(f, s),
   refs    |-> walk.refs \cup RefsIn(s),
   claims  |-> walk.claims \cup
               IF s[1].id = NoName THEN {} ELSE SlugsOf[f] \X {s[1].id} \X {f}]

(* A node met again takes the place of the earlier one; links and refs add *)
(* up; a file with a node of its own claims its slugs.                     *)
Merge(walk, f, t) ==
  LET s == t.sections IN
  [nodes   |-> [id \in DOMAIN walk.nodes \cup IdsIn(s) |->
                  IF id \in IdsIn(s) THEN NodeIn(f, s, id) ELSE walk.nodes[id]],
   forward |-> walk.forward \cup LinksIn(f, s),
   refs    |-> walk.refs \cup RefsIn(s),
   claims  |-> walk.claims \cup
               IF s[1].id = NoName THEN {} ELSE SlugsOf[f] \X {s[1].id} \X {f}]

-----------------------------------------------------------------------------
(* ScanIndex::open: the passes after the walk                              *)

ClaimsOf(walk, slug) == {c \in walk.claims : c[1] = slug}

(* Faulty variant: a slug hides the node whose :ID: it spells. *)
ResolvesShadowing(walk, name) == Cardinality(ClaimsOf(walk, name)) = 1

(* A name stands for a file if it is no :ID: and one file alone claims it. *)
Resolves(walk, name) ==
  name \notin DOMAIN walk.nodes /\ Cardinality(ClaimsOf(walk, name)) = 1

ResolveIdSlug(walk, l) ==
  IF l.kind = "id" /\ Resolves(walk, l.dest)
  THEN [l EXCEPT !.dest = (CHOOSE c \in ClaimsOf(walk, l.dest) : TRUE)[2]]
  ELSE l

LinkKey(l) == <<l.source, l.dest, l.kind, l.raw>>

(* One record of each edge. *)
Dedup(links) ==
  {CHOOSE l \in links : LinkKey(l) = key : key \in {LinkKey(l) : l \in links}}

(* A bare-text link to what a #+NAME: of some node's file declares. *)
Reclassify(links, labels) ==
  {IF l.kind = "fuzzy" /\ l.raw \in labels THEN [l EXCEPT !.kind = "name"] ELSE l
     : l \in links}

(* Faulty variant: backlinks are collected before slugs are resolved. *)
IndexTooEarly(walk, labels) ==
  [nodes    |-> walk.nodes,
   forward  |-> Dedup(Reclassify({ResolveIdSlug(walk, l) : l \in walk.forward}, labels)),
   backward |-> Dedup({l \in walk.forward : l.dest # NoName}),
   refs     |-> walk.refs]

Index(walk, labels) ==
  LET resolved == {ResolveIdSlug(walk, l) : l \in walk.forward} IN
  [nodes    |-> walk.nodes,
   forward  |-> Dedup(Reclassify(resolved, labels)),
   backward |-> Dedup({l \in resolved : l.dest # NoName}),
   refs     |-> walk.refs]

EmptyIndex == Index(EmptyWalk, {})

-----------------------------------------------------------------------------
(* Queries of a ScanIndex                                                  *)

Nodes(x)            == DOMAIN x.nodes
ForwardLinks(x, id) == {l \in x.forward : l.source = id}
Backlinks(x, id)    == {l \in x.backward : l.dest = id}

ByRef(x, r) == {id \in Nodes(x) : <<r, id>> \in x.refs}

(* Tags are compared without regard to case; Fold is their lower case. *)
ByTag(x, tag, Fold) ==
  {id \in Nodes(x) : \E t \in x.nodes[id].tags : Fold[t] = Fold[tag]}

(* A node with no id: link out and none in. *)
Orphans(x) ==
  {id \in Nodes(x) : /\ Backlinks(x, id) = {}
                     /\ \A l \in ForwardLinks(x, id) : l.kind # "id"}

ExternalLinks(x, id) == {l \in ForwardLinks(x, id) : l.kind \in {"cite", "https"}}
=============================================================================
