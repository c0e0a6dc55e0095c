------------------------------ MODULE NoteText ------------------------------
(***************************************************************************)
(* The life of one note's file under the tools that write it               *)
(* (src/src/tools/write.rs): what each call makes of the text, from its    *)
(* creation to its deletion, and what the read tools then find in it       *)
(* (src/src/tools/content.rs).                                             *)
(*                                                                         *)
(* Each call is one step here: locks, stale reads and failing writes are   *)
(* NoteWrites's matter, and so is the name of the file.  The index that    *)
(* says what an id stands for may be older than the text.  A call that     *)
(* fails, or that writes what is there already, is no step.                *)
(***************************************************************************)
EXTENDS OrgEdit, NoteChecks, Anchors

CONSTANTS
  Notes,     \* texts the file may have at first; <<>> is no file
  Params,    \* what create_node and update_node may be asked for
  Titles,    \* titles for rename_node
  TagLists,  \* arguments of the tag tools
  Contents,  \* what append, prepend and daily_capture are given
  Aims,      \* titles of headlines they are aimed at
  Words,     \* what insert_anchor searches for
  Names,     \* names of anchors
  MaxCalls   \* bound on the number of calls

Tags == DOMAIN Segments

(* A line as the tools and the vault have them: headlines, and only they,  *)
(* have a level; keywords and properties have words, a #+name: one; the    *)
(* words of the keywords for tags are tags.                                *)
NoteLine ==
  {l \in Line : /\ l.kind = "head" <=> l.level > 0
                /\ l.kind \in {"kw", "prop"} => l.val # <<>>
                /\ (l.kind = "kw" /\ l.key = "name") => Len(l.val) = 1
                /\ (l.kind = "kw" /\ l.key \in {"filetags", "roam_tags"}) => l.val \in Seq(Tags)}

Asked ==
  [title: {NoName} \cup Vocabulary, tags: {NoName} \cup Seq(Tags),
   aliases: {NoName} \cup Seq(Vocabulary), refs: {NoName} \cup Seq(Vocabulary),
   property: {NoName} \cup Vocabulary, body: {NoName} \cup Seq(NoteLine)]

(* What the tools write themselves. *)
Literals == {"", "ID", "title", "filetags", "roam_tags", "ROAM_ALIASES", "ROAM_REFS",
             "date", "link", "value"}

ASSUME NoteTextAssumption ==
  /\ Literals \subseteq Vocabulary /\ NoName \notin Vocabulary
  /\ Notes \subseteq Seq(NoteLine) /\ Contents \subseteq Seq(NoteLine) \ {<<>>}
  /\ Params \subseteq Asked
  /\ Tags \subseteq Vocabulary /\ Segments \in [Tags -> Seq(Tags)] /\ TagLists \subseteq Seq(Tags)
  /\ Titles \subseteq Vocabulary /\ Uuids \subseteq Vocabulary
  /\ Words \subseteq Vocabulary /\ Names \subseteq Vocabulary /\ Words \cap Names = {}
  /\ MaxCalls \in Nat

VARIABLES
  text,   \* the lines of the file
  known,  \* the nodes of the file in the index
  calls   \* number of calls so far

vars == <<text, known, calls>>

TypeOK ==
  /\ text \in Seq(NoteLine)
  /\ \A id \in DOMAIN known : known[id] \in {"file", "headline"}
  /\ calls \in 0..MaxCalls

Init ==
  /\ text \in Notes
  /\ known = NodesOf(text)
  /\ calls = 0

Exists == text # <<>>

Write(new) ==
  /\ calls < MaxCalls
  /\ new # text /\ text' = new
  /\ calls' = calls + 1
  /\ UNCHANGED known

(* The watcher has the index reloaded. *)
Refresh == known # NodesOf(text) /\ known' = NodesOf(text) /\ UNCHANGED <<text, calls>>

-----------------------------------------------------------------------------
(* Creation                                                                *)

Unless(cond, lines) == IF cond THEN <<>> ELSE lines

Created(id, p) ==
  <<Open, Prop("ID", <<id>>)>>
  \o Unless(p.aliases = <<>>, <<Prop("ROAM_ALIASES", p.aliases)>>)
  \o Unless(p.refs = <<>>, <<Prop("ROAM_REFS", p.refs)>>)
  \o <<End, Kw("title", <<p.title>>)>>
  \o Unless(p.tags = <<>>, <<Kw("filetags", p.tags)>>)
  \o Unless(p.body = <<>>, <<Blank>> \o p.body)

NewId(id) == id \in Uuids \ (DOMAIN known \cup IdsIn(text))

(* Every field but the property is given. *)
Given(p) == NoName \notin {p.title, p.tags, p.aliases, p.refs, p.body}

CreateNode(id, p) ==
  /\ ~Exists /\ NewId(id) /\ Given(p)
  /\ Valid(Created(id, p))
  /\ Write(Created(id, p))

-----------------------------------------------------------------------------
(* Insertions                                                              *)

Located(t, aim) == aim = NoName \/ HeadlineTitled(t, aim) # 0

(* Faulty variant: content goes to the end of the headline's own section. *)
InsertInSection(t, aim, content) ==
  Splice(t, IF aim = NoName THEN Len(t) + 1 ELSE SectionEnd(t, HeadlineTitled(t, aim)),
         <<Blank>> \o TrimEnd(content))

(* Faulty variant: content goes right below the headline. *)
InsertBelowTitle(t, aim, content) ==
  Splice(t, IF aim = NoName THEN Len(t) + 1 ELSE HeadlineTitled(t, aim) + 1,
         <<Blank>> \o TrimEnd(content))

(* At the end of the subtree of a headline, else of the file. *)
InsertUnderHeadline(t, aim, content) ==
  Splice(t, IF aim = NoName THEN Len(t) + 1 ELSE SubtreeEnd(t, HeadlineTitled(t, aim)),
         <<Blank>> \o TrimEnd(content))

AppendToNode(id, aim, content) ==
  /\ id \in DOMAIN known /\ Exists /\ Located(text, aim)
  /\ Write(InsertUnderHeadline(text, aim, content))

AddLink(id, target, aim) ==
  /\ {id, target} \subseteq DOMAIN known /\ Exists /\ Located(text, aim)
  /\ Write(InsertUnderHeadline(text, aim, <<Text(<<"link", target>>)>>))

(* Faulty variant: the title comes first. *)
DailyTitleFirst(id) == <<Kw("title", <<"date">>), Open, Prop("ID", <<id>>), End>>

DailyHeader(id) == <<Open, Prop("ID", <<id>>), End, Kw("title", <<"date">>)>>

(* The file is the day's note.  It is created first: the note stays, if the *)
(* headline is then not found.                                             *)
DailyCapture(id, aim, content) ==
  LET daily == IF Exists THEN text ELSE DailyHeader(id)
  IN /\ Exists \/ NewId(id)
     /\ Write(IF Located(daily, aim) THEN InsertUnderHeadline(daily, aim, content) ELSE daily)

(* Where prepend_to_node inserts; 0 if its headline is not there. *)
PrependOffset(t, id, aim) ==
  LET h == IF aim # NoName THEN HeadlineTitled(t, aim) ELSE HeadlineById(t, id)
  IN IF aim = NoName /\ known[id] = "file" THEN BodyStart(t)
     ELSE IF h = 0 THEN 0 ELSE HeadlineBody(t, h)

PrependToNode(id, aim, content) ==
  /\ id \in DOMAIN known /\ Exists
  /\ PrependOffset(text, id, aim) # 0
  /\ Write(Splice(text, PrependOffset(text, id, aim), TrimEnd(content) \o <<Blank>>))

(* The first line of the file that has the text in it, 0 if none does. *)
SearchText(t, word) == ByTextSearch(t, word).begin

(* Faulty variant: the marker goes below the line. *)
MarkerBelow(t, word, name) == Splice(t, SearchText(t, word) + 1, <<Of("target", name, <<>>)>>)

MarkerInserted(t, word, name) == Splice(t, SearchText(t, word), <<Of("target", name, <<>>)>>)

InsertAnchor(id, word, name) ==
  /\ id \in DOMAIN known /\ Exists /\ SearchText(text, word) # 0
  /\ Write(MarkerInserted(text, word, name))

-----------------------------------------------------------------------------
(* Edits                                                                   *)

(* The drawer is not the place for :ID:, nor the body for a header. *)
Refused(p) ==
  \/ p.property = "ID"
  \/ /\ p.body \notin {NoName, <<>>}
     /\ p.body[1] = Open \/ (p.body[1].kind = "kw" /\ p.body[1].key = "title")

Apply(given, new, old) == IF given = NoName THEN old ELSE new

ApplyNodeEdits(t, p) ==
  LET titled  == Apply(p.title, SetKeyword(t, "title", <<p.title>>), t)
      tagged  == Apply(p.tags, SetKeyword(titled, "filetags", p.tags), titled)
      aliased == Apply(p.aliases, SetDrawerProperty(tagged, "ROAM_ALIASES", p.aliases), tagged)
      reffed  == Apply(p.refs, SetDrawerProperty(aliased, "ROAM_REFS", p.refs), aliased)
      filled  == Apply(p.property, SetDrawerProperty(reffed, p.property, <<"value">>), reffed)
  IN Apply(p.body, ReplaceFileBody(filled, p.body), filled)

UpdateNode(id, p) ==
  /\ id \in DOMAIN known /\ known[id] = "file" /\ Exists
  /\ ~Refused(p)
  /\ Valid(ApplyNodeEdits(text, p))
  /\ Write(ApplyNodeEdits(text, p))

RenameNode(id, title) ==
  /\ id \in DOMAIN known /\ known[id] = "file" /\ Exists
  /\ Write(SetKeyword(text, "title", <<title>>))

Added(tags)     == Dedup(FileLevelTags(text) \o tags)
Remaining(tags) ==
  LET old == FileLevelTags(text) IN Picked(old, {i \in DOMAIN old : old[i] \notin ToSet(tags)})

(* The new tags of a tag tool, if they are not those of the file. *)
Retag(id, tags) ==
  /\ id \in DOMAIN known /\ Exists
  /\ tags # FileLevelTags(text)
  /\ Write(ApplyFileTags(text, tags))

AddTag(id, tags)    == Retag(id, Added(tags))
RemoveTag(id, tags) == Retag(id, Remaining(tags))
SetTags(id, tags)   == Retag(id, Dedup(tags))

DeleteNode(id) ==
  /\ id \in DOMAIN known /\ Exists
  /\ IF known[id] = "file" THEN Write(<<>>)
     ELSE LET h == HeadlineById(text, id)
          IN h # 0 /\ Write(Cut(text, h, SubtreeEnd(text, h)))

-----------------------------------------------------------------------------
(* Reads                                                                   *)

(* The text get_node_section looks in: the whole file if the headline of a *)
(* node is gone.                                                           *)
NodeBody(t, id) ==
  LET h == HeadlineById(t, id)
  IN IF known[id] = "file" \/ h = 0 THEN t ELSE SubSeq(t, h, SubtreeEnd(t, h) - 1)

Lines(t, s) == SubSeq(t, s.begin, s.end - 1)

(* The refs get_refs answers: those of the drawer, and of a file its       *)
(* #+roam_key: lines.                                                      *)
GetRefs(t, id) ==
  LET h == HeadlineById(t, id) IN
  IF known[id] = "headline" /\ h = 0 THEN <<>>
  ELSE Dedup(PropertyWords(t, IF known[id] = "file" THEN 0 ELSE h, "ROAM_REFS")
             \o IF known[id] = "file" THEN FlattenSeq(KeywordValues(t, "roam_key")) ELSE <<>>)

(* The names list_anchors finds in a text. *)
AnchorsIn(t) ==
  {t[h].key : h \in Headlines(t)}
  \cup ({Property(t, h, "CUSTOM_ID") : h \in Headlines(t)} \ {NoName})
  \cup {t[i].key : i \in {j \in DOMAIN t : t[j].kind = "target"}}
  \cup {t[i].val[1] : i \in {j \in DOMAIN t : t[j].kind = "kw" /\ t[j].key = "name"}}

(* Faulty variant: of the whole file. *)
ListFileAnchors(t, id) == AnchorsIn(t)

ListAnchors(t, id) == AnchorsIn(NodeBody(t, id))

(* A headline closes those open that are no shallower, and hangs below the *)
(* last one still open, 0 for none.                                        *)
Hang(t, s, h) ==
  LET up == Max({0} \cup {i \in DOMAIN s.open : t[s.open[i]].level < t[h].level})
  IN [open |-> Append(SubSeq(s.open, 1, up), h),
      tree |-> [s.tree EXCEPT ![h] = IF up = 0 THEN 0 ELSE s.open[up]]]

(* The headline get_outline hangs each one below.                          *)
OutlineTree(t) ==
  FoldLeftDomain(LAMBDA s, i : IF t[i].kind = "head" THEN Hang(t, s, i) ELSE s,
                 [open |-> <<>>, tree |-> [h \in Headlines(t) |-> 0]], t).tree

-----------------------------------------------------------------------------
Next ==
  \/ Refresh
  \/ \E id \in Uuids, p \in Params : CreateNode(id, p) \/ UpdateNode(id, p)
  \/ \E id \in Uuids, aim \in Aims \cup {NoName}, content \in Contents :
       \/ AppendToNode(id, aim, content)
       \/ PrependToNode(id, aim, content)
       \/ DailyCapture(id, aim, content)
  \/ \E id, target \in Uuids, aim \in Aims \cup {NoName} : AddLink(id, target, aim)
  \/ \E id \in Uuids, word \in Words, name \in Names : InsertAnchor(id, word, name)
  \/ \E id \in Uuids, title \in Titles : RenameNode(id, title)
  \/ \E id \in Uuids, tags \in TagLists : AddTag(id, tags) \/ RemoveTag(id, tags) \/ SetTags(id, tags)
  \/ \E id \in Uuids : DeleteNode(id)

Spec == Init /\ [][Next]_vars
-----------------------------------------------------------------------------
(* Properties                                                              *)

(* The text insert_anchor finds first need not be in a paragraph. *)
InParagraph(word) == text[SearchText(text, word)].kind = "text"

MarkerElsewhere ==
  \E id \in Uuids, word \in Words, name \in Names :
    InsertAnchor(id, word, name) /\ ~InParagraph(word)

(* The properties drawer has one :ID:. *)
IdOnce(t) ==
  \A i, j \in DrawerLines(t) :
    {t[i].kind, t[j].kind} = {"prop"} /\ {t[i].key, t[j].key} = {"ID"} => i = j

(* Whatever the calls, but for a marker outside of paragraphs, a file keeps *)
(* its :ID:, and the server's three readers of it agree: orgize for the    *)
(* index, extract_file_id for daily_capture, the scan for validation; the  *)
(* last of them, unless there are two, for it takes the second.            *)
FileIdKept ==
  [][Exists' /\ ~MarkerElsewhere =>
       /\ Exists /\ FileId(text) # NoName => FileId(text') = FileId(text)
       /\ FileId(text') # NoName =>
            /\ ExtractFileId(text') = FileId(text')
            /\ IdOnce(text') => DrawerId(text') = FileId(text')]_text

CreatedIsNode ==
  \A id \in Uuids :
    /\ \A p \in Params : CreateNode(id, p) =>
         /\ FileId(text') = id
         /\ KeywordValues(text', "title")[1] = <<p.title>>
         /\ FileLevelTags(text') = Dedup(Split(p.tags))
    /\ \A aim \in Aims, content \in Contents :
         ~Exists /\ DailyCapture(id, aim, content) => FileId(text') = id

(* The node a line belongs to, as the index attributes its links. *)
OwnLines(t, id) ==
  LET owner[h \in Headlines(t) \cup {0}] ==
        IF h = 0 \/ IdOf(t, h) # NoName THEN IdOf(t, h) ELSE owner[Parent(t, h)]
      above(i) == Max({0} \cup {h \in Headlines(t) : h <= i})
  IN FlattenSeq([i \in DOMAIN t |-> IF owner[above(i)] = id THEN <<t[i]>> ELSE <<>>])

PrependedIsNodes ==
  \A id \in IdsIn(text) \cap DOMAIN known, content \in Contents :
    PrependToNode(id, NoName, content) =>
      /\ NodesOf(text') = NodesOf(text)
      /\ \A other \in IdsIn(text) \cup {NoName} :
           Len(OwnLines(text', other))
             = Len(OwnLines(text, other)) + IF other = id THEN Len(content) + 1 ELSE 0

AppendedIsSections ==
  \A id \in DOMAIN known, aim \in Aims, content \in Contents :
    known[id] = "file" /\ AppendToNode(id, aim, content) =>
      IsSuffix(<<Blank>> \o content,
               Lines(text', Resolve(NodeBody(text', id), aim)))

RefsAsGiven ==
  \A id \in DOMAIN known, p \in Params :
    p.refs # NoName /\ UpdateNode(id, p) /\ KeywordValues(text, "roam_key") = <<>> =>
      GetRefs(text', id) = Dedup(p.refs)

(* What a write tool was given, the read tools find.  A note made by        *)
(* create_node or daily_capture is the node whose id the caller is told,   *)
(* with the title and the tags it gave; the refs given to update_node are  *)
(* those of get_refs.  What is prepended to a node becomes part of it, and *)
(* neither its metadata nor the lines of another node change.  What was    *)
(* put under a headline of a file's node is the end of what                *)
(* get_node_section reads under its title.                                 *)
WrittenReadsBack ==
  [][CreatedIsNode /\ PrependedIsNodes /\ AppendedIsSections /\ RefsAsGiven]_text

(* Nothing but blanks and keywords follows a #+name: of the text. *)
NothingNamed(t, name) ==
  \E i \in DOMAIN t : /\ t[i] = Kw("name", <<name>>)
                      /\ \A j \in (i + 1)..Len(t) : t[j].kind \in {"blank", "kw"}

(* Whatever the calls made of a note, each anchor that list_anchors has for *)
(* a node is one get_node_section knows, not just text it comes upon, but  *)
(* for a #+name: with nothing below it; and get_outline nests the headlines *)
(* as orgize does, by whose tree the edits go.                             *)
ReadToolsAgree ==
  Exists =>
    /\ OutlineTree(text) = [h \in Headlines(text) |-> Parent(text, h)]
    /\ \A id \in DOMAIN known : \A name \in ListAnchors(text, id) :
         LET body  == NodeBody(text, id)
             found == Resolve(body, name)
         IN \/ found.kind \notin {"none", "text_search"}
            \/ found.kind = "text_search" /\ NothingNamed(body, name)

(* The node has the line, as get_node_section takes it. *)
InNode(id, i) ==
  LET h == HeadlineById(text, id)
  IN known[id] = "file" \/ h = 0 \/ i \in h..(SubtreeEnd(text, h) - 1)

(* The link insert_anchor answers leads to the text it was asked for, if    *)
(* that is first met in a paragraph of the node and the name is new.       *)
AnchorLeadsToText ==
  [][\A id \in DOMAIN known, word \in Words, name \in Names :
       /\ SearchText(text, name) = 0 /\ InsertAnchor(id, word, name)
       /\ InParagraph(word) /\ InNode(id, SearchText(text, word))
       => LET found == Resolve(NodeBody(text', id), name) IN
          /\ found.kind = "target"
          /\ SearchText(Lines(NodeBody(text', id), found), word) # 0]_text

(* One line of each keyword; and none below the header. *)
Unrepeated(t) ==
  \A i, j \in DOMAIN t : t[i].kind = "kw" /\ t[j].kind = "kw" /\ t[i].key = t[j].key => i = j
Tidy(t) == Unrepeated(t) /\ \A i \in DOMAIN t : t[i].kind = "kw" => i < BodyStart(t)

Plain(tags)   == Split(tags) = tags
Untagged(t)   == Picked(t, {i \in DOMAIN t : t[i].key \notin {"filetags", "roam_tags"}})

(* After a call of a tag tool the file's tags are the ones it answers, and  *)
(* every other line is as it was: of a note with one line of each keyword  *)
(* and none below its header (Tidy), for the tools write to the first line *)
(* and read them all; and for tags in which no ":" parts two tags (Plain). *)
TagsAsAnswered ==
  [][\A id \in DOMAIN known, tags \in TagLists :
       \A new \in {Added(tags), Remaining(tags), Dedup(tags)} :
         Retag(id, new) /\ Tidy(text) /\ Plain(new) =>
           FileLevelTags(text') = new /\ Untagged(text') = Untagged(text)]_text

Preamble(t) == 1..(FirstHeadline(t) - 1)

Once(t, range, kind, key) ==
  \A i, j \in {k \in range : t[k].kind = kind /\ t[k].key = key} : i = j

(* What the update takes away is there once. *)
TakenOnce(t, p) ==
  /\ p.tags = <<>> => Once(t, Preamble(t), "kw", "filetags")
  /\ p.aliases = <<>> => Once(t, DrawerBounds(t), "prop", "ROAM_ALIASES")
  /\ p.refs = <<>> => Once(t, DrawerBounds(t), "prop", "ROAM_REFS")

(* A keyword that the update sets becomes a line of the body. *)
SetsInBody(t, p) ==
  LET kws          == {i \in Preamble(t) : t[i].kind = "kw"}
      below        == {i \in kws : i >= BodyStart(t)}
      missing(key) == \A i \in kws \ below : t[i].key # key
  IN \/ p.title # NoName /\ missing("title") /\ \E i \in below : t[i].key = "title"
     \/ p.tags \notin {NoName, <<>>} /\ missing("filetags") /\ below # {}

(* "The same call replays cleanly": updating again changes nothing.  Three  *)
(* kinds of update are excepted.  One takes away a line that the note has  *)
(* twice: the replay takes the other.  One has a body that begins like a   *)
(* header.  One has a body, and sets a keyword that lands in the body it   *)
(* replaces and is lost with it: a title that is only there, or tags that  *)
(* the header lacks, where the body has a keyword line.                    *)
UpdateReplays ==
  [][\A id \in DOMAIN known, p \in Params :
       /\ UpdateNode(id, p) /\ TakenOnce(text, p)
       /\ p.body # NoName => BodyStart(p.body) = 1 /\ ~SetsInBody(text, p)
       => ApplyNodeEdits(text', p) = text']_text

(* A valid file node stays valid, though only create and update check; but  *)
(* for a marker outside of paragraphs, which may part drawer and :ID:.     *)
ValidStaysValid ==
  [][Valid(text) /\ FileId(text) # NoName /\ Exists' /\ ~MarkerElsewhere => Valid(text')]_text

(* "For a headline node only that headline's subtree is removed": the lines *)
(* up to the next headline that is no deeper.                              *)
DeletesOnlySubtree ==
  [][\A id \in DOMAIN known :
       known[id] = "headline" /\ DeleteNode(id) =>
         LET h == HeadlineById(text, id)
         IN text' = Cut(text, h, Least({g \in Headlines(text) : g > h /\ text[g].level <= text[h].level},
                                       Len(text) + 1))]_text
=============================================================================
