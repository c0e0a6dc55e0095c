------------------------------- MODULE OrgEdit ------------------------------
(***************************************************************************)
(* The edits of a note's text the write tools are made of                  *)
(* (src/src/org/edit.rs), and the reading and writing of file tags         *)
(* (src/src/org/filetags.rs).                                              *)
(*                                                                         *)
(* These work on lines, without orgize: the preamble is what precedes the  *)
(* first headline, and the top drawer the first one opened there.          *)
(***************************************************************************)
EXTENDS Outline

CONSTANT Segments   \* what ":" splits each tag into

Splice(t, at, lines)   == SubSeq(t, 1, at - 1) \o lines \o SubSeq(t, at, Len(t))
Cut(t, begin, end)     == SubSeq(t, 1, begin - 1) \o SubSeq(t, end, Len(t))
TrimEnd(t) == SubSeq(t, 1, Max({0} \cup {i \in DOMAIN t : t[i].kind # "blank"}))

-----------------------------------------------------------------------------
(* Keywords and properties; an empty list removes the line                 *)

(* The lines of the top drawer but the first, in the preamble. *)
DrawerBounds(t) ==
  LET pe   == FirstHeadline(t)
      open == Least({i \in 1..(pe - 1) : t[i].kind = "open"}, pe)
      end  == Least({i \in (open + 1)..(pe - 1) : t[i].kind = "end"}, pe)
  IN IF end = pe THEN {} ELSE (open + 1)..end

(* Faulty variant: new keywords go to the top of the file. *)
KeywordAtTop(t, key) == 1

(* A title goes below the drawer, another keyword below the last keyword.  *)
KeywordInsertion(t, key) ==
  LET base == Max({0} \cup DrawerBounds(t)) + 1
      kws  == {i \in base..(FirstHeadline(t) - 1) : t[i].kind = "kw"}
  IN IF key = "title" \/ kws = {} THEN base ELSE Max(kws) + 1

(* Faulty variant: an empty list leaves an empty keyword. *)
SetKeywordOnly(t, key, val) ==
  LET at == Least({i \in 1..(FirstHeadline(t) - 1) : t[i].kind = "kw" /\ t[i].key = key}, 0)
  IN IF at # 0 THEN ReplaceAt(t, at, Kw(key, val))
     ELSE InsertAt(t, KeywordInsertion(t, key), Kw(key, val))

SetKeyword(t, key, val) ==
  LET at == Least({i \in 1..(FirstHeadline(t) - 1) : t[i].kind = "kw" /\ t[i].key = key}, 0)
  IN IF at # 0
     THEN IF val = <<>> THEN RemoveAt(t, at) ELSE ReplaceAt(t, at, Kw(key, val))
     ELSE IF val = <<>> THEN t
          ELSE InsertAt(t, KeywordInsertion(t, key), Kw(key, val))

SetDrawerProperty(t, key, val) ==
  LET drawer == DrawerBounds(t)
      at     == Least({i \in drawer : t[i].kind = "prop" /\ t[i].key = key}, 0)
  IN CASE drawer = {} /\ val = <<>> -> t
       [] drawer = {} /\ val # <<>> -> <<Open, Prop(key, val), End>> \o t
       [] at # 0 /\ val = <<>>      -> RemoveAt(t, at)
       [] at # 0 /\ val # <<>>      -> ReplaceAt(t, at, Prop(key, val))
       [] OTHER -> IF val = <<>> THEN t ELSE InsertAt(t, Max(drawer), Prop(key, val))

-----------------------------------------------------------------------------
(* Bodies                                                                  *)

(* A line in a drawer that opens from a line on; one without :END: has no  *)
(* end.                                                                    *)
InDrawer(t, from, i) ==
  \E o \in from..i : t[o].kind = "open" /\ \A j \in (o + 1)..(i - 1) : t[j].kind # "end"

(* Past what passes for a header: drawers, keywords and the blanks around. *)
BodyStart(t) ==
  LET pe == FirstHeadline(t)
  IN Least({i \in 1..(pe - 1) : t[i].kind \notin {"blank", "kw"} /\ ~InDrawer(t, 1, i)}, pe)

(* Faulty variant: the blanks that end the header stay and add up. *)
ReplaceBodyOnly(t, body) ==
  SubSeq(t, 1, BodyStart(t) - 1) \o (IF body = <<>> THEN <<>> ELSE <<Blank>> \o TrimEnd(body))

(* Everything below the header is replaced, headlines included. *)
ReplaceFileBody(t, body) ==
  LET header == TrimEnd(SubSeq(t, 1, BodyStart(t) - 1))
      new    == TrimEnd(body)
  IN IF new = <<>> \/ header = <<>> THEN header \o new ELSE header \o <<Blank>> \o new

(* Faulty variant: the body begins below the title. *)
LineAfter(t, h) == h + 1

(* Past planning lines and drawers. *)
HeadlineBody(t, h) ==
  Least({i \in (h + 1)..Len(t) : t[i].kind # "plan" /\ ~InDrawer(t, h + 1, i)}, Len(t) + 1)

-----------------------------------------------------------------------------
(* File tags                                                               *)

Dedup(s) == Picked(s, {i \in DOMAIN s : \A j \in 1..(i - 1) : s[j] # s[i]})

(* The values of a keyword, wherever in the file it is. *)
KeywordValues(t, key) ==
  LET lines == Picked(t, {i \in DOMAIN t : t[i].kind = "kw" /\ t[i].key = key})
  IN [k \in DOMAIN lines |-> lines[k].val]

Split(tags) == FlattenSeq([i \in DOMAIN tags |-> Segments[tags[i]]])

(* #+filetags: is split at ":", a list of #+roam_tags: is not. *)
FileLevelTags(t) ==
  Dedup(Split(FlattenSeq(KeywordValues(t, "filetags"))) \o FlattenSeq(KeywordValues(t, "roam_tags")))

(* Faulty variant: the v1 keyword stays. *)
ApplyFiletagsOnly(t, tags) == SetKeyword(t, "filetags", tags)

ApplyFileTags(t, tags) == SetKeyword(SetKeyword(t, "filetags", tags), "roam_tags", <<>>)
=============================================================================
