------------------------------- MODULE Anchors ------------------------------
(***************************************************************************)
(* Anchors: the part of a text that a name stands for                      *)
(* (src/src/org/anchors.rs).  Each strategy gives the lines from begin up  *)
(* to end, exclusive, or begin 0 if it finds nothing; the first one that   *)
(* finds something is taken.                                               *)
(*                                                                         *)
(* Left out: prefixes of the anchor, case, and matches inside words.       *)
(***************************************************************************)
EXTENDS Outline

Found(kind, begin, end) == [kind |-> kind, begin |-> begin, end |-> end]

(* A line at which paragraphs end; deeper headlines are none. *)
Breaks(l) == l.kind \in {"blank", "kw"} \/ (l.kind = "head" /\ l.level = 1)

ParagraphEnd(t, i) == Least({j \in DOMAIN t : j > i /\ Breaks(t[j])}, Len(t) + 1)

ByHeadline(t, kind, h) == Found(kind, h, IF h = 0 THEN 0 ELSE SubtreeEnd(t, h))

ByCustomId(t, name)      == ByHeadline(t, "custom_id", HeadlineWith(t, "CUSTOM_ID", name))
ByHeadlineTitle(t, name) == ByHeadline(t, "headline", HeadlineTitled(t, name))

(* #+name: and what follows it and further keywords; none if nothing does. *)
ByName(t, name) ==
  LET begin == SelectInSeq(t, LAMBDA l : l.kind = "kw" /\ l.key = "name" /\ l.val = <<name>>)
      body  == Least({i \in DOMAIN t : i > begin /\ t[i].kind \notin {"blank", "kw"}}, 0)
  IN IF begin = 0 \/ body = 0 THEN Found("name", 0, 0)
     ELSE Found("name", begin, IF Breaks(t[body]) THEN body ELSE ParagraphEnd(t, body))

(* Marks and the rest of their paragraph; of a reference in code its line. *)
ByMark(t, mark, name) ==
  LET i == SelectInSeq(t, LAMBDA l : l.kind = mark /\ l.key = name)
  IN Found(mark, i, IF i = 0 THEN 0 ELSE IF mark = "coderef" THEN i + 1 ELSE ParagraphEnd(t, i))

(* The text itself, wherever it is. *)
ByTextSearch(t, name) ==
  LET i == SelectInSeq(t, LAMBDA l : name = l.key \/ Contains(l.val, name))
  IN Found("text_search", i, IF i = 0 THEN 0 ELSE ParagraphEnd(t, i))

Resolve(t, name) ==
  LET tried == <<ByCustomId(t, name), ByHeadlineTitle(t, name), ByName(t, name),
                 ByMark(t, "target", name), ByMark(t, "radio", name),
                 ByMark(t, "coderef", name), ByMark(t, "fn", name), ByTextSearch(t, name)>>
      hits  == {k \in DOMAIN tried : tried[k].begin # 0}
  IN IF hits = {} THEN Found("none", 0, 0) ELSE tried[Min(hits)]
=============================================================================
