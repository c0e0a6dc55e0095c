------------------------------- MODULE Outline ------------------------------
(***************************************************************************)
(* The structure of a note: what orgize makes of its lines, and the        *)
(* subtrees, drawers and ids the server reads off it                       *)
(* (src/src/org/parse.rs).                                                 *)
(*                                                                         *)
(* A text is a sequence of lines and every line ends with a newline, so a  *)
(* position is the index of a line and the end of the text Len(t) + 1.     *)
(* A line has a kind, a level if it is a headline, a key (a title, a       *)
(* property, a keyword, the name of a mark) and a list of words.           *)
(*                                                                         *)
(* Left out: blocks, tables, TODO states, whitespace and case of keys; the *)
(* text of several lines in one.  orgize is external: its tree is modelled *)
(* by how the code uses it.                                                *)
(***************************************************************************)
EXTENDS Naturals, SequencesExt

CONSTANTS
  NoName,      \* no id, no headline, nothing passed
  Vocabulary   \* the words texts are made of

Marks == {"target", "radio", "coderef", "fn"}   \* <<x>>, <<<x>>>, (ref:x), [fn:x]
Kinds == {"head", "open", "prop", "end", "kw", "plan", "blank", "text"} \cup Marks
Line  == [kind: Kinds, level: Nat, key: Vocabulary, val: Seq(Vocabulary)]

Of(kind, key, val)     == [kind |-> kind, level |-> 0, key |-> key, val |-> val]
Headline(level, title) == [Of("head", title, <<>>) EXCEPT !.level = level]
Open           == Of("open", "", <<>>)          \* :PROPERTIES:
Prop(key, val) == Of("prop", key, val)
End            == Of("end", "", <<>>)           \* :END:
Kw(key, val)   == Of("kw", key, val)            \* #+key: val
Plan           == Of("plan", "", <<>>)          \* SCHEDULED:, DEADLINE:, CLOSED:
Blank          == Of("blank", "", <<>>)
Text(words)    == Of("text", "", words)

Least(S, none) == IF S = {} THEN none ELSE Min(S)

(* What a sequence has at some of its places, in order. *)
Picked(s, at) ==
  [k \in 1..Cardinality(at) |-> s[CHOOSE i \in at : Cardinality({j \in at : j <= i}) = k]]

-----------------------------------------------------------------------------
(* Headlines and subtrees                                                  *)

Headlines(t)     == {i \in DOMAIN t : t[i].kind = "head"}
NextHeadline(t, i) == Least({h \in Headlines(t) : h > i}, Len(t) + 1)
FirstHeadline(t) == NextHeadline(t, 0)

(* The parent node in orgize's tree; 0 is the document. *)
Parent(t, h) ==
  Max({0} \cup {g \in Headlines(t) : g < h /\ t[g].level < t[h].level})

(* Faulty variant: the next headline, nested or not, ends a subtree. *)
SectionEnd(t, h) == NextHeadline(t, h)

(* The next child of the same parent ends a subtree; without one nothing   *)
(* does.                                                                   *)
SubtreeEnd(t, h) ==
  Least({g \in Headlines(t) : g > h /\ Parent(t, g) = Parent(t, h)}, Len(t) + 1)

-----------------------------------------------------------------------------
(* Property drawers                                                        *)

(* Just past the property drawer that opens at a line, if one does. *)
PastDrawer(t, at) ==
  LET ends == {e \in at..Len(t) : /\ t[e].kind = "end"
                                  /\ \A i \in (at + 1)..(e - 1) : t[i].kind = "prop"}
  IN IF at \in DOMAIN t /\ t[at].kind = "open" THEN Least(ends, at - 1) + 1 ELSE at

(* Where the drawer of a headline has to be, of the document for 0. *)
DrawerOf(t, h) ==
  IF h = 0 THEN Least({i \in DOMAIN t : t[i].kind # "blank"}, Len(t) + 1)
  ELSE IF h < Len(t) /\ t[h + 1].kind = "plan" THEN h + 2 ELSE h + 1

PropertyWords(t, h, key) ==
  LET at    == DrawerOf(t, h)
      lines == {i \in at..(PastDrawer(t, at) - 1) : t[i].kind = "prop" /\ t[i].key = key}
  IN IF lines = {} THEN <<>> ELSE t[Min(lines)].val

Property(t, h, key) ==
  LET words == PropertyWords(t, h, key) IN IF words = <<>> THEN NoName ELSE words[1]

(* What orgize takes for the text of a headline, or of the document, before *)
(* the next headline.                                                      *)
Section(t, h) == PastDrawer(t, DrawerOf(t, h))..(NextHeadline(t, h) - 1)

-----------------------------------------------------------------------------
(* Nodes                                                                   *)

IdOf(t, h) == Property(t, h, "ID")
FileId(t)  == IdOf(t, 0)

(* The first headline with a property, or with a title; 0 if there is none. *)
HeadlineWith(t, key, val) == Least({h \in Headlines(t) : Property(t, h, key) = val}, 0)
HeadlineById(t, id)       == HeadlineWith(t, "ID", id)
HeadlineTitled(t, title)  == Least({h \in Headlines(t) : t[h].key = title}, 0)

IdsIn(t) == {IdOf(t, h) : h \in Headlines(t) \cup {0}} \ {NoName}

(* A node as the index has it: that of the file, or of a headline. *)
NodesOf(t) == [id \in IdsIn(t) |-> IF HeadlineById(t, id) = 0 THEN "file" ELSE "headline"]
=============================================================================
