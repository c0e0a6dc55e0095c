---------------------------- MODULE NoteTextProofs --------------------------
(***************************************************************************)
(* Theorems about NoteText, for every note and every number of calls.      *)
(***************************************************************************)
EXTENDS NoteText, OrderLemmas

-----------------------------------------------------------------------------
(* Numbers and lists                                                       *)

(* The least of some numbers, or what is taken if there are none.          *)
LEMMA LeastOf ==
  ASSUME NEW S, S \subseteq Nat, NEW none
  PROVE  \/ S = {} /\ Least(S, none) = none
         \/ S # {} /\ Least(S, none) \in S /\ \A x \in S : Least(S, none) <= x
<1>1. CASE S = {}
  BY <1>1 DEF Least
<1>2. CASE S # {}
  <2>1. Min(S) \in S /\ \A x \in S : Min(S) <= x
    BY <1>2, MinIsLeast
  <2> QED BY <1>2, <2>1 DEF Least
<1> QED BY <1>1, <1>2

(* If they all come before a place, that place at the latest.              *)
LEMMA LeastBefore ==
  ASSUME NEW a \in Nat, NEW n \in Nat, NEW S, S \subseteq a..(n - 1), a <= n
  PROVE  Least(S, n) \in a..n
<1>1. PICK l : l = Least(S, n)
  OBVIOUS
<1>2. S \subseteq Nat
  OBVIOUS
<1>3. PICK none : none = n
  OBVIOUS
<1>4. Least(S, none) = none \/ Least(S, none) \in S
  BY <1>2, LeastOf
<1>5. l = none \/ l \in S
  BY <1>1, <1>3, <1>4
<1>6. ASSUME l \in S PROVE l \in a..n
  <2>1. l \in a..(n - 1)
    BY <1>6
  <2> QED BY <2>1
<1>7. n \in a..n
  OBVIOUS
<1> QED BY <1>1, <1>3, <1>5, <1>6, <1>7

(* The greatest of some places, or 0.                                      *)
LEMMA GreatestOf ==
  ASSUME NEW n \in Nat, NEW S, S \subseteq 1..n
  PROVE  /\ Max({0} \cup S) \in {0} \cup S /\ Max({0} \cup S) \in 0..n
         /\ \A x \in S : x <= Max({0} \cup S)
<1>1. {0} \cup S \subseteq 0..n /\ {0} \cup S # {}
  OBVIOUS
<1>2. PICK s : s = {0} \cup S
  OBVIOUS
<1>3. Max(s) \in s /\ \A x \in s : x <= Max(s)
  BY <1>1, <1>2, GreatestExists
<1> QED BY <1>1, <1>2, <1>3

(* What is picked is there, and in order.                                  *)
LEMMA PickedIs ==
  ASSUME NEW S, NEW s \in Seq(S), NEW at, at \subseteq DOMAIN s
  PROVE  /\ Cardinality(at) \in Nat
         /\ \E f : Ascends(f, at) /\ Picked(s, at) = [k \in 1..Cardinality(at) |-> s[f[k]]]
<1>1. at \subseteq 1..Len(s) /\ Len(s) \in Nat
  OBVIOUS
<1>2. PICK f : f = [k \in 1..Cardinality(at) |-> CHOOSE i \in at : Cardinality({j \in at : j <= i}) = k]
  OBVIOUS
<1>3. Cardinality(at) \in Nat /\ Ascends(f, at)
  BY <1>1, <1>2, TakenInOrder
<1>4. Picked(s, at) = [k \in 1..Cardinality(at) |-> s[f[k]]]
  BY <1>2 DEF Picked
<1> QED BY <1>3, <1>4

(* What is picked from a list is a list of the same kind.                  *)
LEMMA PickedTyped ==
  ASSUME NEW S, NEW s \in Seq(S), NEW at, at \subseteq DOMAIN s
  PROVE  Picked(s, at) \in Seq(S) /\ Len(Picked(s, at)) = Cardinality(at)
<1>1. PICK f : Ascends(f, at) /\ Picked(s, at) = [k \in 1..Cardinality(at) |-> s[f[k]]]
  BY PickedIs
<1>2. PICK n \in Nat : n = Cardinality(at)
  BY PickedIs
<1>3. \A k \in 1..n : s[f[k]] \in S
  BY <1>1, <1>2 DEF Ascends
<1>4. PICK p : p = Picked(s, at) /\ p = [k \in 1..n |-> s[f[k]]]
  BY <1>1, <1>2
<1>5. p \in [1..n -> S]
  BY <1>3, <1>4
<1>6. p \in Seq(S) /\ Len(p) = n
  BY <1>5
<1> QED BY <1>2, <1>4, <1>6

(* So is what is left of a list without what is in it twice.               *)
LEMMA DedupTyped ==
  ASSUME NEW S, NEW s \in Seq(S) PROVE Dedup(s) \in Seq(S)
BY PickedTyped DEF Dedup

-----------------------------------------------------------------------------
(* Lines                                                                   *)

(* What Of makes a line.                                                   *)
LEMMA OfIs ==
  ASSUME NEW kind \in Kinds, NEW key \in Vocabulary, NEW val \in Seq(Vocabulary)
  PROVE  /\ Of(kind, key, val) \in Line
         /\ Of(kind, key, val).kind = kind /\ Of(kind, key, val).level = 0
         /\ Of(kind, key, val).key = key /\ Of(kind, key, val).val = val
BY DEF Of, Line

(* Which of them are lines of a note.                                      *)
LEMMA OfTyped ==
  ASSUME NEW kind \in Kinds \ {"head"}, NEW key \in Vocabulary, NEW val \in Seq(Vocabulary),
         kind \in {"kw", "prop"} => val # <<>>,
         kind = "kw" => key \notin {"name", "filetags", "roam_tags"}
  PROVE  Of(kind, key, val) \in NoteLine
<1>1. PICK l \in Line : /\ l = Of(kind, key, val) /\ l.kind = kind /\ l.level = 0
                        /\ l.key = key /\ l.val = val
  BY OfIs
<1>2. l.kind # "head" /\ ~ l.level > 0
  BY <1>1
<1>3. l.kind \in {"kw", "prop"} => l.val # <<>>
  BY <1>1
<1>4. ~(l.kind = "kw" /\ l.key = "name") /\ ~(l.kind = "kw" /\ l.key \in {"filetags", "roam_tags"})
  BY <1>1
<1> QED BY <1>1, <1>2, <1>3, <1>4 DEF NoteLine

(* The lines the tools make.                                               *)
LEMMA LinesTyped ==
  /\ Open \in NoteLine /\ End \in NoteLine /\ Blank \in NoteLine
  /\ \A key \in Vocabulary, val \in Seq(Vocabulary) : val # <<>> => Prop(key, val) \in NoteLine
  /\ \A words \in Seq(Vocabulary) : Text(words) \in NoteLine
  /\ \A name \in Vocabulary : Of("target", name, <<>>) \in NoteLine
  /\ \A word \in Vocabulary : Kw("title", <<word>>) \in NoteLine
<1>1. <<>> \in Seq(Vocabulary)
  BY EmptySeq
<1>2. "" \in Vocabulary /\ "title" \in Vocabulary /\ "title" \notin {"name", "filetags", "roam_tags"}
  BY NoteTextAssumption DEF Literals
<1>3. /\ {"open", "end", "blank", "text", "target"} \subseteq Kinds \ {"head"}
      /\ \A kind \in {"open", "end", "blank", "text", "target"} : kind \notin {"kw", "prop"} /\ kind # "kw"
  BY DEF Kinds, Marks
<1>4. Open \in NoteLine /\ End \in NoteLine /\ Blank \in NoteLine
  BY <1>1, <1>2, <1>3, OfTyped DEF Open, End, Blank
<1>5. ASSUME NEW key \in Vocabulary, NEW val \in Seq(Vocabulary), val # <<>> PROVE Prop(key, val) \in NoteLine
  <2>1. "prop" \in Kinds \ {"head"} /\ "prop" # "kw"
    BY DEF Kinds
  <2> QED BY <1>5, <2>1, OfTyped DEF Prop
<1>6. ASSUME NEW words \in Seq(Vocabulary) PROVE Text(words) \in NoteLine
  BY <1>2, <1>3, OfTyped DEF Text
<1>7. ASSUME NEW name \in Vocabulary PROVE Of("target", name, <<>>) \in NoteLine
  BY <1>1, <1>3, OfTyped
<1>8. ASSUME NEW word \in Vocabulary PROVE Kw("title", <<word>>) \in NoteLine
  <2>1. <<word>> \in Seq(Vocabulary) /\ <<word>> # <<>>
    OBVIOUS
  <2>2. "kw" \in Kinds \ {"head"}
    BY DEF Kinds
  <2> QED BY <1>2, <2>1, <2>2, OfTyped DEF Kw
<1> QED BY <1>4, <1>5, <1>6, <1>7, <1>8

(* A keyword for tags.                                                     *)
LEMMA TagKeywordTyped ==
  ASSUME NEW tags \in Seq(Tags), tags # <<>>, NEW key \in {"filetags", "roam_tags"}
  PROVE  Kw(key, tags) \in NoteLine
<1>1. tags \in Seq(Vocabulary)
  <2>1. Tags \subseteq Vocabulary
    BY NoteTextAssumption
  <2> QED BY <2>1, SeqMonotonic
<1>2. "kw" \in Kinds /\ key \in Vocabulary
  BY NoteTextAssumption DEF Kinds, Literals
<1>3. PICK l \in Line : /\ l = Of("kw", key, tags) /\ l.kind = "kw" /\ l.level = 0
                        /\ l.key = key /\ l.val = tags
  BY <1>1, <1>2, OfIs
<1>4. l.kind # "head" /\ ~ l.level > 0 /\ l.val # <<>> /\ l.key # "name" /\ l.val \in Seq(Tags)
  BY <1>3
<1> QED BY <1>3, <1>4 DEF Kw, NoteLine

-----------------------------------------------------------------------------
(* Edits give texts                                                        *)

Texts == Seq(NoteLine)

(* The end of a text, if a place is past none of its lines.                *)
LEMMA SpliceTyped ==
  ASSUME NEW t \in Texts, NEW lines \in Texts, NEW at \in 1..(Len(t) + 1)
  PROVE  Splice(t, at, lines) \in Texts
<1>1. SubSeq(t, 1, at - 1) \in Texts /\ SubSeq(t, at, Len(t)) \in Texts
  BY PartsTyped DEF Texts
<1>2. PICK a, b : a = SubSeq(t, 1, at - 1) /\ b = SubSeq(t, at, Len(t)) /\ a \in Texts /\ b \in Texts
  BY <1>1
<1>3. a \o lines \in Texts
  BY <1>2, ConcatProperties DEF Texts
<1>4. (a \o lines) \o b \in Texts
  BY <1>2, <1>3, ConcatProperties DEF Texts
<1> QED BY <1>2, <1>4 DEF Splice

(* Cutting lines out.                                                      *)
LEMMA CutTyped ==
  ASSUME NEW t \in Texts, NEW begin \in 1..(Len(t) + 1), NEW end \in 1..(Len(t) + 1)
  PROVE  Cut(t, begin, end) \in Texts
<1>1. SubSeq(t, 1, begin - 1) \in Texts /\ SubSeq(t, end, Len(t)) \in Texts
  BY PartsTyped DEF Texts
<1> QED BY <1>1, ConcatProperties DEF Cut, Texts

(* One line in, changed or out.                                            *)
LEMMA LineEditsTyped ==
  ASSUME NEW t \in Texts
  PROVE  /\ \A l \in NoteLine, at \in 1..(Len(t) + 1) : InsertAt(t, at, l) \in Texts
         /\ \A l \in NoteLine, at \in DOMAIN t : ReplaceAt(t, at, l) \in Texts
         /\ \A at \in DOMAIN t : RemoveAt(t, at) \in Texts
<1>1. ASSUME NEW l \in NoteLine, NEW at \in 1..(Len(t) + 1) PROVE InsertAt(t, at, l) \in Texts
  <2>1. <<l>> \in Texts
    BY DEF Texts
  <2>2. InsertAt(t, at, l) = Splice(t, at, <<l>>)
    BY DEF InsertAt, Splice
  <2> QED BY <2>1, <2>2, SpliceTyped
<1>2. ASSUME NEW l \in NoteLine, NEW at \in DOMAIN t PROVE ReplaceAt(t, at, l) \in Texts
  BY DEF ReplaceAt, Texts
<1>3. ASSUME NEW at \in DOMAIN t PROVE RemoveAt(t, at) \in Texts
  <2>1. at \in 1..(Len(t) + 1) /\ at + 1 \in 1..(Len(t) + 1)
    BY DEF Texts
  <2>2. RemoveAt(t, at) = Cut(t, at, at + 1)
    BY DEF RemoveAt, Cut
  <2> QED BY <2>1, <2>2, CutTyped
<1> QED BY <1>1, <1>2, <1>3

(* Trimming leaves the lines in front of the blanks at the end.            *)
LEMMA TrimTyped ==
  ASSUME NEW t \in Texts
  PROVE  TrimEnd(t) \in Texts
<1>1. PICK n \in Nat : n = Len(t) /\ DOMAIN t = 1..n
  BY DEF Texts
<1>2. PICK m \in 0..n : m = Max({0} \cup {i \in DOMAIN t : t[i].kind # "blank"})
  <2>1. {i \in DOMAIN t : t[i].kind # "blank"} \subseteq 1..n
    BY <1>1
  <2> QED BY <2>1, GreatestOf
<1>3. m + 1 \in 1..(Len(t) + 1) /\ (m + 1) - 1 = m
  BY <1>1, <1>2
<1>4. SubSeq(t, 1, (m + 1) - 1) \in Texts
  BY <1>3, PartsTyped DEF Texts
<1> QED BY <1>2, <1>3, <1>4 DEF TrimEnd

-----------------------------------------------------------------------------
(* Places are in the text                                                  *)

(* Where a headline ends and the next begins, for every headline.          *)
LEMMA PlacesIn ==
  ASSUME NEW t \in Texts
  PROVE  /\ Len(t) \in Nat /\ DOMAIN t = 1..Len(t) /\ Headlines(t) \subseteq 1..Len(t)
         /\ \A h : SubtreeEnd(t, h) \in 1..(Len(t) + 1)
         /\ \A h : NextHeadline(t, h) \in 1..(Len(t) + 1)
         /\ FirstHeadline(t) \in 1..(Len(t) + 1)
<1>1. PICK n \in Nat : n = Len(t) /\ DOMAIN t = 1..n
  BY DEF Texts
<1>2. Headlines(t) \subseteq 1..n
  BY <1>1 DEF Headlines
<1>3. ASSUME NEW S, S \subseteq 1..n PROVE Least(S, n + 1) \in 1..(n + 1)
  <2>1. PICK m \in Nat : m = n + 1 /\ 1 <= m /\ m - 1 = n
    OBVIOUS
  <2>2. 1 \in Nat /\ S \subseteq 1..(m - 1)
    BY <1>3, <2>1
  <2>3. Least(S, m) \in 1..m
    BY <2>1, <2>2, LeastBefore
  <2> QED BY <2>1, <2>3
<1>4. \A h : SubtreeEnd(t, h) \in 1..(Len(t) + 1)
  BY <1>1, <1>2, <1>3 DEF SubtreeEnd
<1>5. \A h : NextHeadline(t, h) \in 1..(Len(t) + 1)
  BY <1>1, <1>2, <1>3 DEF NextHeadline
<1> QED BY <1>1, <1>2, <1>4, <1>5 DEF FirstHeadline

(* Where the header ends, and the header of a headline.                    *)
LEMMA BodiesIn ==
  ASSUME NEW t \in Texts
  PROVE  /\ BodyStart(t) \in 1..FirstHeadline(t) /\ BodyStart(t) \in 1..(Len(t) + 1)
         /\ \A h \in Headlines(t) : HeadlineBody(t, h) \in 1..(Len(t) + 1)
<1>0. PICK n \in Nat : n = Len(t) /\ DOMAIN t = 1..n
  BY PlacesIn
<1>1. PICK pe \in 1..(n + 1) : n = Len(t) /\ DOMAIN t = 1..n /\ pe = FirstHeadline(t)
  BY <1>0, PlacesIn
<1>2. BodyStart(t) \in 1..pe
  <2> DEFINE S == {i \in 1..(pe - 1) : t[i].kind \notin {"blank", "kw"} /\ ~InDrawer(t, 1, i)}
  <2>1. S \subseteq Nat /\ S \subseteq 1..(pe - 1) /\ BodyStart(t) = Least(S, pe)
    BY <1>1 DEF BodyStart
  <2> HIDE DEF S
  <2>2. 1 \in Nat /\ pe \in Nat /\ 1 <= pe
    OBVIOUS
  <2>3. Least(S, pe) \in 1..pe
    BY <2>1, <2>2, LeastBefore
  <2> QED BY <2>1, <2>3
<1>3. ASSUME NEW h \in Headlines(t) PROVE HeadlineBody(t, h) \in 1..(n + 1)
  <2> DEFINE S == {i \in (h + 1)..n : t[i].kind # "plan" /\ ~InDrawer(t, h + 1, i)}
  <2>1. h \in 1..n
    BY <1>1, PlacesIn
  <2>2. S \subseteq Nat /\ S \subseteq 1..n /\ HeadlineBody(t, h) = Least(S, n + 1)
    BY <1>1, <2>1 DEF HeadlineBody
  <2> HIDE DEF S
  <2>3. PICK m \in Nat : m = n + 1 /\ 1 <= m /\ m - 1 = n
    OBVIOUS
  <2>4. 1 \in Nat /\ S \subseteq 1..(m - 1)
    BY <2>2, <2>3
  <2>5. Least(S, m) \in 1..m
    BY <2>3, <2>4, LeastBefore
  <2> QED BY <2>2, <2>3, <2>5
<1> QED BY <1>1, <1>2, <1>3

(* The lines of the top drawer, and where a keyword goes.                  *)
LEMMA HeaderIn ==
  ASSUME NEW t \in Texts
  PROVE  /\ DrawerBounds(t) \subseteq 2..(FirstHeadline(t) - 1)
         /\ DrawerBounds(t) # {} =>
              /\ Max(DrawerBounds(t)) \in DrawerBounds(t)
              /\ \A i \in DrawerBounds(t) : i <= Max(DrawerBounds(t))
         /\ \A key : KeywordInsertion(t, key) \in 1..FirstHeadline(t)
<1>0. PICK n \in Nat : n = Len(t) /\ DOMAIN t = 1..n
  BY PlacesIn
<1>1. PICK pe \in 1..(n + 1) : n = Len(t) /\ DOMAIN t = 1..n /\ pe = FirstHeadline(t)
  BY <1>0, PlacesIn
<1>2. DrawerBounds(t) \subseteq 2..(pe - 1)
  <2>1. PICK open : open = Least({i \in 1..(pe - 1) : t[i].kind = "open"}, pe)
    OBVIOUS
  <2>2. open \in 1..pe
    <3>1. {i \in 1..(pe - 1) : t[i].kind = "open"} \subseteq Nat
      OBVIOUS
    <3> QED BY <2>1, <3>1, LeastOf
  <2>3. PICK end : end = Least({i \in (open + 1)..(pe - 1) : t[i].kind = "end"}, pe)
    OBVIOUS
  <2>4. end \in 1..pe
    <3> DEFINE S == {i \in (open + 1)..(pe - 1) : t[i].kind = "end"}
    <3>1. S \subseteq Nat /\ S \subseteq 1..(pe - 1) /\ end = Least(S, pe)
      BY <2>2, <2>3
    <3> HIDE DEF S
    <3>2. 1 \in Nat /\ pe \in Nat /\ 1 <= pe
      OBVIOUS
    <3>3. Least(S, pe) \in 1..pe
      BY <3>1, <3>2, LeastBefore
    <3> QED BY <3>1, <3>3
  <2>5. DrawerBounds(t) = IF end = pe THEN {} ELSE (open + 1)..end
    BY <1>1, <2>1, <2>3 DEF DrawerBounds
  <2>6. end # pe => (open + 1)..end \subseteq 2..(pe - 1)
    BY <2>2, <2>4
  <2> QED BY <2>5, <2>6
<1>3. PICK S \in SUBSET (1..n) : S = DrawerBounds(t) /\ S \subseteq 1..(pe - 1)
  BY <1>1, <1>2
<1>4. S # {} => Max(S) \in S /\ \A i \in S : i <= Max(S)
  <2>1. S \subseteq 0..n
    OBVIOUS
  <2> QED BY <2>1, GreatestExists
<1>5. ASSUME NEW key PROVE KeywordInsertion(t, key) \in 1..pe
  <2>1. PICK m \in 0..(pe - 1) : m = Max({0} \cup S)
    <3>1. Max({0} \cup S) \in {0} \cup S
      BY GreatestOf
    <3> QED BY <1>3, <3>1
  <2> DEFINE kws == {i \in (m + 1)..(pe - 1) : t[i].kind = "kw"}
  <2>2. KeywordInsertion(t, key) = IF key = "title" \/ kws = {} THEN m + 1 ELSE Max(kws) + 1
    BY <1>1, <1>3, <2>1 DEF KeywordInsertion
  <2>3. kws # {} => Max(kws) \in kws
    <3>1. kws \subseteq 0..n
      BY <2>1
    <3> HIDE DEF kws
    <3> QED BY <3>1, GreatestExists
  <2>4. kws # {} => Max(kws) \in (m + 1)..(pe - 1)
    BY <2>3
  <2> HIDE DEF kws
  <2> QED BY <2>1, <2>2, <2>4
<1> QED BY <1>1, <1>2, <1>3, <1>4, <1>5

(* The first line with a word.                                             *)
LEMMA SearchIn ==
  ASSUME NEW t \in Texts, NEW word PROVE SearchText(t, word) \in 0..Len(t)
<1>1. PICK n \in Nat : n = Len(t) /\ DOMAIN t = 1..n
  BY PlacesIn
<1> DEFINE S == {i \in 1..Len(t) : word = t[i].key \/ Contains(t[i].val, word)}
<1>2. SearchText(t, word) = IF S # {} THEN Min(S) ELSE 0
  BY DEF SearchText, ByTextSearch, Found, SelectInSeq
<1>3. S \subseteq Nat /\ S \subseteq 1..n
  BY <1>1
<1> HIDE DEF S
<1>4. S # {} => Min(S) \in 1..n
  BY <1>3, MinIsLeast
<1>5. PICK p : p = SearchText(t, word)
  OBVIOUS
<1>6. p \in 0..n
  BY <1>2, <1>4, <1>5
<1> QED BY <1>1, <1>5, <1>6

-----------------------------------------------------------------------------
(* The type of the state                                                   *)

(* The edits of the header give texts, an empty list none.                 *)
LEMMA SetKeywordTyped ==
  ASSUME NEW t \in Texts, NEW key, NEW val, val # <<>> => Kw(key, val) \in NoteLine
  PROVE  SetKeyword(t, key, val) \in Texts
<1>1. PICK n \in Nat : n = Len(t) /\ DOMAIN t = 1..n
  BY PlacesIn
<1>2. PICK pe \in 1..(n + 1) : pe = FirstHeadline(t)
  BY <1>1, PlacesIn
<1> DEFINE S == {i \in 1..(pe - 1) : t[i].kind = "kw" /\ t[i].key = key}
<1>3. PICK at : at = Least(S, 0)
  OBVIOUS
<1>4. at = 0 \/ at \in DOMAIN t
  <2>1. S \subseteq Nat /\ S \subseteq DOMAIN t
    BY <1>1
  <2> HIDE DEF S
  <2>2. Least(S, 0) = 0 \/ Least(S, 0) \in S
    BY <2>1, LeastOf
  <2> QED BY <1>3, <2>1, <2>2
<1>5. PICK ins \in 1..(Len(t) + 1) : ins = KeywordInsertion(t, key)
  <2>1. KeywordInsertion(t, key) \in 1..pe
    BY <1>2, HeaderIn
  <2> QED BY <1>1, <2>1
<1>6. SetKeyword(t, key, val) = IF at # 0
     THEN IF val = <<>> THEN RemoveAt(t, at) ELSE ReplaceAt(t, at, Kw(key, val))
     ELSE IF val = <<>> THEN t ELSE InsertAt(t, ins, Kw(key, val))
  BY <1>2, <1>3, <1>5 DEF SetKeyword
<1>7. at # 0 => RemoveAt(t, at) \in Texts
  BY <1>4, LineEditsTyped
<1>8. at # 0 /\ val # <<>> => ReplaceAt(t, at, Kw(key, val)) \in Texts
  BY <1>4, LineEditsTyped
<1>9. val # <<>> => InsertAt(t, ins, Kw(key, val)) \in Texts
  BY LineEditsTyped
<1> QED BY <1>6, <1>7, <1>8, <1>9

(* A property of the file.                                                 *)
LEMMA SetDrawerTyped ==
  ASSUME NEW t \in Texts, NEW key \in Vocabulary, NEW val \in Seq(Vocabulary)
  PROVE  SetDrawerProperty(t, key, val) \in Texts
<1>1. PICK n \in Nat : n = Len(t) /\ DOMAIN t = 1..n
  BY PlacesIn
<1>2. PICK drawer \in SUBSET DOMAIN t : drawer = DrawerBounds(t) /\ (drawer # {} => Max(drawer) \in drawer)
  <2>1. PICK pe \in 1..(n + 1) : pe = FirstHeadline(t)
    BY <1>1, PlacesIn
  <2>2. DrawerBounds(t) \subseteq 2..(pe - 1) /\ (DrawerBounds(t) # {} => Max(DrawerBounds(t)) \in DrawerBounds(t))
    BY <2>1, HeaderIn
  <2>3. 2..(pe - 1) \subseteq DOMAIN t
    BY <1>1
  <2> QED BY <2>2, <2>3
<1> DEFINE S == {i \in drawer : t[i].kind = "prop" /\ t[i].key = key}
<1>3. PICK at : at = Least(S, 0)
  OBVIOUS
<1>4. at = 0 \/ at \in DOMAIN t
  <2>1. S \subseteq Nat /\ S \subseteq DOMAIN t
    BY <1>1
  <2> HIDE DEF S
  <2>2. Least(S, 0) = 0 \/ Least(S, 0) \in S
    BY <2>1, LeastOf
  <2> QED BY <1>3, <2>1, <2>2
<1>5. val # <<>> => Prop(key, val) \in NoteLine
  BY LinesTyped
<1>6. PICK line : line = Prop(key, val)
  OBVIOUS
<1>7. ASSUME val # <<>> PROVE <<Open, line, End>> \o t \in Texts
  <2>1. line \in NoteLine /\ Open \in NoteLine /\ End \in NoteLine
    BY <1>5, <1>6, <1>7, LinesTyped
  <2>2. <<Open, line, End>> \in Texts
    BY <2>1 DEF Texts
  <2> QED BY <2>2, ConcatProperties DEF Texts
<1>8. at # 0 => RemoveAt(t, at) \in Texts
  BY <1>4, LineEditsTyped
<1>9. at # 0 /\ val # <<>> => ReplaceAt(t, at, line) \in Texts
  BY <1>4, <1>5, <1>6, LineEditsTyped
<1>10. ASSUME drawer # {}, val # <<>> PROVE InsertAt(t, Max(drawer), line) \in Texts
  <2>1. PICK m : m = Max(drawer)
    OBVIOUS
  <2>2. m \in 1..(Len(t) + 1)
    <3>1. m \in DOMAIN t
      BY <1>2, <1>10, <2>1
    <3> QED BY <1>1, <3>1
  <2>3. InsertAt(t, m, line) \in Texts
    BY <1>5, <1>6, <1>10, <2>2, LineEditsTyped
  <2> QED BY <2>1, <2>3
<1>11. SetDrawerProperty(t, key, val) =
         CASE drawer = {} /\ val = <<>> -> t
           [] drawer = {} /\ val # <<>> -> <<Open, line, End>> \o t
           [] at # 0 /\ val = <<>>      -> RemoveAt(t, at)
           [] at # 0 /\ val # <<>>      -> ReplaceAt(t, at, line)
           [] OTHER -> IF val = <<>> THEN t ELSE InsertAt(t, Max(drawer), line)
  BY <1>2, <1>3, <1>6 DEF SetDrawerProperty
<1>12. at # 0 => drawer # {}
  <2>1. S \subseteq Nat
    BY <1>1
  <2>2. S = {} => Least(S, 0) = 0
    BY DEF Least
  <2>3. drawer = {} => S = {}
    OBVIOUS
  <2> QED BY <1>3, <2>2, <2>3
<1>13. CASE drawer = {}
  BY <1>7, <1>11, <1>12, <1>13
<1>14. CASE drawer # {} /\ at # 0
  BY <1>8, <1>9, <1>11, <1>14
<1>15. CASE drawer # {} /\ at = 0
  BY <1>10, <1>11, <1>15
<1> QED BY <1>13, <1>14, <1>15

(* So does replacing the body of the file.                                 *)
LEMMA ReplaceBodyTyped ==
  ASSUME NEW t \in Texts, NEW body \in Texts
  PROVE  ReplaceFileBody(t, body) \in Texts
<1>1. PICK header \in Texts : header = TrimEnd(SubSeq(t, 1, BodyStart(t) - 1))
  <2>1. BodyStart(t) \in 1..(Len(t) + 1)
    BY BodiesIn
  <2>2. SubSeq(t, 1, BodyStart(t) - 1) \in Texts
    BY <2>1, PartsTyped DEF Texts
  <2> QED BY <2>2, TrimTyped
<1>2. PICK new \in Texts : new = TrimEnd(body)
  BY TrimTyped
<1>3. header \o new \in Texts
  BY ConcatProperties DEF Texts
<1>4. (header \o <<Blank>>) \o new \in Texts
  <2>1. <<Blank>> \in Texts
    BY LinesTyped DEF Texts
  <2>2. header \o <<Blank>> \in Texts
    BY <2>1, ConcatProperties DEF Texts
  <2> QED BY <2>2, ConcatProperties DEF Texts
<1>5. ReplaceFileBody(t, body) = IF new = <<>> \/ header = <<>> THEN header \o new ELSE header \o <<Blank>> \o new
  BY <1>1, <1>2 DEF ReplaceFileBody
<1> QED BY <1>3, <1>4, <1>5

(* The file's tags are tags, those of one keyword and all.                 *)
LEMMA TagsTyped ==
  ASSUME NEW t \in Texts
  PROVE  /\ \A key \in {"filetags", "roam_tags"} : KeywordValues(t, key) \in Seq(Seq(Tags))
         /\ FileLevelTags(t) \in Seq(Tags)
<1>1. ASSUME NEW key \in {"filetags", "roam_tags"} PROVE KeywordValues(t, key) \in Seq(Seq(Tags))
  <2>1. PICK at : at = {i \in DOMAIN t : t[i].kind = "kw" /\ t[i].key = key}
    OBVIOUS
  <2>2. at \subseteq DOMAIN t /\ t \in Seq(NoteLine)
    BY <2>1 DEF Texts
  <2>3. PICK f : Ascends(f, at) /\ Picked(t, at) = [k \in 1..Cardinality(at) |-> t[f[k]]]
    BY <2>2, PickedIs
  <2>4. PICK n \in Nat : n = Cardinality(at)
    BY <2>2, PickedIs
  <2>5. PICK lines : lines = Picked(t, at) /\ DOMAIN lines = 1..n /\ \A k \in 1..n : lines[k] = t[f[k]]
    BY <2>3, <2>4
  <2>6. ASSUME NEW k \in 1..n PROVE lines[k].val \in Seq(Tags)
    <3>1. f[k] \in at
      BY <2>3, <2>4 DEF Ascends
    <3>2. t[f[k]] \in NoteLine /\ t[f[k]].kind = "kw" /\ t[f[k]].key \in {"filetags", "roam_tags"}
      BY <2>1, <2>2, <3>1
    <3> QED BY <2>5, <3>2 DEF NoteLine
  <2>7. [k \in 1..n |-> lines[k].val] \in [1..n -> Seq(Tags)]
    BY <2>6
  <2>8. [k \in 1..n |-> lines[k].val] \in Seq(Seq(Tags))
    BY <2>7
  <2>9. KeywordValues(t, key) = [k \in 1..n |-> lines[k].val]
    BY <2>1, <2>5 DEF KeywordValues
  <2> QED BY <2>8, <2>9
<1>2. ASSUME NEW tags \in Seq(Tags) PROVE Split(tags) \in Seq(Tags)
  <2>1. [i \in DOMAIN tags |-> Segments[tags[i]]] \in Seq(Seq(Tags))
    <3>1. PICK n \in Nat : DOMAIN tags = 1..n /\ tags \in [1..n -> Tags]
      OBVIOUS
    <3>2. [i \in 1..n |-> Segments[tags[i]]] \in [1..n -> Seq(Tags)]
      BY <3>1, NoteTextAssumption
    <3> QED BY <3>1, <3>2
  <2> QED BY <2>1, FlattenTyped DEF Split
<1>3. PICK a \in Seq(Tags), b \in Seq(Tags) :
        /\ a = FlattenSeq(KeywordValues(t, "filetags"))
        /\ b = FlattenSeq(KeywordValues(t, "roam_tags"))
  BY <1>1, FlattenTyped
<1>4. Split(a) \o b \in Seq(Tags)
  BY <1>2, ConcatProperties
<1>5. FileLevelTags(t) \in Seq(Tags)
  BY <1>3, <1>4, DedupTyped DEF FileLevelTags
<1> QED BY <1>1, <1>5

(* So is the text with other tags.                                         *)
LEMMA ApplyTagsTyped ==
  ASSUME NEW t \in Texts, NEW tags \in Seq(Tags)
  PROVE  ApplyFileTags(t, tags) \in Texts
<1>1. PICK u \in Texts : u = SetKeyword(t, "filetags", tags)
  <2>1. tags # <<>> => Kw("filetags", tags) \in NoteLine
    BY TagKeywordTyped
  <2> QED BY <2>1, SetKeywordTyped
<1>2. SetKeyword(u, "roam_tags", <<>>) \in Texts
  BY SetKeywordTyped
<1> QED BY <1>1, <1>2 DEF ApplyFileTags

(* The fields of what a note is asked to have.                             *)
LEMMA AskedTyped ==
  ASSUME NEW p \in Params
  PROVE  /\ p.title # NoName => Kw("title", <<p.title>>) \in NoteLine
         /\ p.tags # NoName => p.tags \in Seq(Tags)
         /\ p.aliases # NoName => p.aliases \in Seq(Vocabulary)
         /\ p.refs # NoName => p.refs \in Seq(Vocabulary)
         /\ p.property # NoName => p.property \in Vocabulary
         /\ p.body # NoName => p.body \in Texts
<1>1. p \in Asked
  BY NoteTextAssumption
<1>2. /\ p.title \in {NoName} \cup Vocabulary /\ p.tags \in {NoName} \cup Seq(Tags)
      /\ p.aliases \in {NoName} \cup Seq(Vocabulary) /\ p.refs \in {NoName} \cup Seq(Vocabulary)
      /\ p.property \in {NoName} \cup Vocabulary /\ p.body \in {NoName} \cup Seq(NoteLine)
  BY <1>1 DEF Asked
<1>3. p.title # NoName => Kw("title", <<p.title>>) \in NoteLine
  BY <1>2, LinesTyped
<1> QED BY <1>2, <1>3 DEF Texts

(* A new note is a text.                                                   *)
LEMMA CreatedTyped ==
  ASSUME NEW id \in Uuids, NEW p \in Params, Given(p)
  PROVE  Created(id, p) \in Texts
<1>1. /\ Kw("title", <<p.title>>) \in NoteLine /\ p.tags \in Seq(Tags)
      /\ p.aliases \in Seq(Vocabulary) /\ p.refs \in Seq(Vocabulary) /\ p.body \in Texts
  BY AskedTyped DEF Given
<1>2. id \in Vocabulary /\ {"ID", "ROAM_ALIASES", "ROAM_REFS"} \subseteq Vocabulary
  BY NoteTextAssumption DEF Literals
<1>3. Open \in NoteLine /\ End \in NoteLine /\ Blank \in NoteLine /\ Prop("ID", <<id>>) \in NoteLine
  <2>1. <<id>> \in Seq(Vocabulary) /\ <<id>> # <<>>
    BY <1>2
  <2> QED BY <1>2, <2>1, LinesTyped
<1>4. PICK l1, l2, l3, l4 :
        /\ l1 = Prop("ID", <<id>>) /\ l2 = Prop("ROAM_ALIASES", p.aliases)
        /\ l3 = Prop("ROAM_REFS", p.refs) /\ l4 = Kw("title", <<p.title>>)
  OBVIOUS
<1>20. <<>> \in Texts
  BY EmptySeq DEF Texts
<1>5. PICK a \in Texts : a = <<Open, l1>>
  <2>1. Open \in NoteLine /\ l1 \in NoteLine
    BY <1>3, <1>4
  <2>2. PICK o : o = Open
    OBVIOUS
  <2>3. <<o, l1>> \in Seq(NoteLine)
    BY <2>1, <2>2
  <2> QED BY <2>2, <2>3 DEF Texts
<1>6. PICK b \in Texts : b = Unless(p.aliases = <<>>, <<l2>>)
  <2>1. p.aliases # <<>> => l2 \in NoteLine
    BY <1>1, <1>2, <1>4, LinesTyped
  <2>2. p.aliases # <<>> => <<l2>> \in Texts
    BY <2>1 DEF Texts
  <2>3. p.aliases # <<>> => Unless(p.aliases = <<>>, <<l2>>) \in Texts
    BY <2>2 DEF Unless
  <2>4. p.aliases = <<>> => Unless(p.aliases = <<>>, <<l2>>) \in Texts
    BY <1>20 DEF Unless
  <2> QED BY <2>3, <2>4
<1>7. PICK c \in Texts : c = Unless(p.refs = <<>>, <<l3>>)
  <2>1. p.refs # <<>> => l3 \in NoteLine
    BY <1>1, <1>2, <1>4, LinesTyped
  <2>2. p.refs # <<>> => <<l3>> \in Texts
    BY <2>1 DEF Texts
  <2>3. p.refs # <<>> => Unless(p.refs = <<>>, <<l3>>) \in Texts
    BY <2>2 DEF Unless
  <2>4. p.refs = <<>> => Unless(p.refs = <<>>, <<l3>>) \in Texts
    BY <1>20 DEF Unless
  <2> QED BY <2>3, <2>4
<1>8. PICK d \in Texts : d = <<End, l4>>
  <2>1. End \in NoteLine /\ l4 \in NoteLine
    BY <1>1, <1>3, <1>4
  <2>2. PICK o : o = End
    OBVIOUS
  <2>3. <<o, l4>> \in Seq(NoteLine)
    BY <2>1, <2>2
  <2> QED BY <2>2, <2>3 DEF Texts
<1>9. PICK e \in Texts : e = Unless(p.tags = <<>>, <<Kw("filetags", p.tags)>>)
  <2>1. p.tags # <<>> => Kw("filetags", p.tags) \in NoteLine
    BY <1>1, TagKeywordTyped
  <2>2. p.tags # <<>> => <<Kw("filetags", p.tags)>> \in Texts
    BY <2>1 DEF Texts
  <2>3. p.tags # <<>> => Unless(p.tags = <<>>, <<Kw("filetags", p.tags)>>) \in Texts
    BY <2>2 DEF Unless
  <2>4. p.tags = <<>> => Unless(p.tags = <<>>, <<Kw("filetags", p.tags)>>) \in Texts
    BY <1>20 DEF Unless
  <2> QED BY <2>3, <2>4
<1>10. PICK f \in Texts : f = Unless(p.body = <<>>, <<Blank>> \o p.body)
  <2>1. <<Blank>> \in Texts
    BY <1>3 DEF Texts
  <2>2. p.body # <<>> => <<Blank>> \o p.body \in Texts
    BY <1>1, <2>1, ConcatProperties DEF Texts
  <2>3. p.body # <<>> => Unless(p.body = <<>>, <<Blank>> \o p.body) \in Texts
    BY <2>2 DEF Unless
  <2>4. p.body = <<>> => Unless(p.body = <<>>, <<Blank>> \o p.body) \in Texts
    BY <1>20 DEF Unless
  <2> QED BY <2>3, <2>4
<1>11. Created(id, p) = a \o b \o c \o d \o e \o f
  BY <1>4, <1>5, <1>6, <1>7, <1>8, <1>9, <1>10 DEF Created
<1>12. a \o b \in Texts
  BY ConcatProperties DEF Texts
<1>13. (a \o b) \o c \in Texts
  BY <1>12, ConcatProperties DEF Texts
<1>14. ((a \o b) \o c) \o d \in Texts
  BY <1>13, ConcatProperties DEF Texts
<1>15. (((a \o b) \o c) \o d) \o e \in Texts
  BY <1>14, ConcatProperties DEF Texts
<1>16. ((((a \o b) \o c) \o d) \o e) \o f \in Texts
  BY <1>15, ConcatProperties DEF Texts
<1> QED BY <1>11, <1>16

(* An updated note is a text.                                              *)
LEMMA UpdatedTyped ==
  ASSUME NEW t \in Texts, NEW p \in Params
  PROVE  ApplyNodeEdits(t, p) \in Texts
<1>1. /\ p.title # NoName => Kw("title", <<p.title>>) \in NoteLine
      /\ p.tags # NoName => p.tags \in Seq(Tags)
      /\ p.aliases # NoName => p.aliases \in Seq(Vocabulary)
      /\ p.refs # NoName => p.refs \in Seq(Vocabulary)
      /\ p.property # NoName => p.property \in Vocabulary
      /\ p.body # NoName => p.body \in Texts
  BY AskedTyped
<1>2. PICK a \in Texts : a = Apply(p.title, SetKeyword(t, "title", <<p.title>>), t)
  <2>1. p.title # NoName => SetKeyword(t, "title", <<p.title>>) \in Texts
    BY <1>1, SetKeywordTyped
  <2> QED BY <2>1 DEF Apply
<1>3. PICK b \in Texts : b = Apply(p.tags, SetKeyword(a, "filetags", p.tags), a)
  <2>1. p.tags # NoName => (p.tags # <<>> => Kw("filetags", p.tags) \in NoteLine)
    BY <1>1, TagKeywordTyped
  <2>2. p.tags # NoName => SetKeyword(a, "filetags", p.tags) \in Texts
    BY <2>1, SetKeywordTyped
  <2> QED BY <2>2 DEF Apply
<1>4. {"ROAM_ALIASES", "ROAM_REFS", "value"} \subseteq Vocabulary
  BY NoteTextAssumption DEF Literals
<1>5. PICK c \in Texts : c = Apply(p.aliases, SetDrawerProperty(b, "ROAM_ALIASES", p.aliases), b)
  <2>1. p.aliases # NoName => SetDrawerProperty(b, "ROAM_ALIASES", p.aliases) \in Texts
    BY <1>1, <1>4, SetDrawerTyped
  <2> QED BY <2>1 DEF Apply
<1>6. PICK d \in Texts : d = Apply(p.refs, SetDrawerProperty(c, "ROAM_REFS", p.refs), c)
  <2>1. p.refs # NoName => SetDrawerProperty(c, "ROAM_REFS", p.refs) \in Texts
    BY <1>1, <1>4, SetDrawerTyped
  <2> QED BY <2>1 DEF Apply
<1>7. PICK e \in Texts : e = Apply(p.property, SetDrawerProperty(d, p.property, <<"value">>), d)
  <2>1. PICK val \in Seq(Vocabulary) : val = <<"value">>
    <3>1. PICK word \in Vocabulary : word = "value"
      BY <1>4
    <3>2. <<word>> \in Seq(Vocabulary)
      OBVIOUS
    <3> QED BY <3>1, <3>2
  <2>2. p.property # NoName => SetDrawerProperty(d, p.property, val) \in Texts
    BY <1>1, <2>1, SetDrawerTyped
  <2> QED BY <2>1, <2>2 DEF Apply
<1>8. p.body # NoName => ReplaceFileBody(e, p.body) \in Texts
  BY <1>1, ReplaceBodyTyped
<1>9. ApplyNodeEdits(t, p) = Apply(p.body, ReplaceFileBody(e, p.body), e)
  BY <1>2, <1>3, <1>5, <1>6, <1>7 DEF ApplyNodeEdits
<1> QED BY <1>8, <1>9 DEF Apply

(* What is inserted below a headline.                                      *)
LEMMA InsertTyped ==
  ASSUME NEW t \in Texts, NEW aim, NEW content \in Texts
  PROVE  InsertUnderHeadline(t, aim, content) \in Texts
<1>1. PICK at \in 1..(Len(t) + 1) :
        at = IF aim = NoName THEN Len(t) + 1 ELSE SubtreeEnd(t, HeadlineTitled(t, aim))
  <2>1. Len(t) + 1 \in 1..(Len(t) + 1)
    BY PlacesIn
  <2> QED BY <2>1, PlacesIn
<1>2. <<Blank>> \o TrimEnd(content) \in Texts
  <2>1. <<Blank>> \in Texts
    BY LinesTyped DEF Texts
  <2> QED BY <2>1, TrimTyped, ConcatProperties DEF Texts
<1>3. Splice(t, at, <<Blank>> \o TrimEnd(content)) \in Texts
  BY <1>2, SpliceTyped
<1> QED BY <1>1, <1>3 DEF InsertUnderHeadline

(* Writing a text keeps the types.                                         *)
LEMMA WriteTyped ==
  ASSUME TypeOK, NEW new, Write(new), new \in Texts
  PROVE  TypeOK'
<1>1. text' = new /\ known' = known /\ calls < MaxCalls /\ calls' = calls + 1 /\ calls \in 0..MaxCalls
  BY DEF Write, TypeOK
<1>2. calls' \in 0..MaxCalls
  BY <1>1, NoteTextAssumption
<1> QED BY <1>1, <1>2 DEF TypeOK, Texts

(* The texts the vault and the callers have.                               *)
LEMMA GivenTexts ==
  /\ Notes \subseteq Texts /\ Contents \subseteq Texts
  /\ <<>> \in Texts
BY NoteTextAssumption, EmptySeq DEF Texts

(* What each call makes of a text is a text.                               *)
LEMMA StepTyped == ASSUME TypeOK, [Next]_vars PROVE TypeOK'
<1>1. text \in Texts
  BY DEF TypeOK, Texts
<1>2. CASE UNCHANGED vars
  BY <1>2 DEF vars, TypeOK
<1>3. CASE Refresh
  <2>1. \A id \in DOMAIN NodesOf(text) : NodesOf(text)[id] \in {"file", "headline"}
    BY DEF NodesOf
  <2> QED BY <1>3, <2>1 DEF Refresh, TypeOK
<1>4. ASSUME NEW id \in Uuids, NEW p \in Params, CreateNode(id, p) PROVE TypeOK'
  <2>1. Given(p) /\ Write(Created(id, p))
    BY <1>4 DEF CreateNode
  <2> QED BY <2>1, CreatedTyped, WriteTyped
<1>5. ASSUME NEW id \in Uuids, NEW p \in Params, UpdateNode(id, p) PROVE TypeOK'
  <2>1. Write(ApplyNodeEdits(text, p))
    BY <1>5 DEF UpdateNode
  <2> QED BY <1>1, <2>1, UpdatedTyped, WriteTyped
<1>6. ASSUME NEW id, NEW aim, NEW content \in Contents, AppendToNode(id, aim, content) PROVE TypeOK'
  <2>1. Write(InsertUnderHeadline(text, aim, content))
    BY <1>6 DEF AppendToNode
  <2>2. InsertUnderHeadline(text, aim, content) \in Texts
    BY <1>1, GivenTexts, InsertTyped
  <2> QED BY <2>1, <2>2, WriteTyped
<1>7. ASSUME NEW id, NEW aim, NEW content \in Contents, PrependToNode(id, aim, content) PROVE TypeOK'
  <2>1. /\ PrependOffset(text, id, aim) # 0
        /\ Write(Splice(text, PrependOffset(text, id, aim), TrimEnd(content) \o <<Blank>>))
    BY <1>7 DEF PrependToNode
  <2>2. PrependOffset(text, id, aim) \in 1..(Len(text) + 1)
    <3>1. PICK h : h = IF aim # NoName THEN HeadlineTitled(text, aim) ELSE HeadlineById(text, id)
      OBVIOUS
    <3>2. h = 0 \/ h \in Headlines(text)
      <4>1. \A S \in SUBSET Headlines(text) : Least(S, 0) = 0 \/ Least(S, 0) \in S
        <5>1. Headlines(text) \subseteq Nat
          BY <1>1, PlacesIn
        <5> QED BY <5>1, LeastOf
      <4>2. HeadlineTitled(text, aim) = 0 \/ HeadlineTitled(text, aim) \in Headlines(text)
        BY <4>1 DEF HeadlineTitled
      <4>3. HeadlineById(text, id) = 0 \/ HeadlineById(text, id) \in Headlines(text)
        BY <4>1 DEF HeadlineById, HeadlineWith
      <4> QED BY <3>1, <4>2, <4>3
    <3>3. PrependOffset(text, id, aim) \in {BodyStart(text), 0, HeadlineBody(text, h)}
          /\ (PrependOffset(text, id, aim) = HeadlineBody(text, h) =>
                h # 0 \/ PrependOffset(text, id, aim) \in {BodyStart(text), 0})
      BY <3>1 DEF PrependOffset
    <3> QED BY <1>1, <2>1, <3>2, <3>3, BodiesIn
  <2>3. TrimEnd(content) \o <<Blank>> \in Texts
    <3>1. <<Blank>> \in Texts
      BY LinesTyped DEF Texts
    <3>2. TrimEnd(content) \in Texts
      BY GivenTexts, TrimTyped
    <3> QED BY <3>1, <3>2, ConcatProperties DEF Texts
  <2>4. PICK at \in 1..(Len(text) + 1) : at = PrependOffset(text, id, aim)
    BY <2>2
  <2>5. Splice(text, at, TrimEnd(content) \o <<Blank>>) \in Texts
    BY <1>1, <2>3, SpliceTyped
  <2> QED BY <2>1, <2>4, <2>5, WriteTyped
<1>8. ASSUME NEW id \in Uuids, NEW aim, NEW content \in Contents, DailyCapture(id, aim, content) PROVE TypeOK'
  <2>1. DailyHeader(id) \in Texts
    <3>1. "date" \in Vocabulary /\ "ID" \in Vocabulary /\ id \in Vocabulary
      BY NoteTextAssumption DEF Literals
    <3>2. PICK a, b, c, d \in NoteLine :
            a = Open /\ b = Prop("ID", <<id>>) /\ c = End /\ d = Kw("title", <<"date">>)
      <4>1. <<id>> \in Seq(Vocabulary) /\ <<id>> # <<>>
        BY <3>1
      <4> QED BY <3>1, <4>1, LinesTyped
    <3>3. <<a, b, c, d>> \in Seq(NoteLine)
      OBVIOUS
    <3> QED BY <3>2, <3>3 DEF DailyHeader, Texts
  <2>2. PICK daily \in Texts : daily = IF Exists THEN text ELSE DailyHeader(id)
    BY <1>1, <2>1
  <2>3. Write(IF Located(daily, aim) THEN InsertUnderHeadline(daily, aim, content) ELSE daily)
    BY <1>8, <2>2 DEF DailyCapture
  <2>4. InsertUnderHeadline(daily, aim, content) \in Texts
    BY GivenTexts, InsertTyped
  <2> QED BY <2>3, <2>4, WriteTyped
<1>9. ASSUME NEW id, NEW target \in Uuids, NEW aim, AddLink(id, target, aim) PROVE TypeOK'
  <2>1. PICK line \in NoteLine : line = Text(<<"link", target>>)
    <3>1. PICK word \in Vocabulary : word = "link"
      BY NoteTextAssumption DEF Literals
    <3>2. target \in Vocabulary
      BY NoteTextAssumption
    <3>3. <<word, target>> \in Seq(Vocabulary)
      BY <3>2
    <3> QED BY <3>1, <3>3, LinesTyped
  <2>2. <<line>> \in Texts
    BY DEF Texts
  <2>3. InsertUnderHeadline(text, aim, <<line>>) \in Texts
    BY <1>1, <2>2, InsertTyped
  <2>4. Write(InsertUnderHeadline(text, aim, <<line>>))
    BY <1>9, <2>1 DEF AddLink
  <2> QED BY <2>3, <2>4, WriteTyped
<1>10. ASSUME NEW id, NEW word, NEW name \in Names, InsertAnchor(id, word, name) PROVE TypeOK'
  <2>1. SearchText(text, word) \in 0..Len(text) /\ SearchText(text, word) # 0 /\ Len(text) \in Nat
    BY <1>1, <1>10, SearchIn, PlacesIn DEF InsertAnchor
  <2>2. PICK at \in 1..(Len(text) + 1) : at = SearchText(text, word)
    BY <2>1
  <2>3. PICK line \in NoteLine : line = Of("target", name, <<>>)
    BY LinesTyped, NoteTextAssumption
  <2>4. <<line>> \in Texts
    BY DEF Texts
  <2>5. Splice(text, at, <<line>>) \in Texts
    BY <1>1, <2>4, SpliceTyped
  <2>6. Write(Splice(text, at, <<line>>))
    BY <1>10, <2>2, <2>3 DEF InsertAnchor, MarkerInserted
  <2> QED BY <2>5, <2>6, WriteTyped
<1>11. ASSUME NEW id, NEW title \in Titles, RenameNode(id, title) PROVE TypeOK'
  <2>1. Kw("title", <<title>>) \in NoteLine
    BY LinesTyped, NoteTextAssumption
  <2>2. SetKeyword(text, "title", <<title>>) \in Texts
    BY <1>1, <2>1, SetKeywordTyped
  <2> QED BY <1>11, <2>2, WriteTyped DEF RenameNode
<1>12. ASSUME NEW id, NEW tags \in TagLists, AddTag(id, tags) \/ RemoveTag(id, tags) \/ SetTags(id, tags)
       PROVE  TypeOK'
  <2>1. tags \in Seq(Tags) /\ FileLevelTags(text) \in Seq(Tags)
    BY <1>1, TagsTyped, NoteTextAssumption
  <2>2. ASSUME NEW new \in Seq(Tags), Retag(id, new) PROVE TypeOK'
    <3>1. ApplyFileTags(text, new) \in Texts
      BY <1>1, ApplyTagsTyped
    <3> QED BY <2>2, <3>1, WriteTyped DEF Retag
  <2>3. Added(tags) \in Seq(Tags)
    <3>1. FileLevelTags(text) \o tags \in Seq(Tags)
      BY <2>1, ConcatProperties
    <3> QED BY <3>1, DedupTyped DEF Added
  <2>4. Remaining(tags) \in Seq(Tags)
    <3>1. PICK old \in Seq(Tags) : old = FileLevelTags(text)
      BY <2>1
    <3>2. {i \in DOMAIN old : old[i] \notin ToSet(tags)} \subseteq DOMAIN old
      OBVIOUS
    <3>3. Picked(old, {i \in DOMAIN old : old[i] \notin ToSet(tags)}) \in Seq(Tags)
      BY <3>2, PickedTyped
    <3> QED BY <3>1, <3>3 DEF Remaining
  <2>5. Dedup(tags) \in Seq(Tags)
    BY <2>1, DedupTyped
  <2> QED BY <1>12, <2>2, <2>3, <2>4, <2>5 DEF AddTag, RemoveTag, SetTags
<1>13. ASSUME NEW id, DeleteNode(id) PROVE TypeOK'
  <2>1. CASE known[id] = "file"
    BY <1>13, <2>1, GivenTexts, WriteTyped DEF DeleteNode
  <2>2. CASE known[id] # "file"
    <3>1. PICK h : h = HeadlineById(text, id)
      OBVIOUS
    <3>2. h # 0 /\ Write(Cut(text, h, SubtreeEnd(text, h)))
      BY <1>13, <2>2, <3>1 DEF DeleteNode
    <3>3. h \in Headlines(text)
      <4>1. \A S \in SUBSET Headlines(text) : Least(S, 0) = 0 \/ Least(S, 0) \in S
        <5>1. Headlines(text) \subseteq Nat
          BY <1>1, PlacesIn
        <5> QED BY <5>1, LeastOf
      <4> QED BY <3>1, <3>2, <4>1 DEF HeadlineById, HeadlineWith
    <3>4. h \in 1..(Len(text) + 1) /\ SubtreeEnd(text, h) \in 1..(Len(text) + 1)
      BY <1>1, <3>3, PlacesIn
    <3>5. Cut(text, h, SubtreeEnd(text, h)) \in Texts
      BY <1>1, <3>4, CutTyped
    <3> QED BY <3>2, <3>5, WriteTyped
  <2> QED BY <2>1, <2>2
<1> QED BY <1>2, <1>3, <1>4, <1>5, <1>6, <1>7, <1>8, <1>9, <1>10, <1>11, <1>12, <1>13 DEF Next

(* Whatever the calls, the file has lines of a note: headlines with levels, *)
(* keywords and properties with words, tags that are tags; and every place *)
(* the edits go by is in the text.                                         *)
THEOREM TextsStayTexts == Spec => []TypeOK
<1>1. Init => TypeOK
  <2> SUFFICES ASSUME Init PROVE TypeOK
    OBVIOUS
  <2>1. text \in Seq(NoteLine) /\ calls \in 0..MaxCalls
    BY NoteTextAssumption DEF Init
  <2>2. \A id \in DOMAIN known : known[id] \in {"file", "headline"}
    BY DEF Init, NodesOf
  <2> QED BY <2>1, <2>2 DEF TypeOK
<1>2. TypeOK /\ [Next]_vars => TypeOK'
  BY StepTyped
<1> QED BY <1>1, <1>2, PTL DEF Spec

-----------------------------------------------------------------------------
(* The outline                                                             *)

(* The stack of open headlines and the tree, after each line of a text.    *)
Stages(t) == [open: Seq(DOMAIN t), tree: [Headlines(t) -> {0} \cup DOMAIN t]]
Bare(t)   == [open |-> <<>>, tree |-> [h \in Headlines(t) |-> 0]]
Grown(t, s, i) == IF t[i].kind = "head" THEN Hang(t, s, i) ELSE s

Grows(t, c) ==
  /\ c \in [0..Len(t) -> Stages(t)] /\ c[0] = Bare(t)
  /\ \A k \in 1..Len(t) : c[k] = Grown(t, c[k - 1], k)

(* How many of the open headlines stay open.                               *)
Up(t, s, h) == Max({0} \cup {i \in DOMAIN s.open : t[s.open[i]].level < t[h].level})

(* What a headline makes of them.                                          *)
Hung(t, s, h, up, new) ==
  /\ new \in Stages(t) /\ Len(s.open) \in Nat /\ DOMAIN s.open = 1..Len(s.open)
  /\ up \in 0..Len(s.open) /\ (up # 0 => t[s.open[up]].level < t[h].level)
  /\ \A i \in DOMAIN s.open : t[s.open[i]].level < t[h].level => i <= up
  /\ DOMAIN new.open = 1..(up + 1) /\ new.open[up + 1] = h
  /\ \A i \in 1..up : new.open[i] = s.open[i]
  /\ new.tree = [s.tree EXCEPT ![h] = IF up = 0 THEN 0 ELSE s.open[up]]

(* This it does.                                                           *)
LEMMA HangTyped ==
  ASSUME NEW t \in Texts, NEW s \in Stages(t), NEW h \in DOMAIN t, t[h].kind = "head"
  PROVE  Hung(t, s, h, Up(t, s, h), Hang(t, s, h))
<1>1. PICK o \in Seq(DOMAIN t), l \in Nat : o = s.open /\ l = Len(o) /\ DOMAIN o = 1..l
  BY DEF Stages
<1>2. PICK S : S = {i \in 1..l : t[o[i]].level < t[h].level}
  OBVIOUS
<1>3. S \subseteq 1..l
  BY <1>2
<1>4. PICK up \in 0..l : up = Max({0} \cup S) /\ up \in {0} \cup S /\ \A x \in S : x <= up
  BY <1>3, GreatestOf
<1>5. Up(t, s, h) = up
  BY <1>1, <1>2, <1>4 DEF Up
<1>6. PICK q \in Seq(DOMAIN t) : q = SubSeq(o, 1, up) /\ Len(q) = up /\ \A i \in 1..up : q[i] = o[i]
  <2>1. PICK i \in 1..(l + 1) : i = up + 1 /\ i - 1 = up
    OBVIOUS
  <2>2. SubSeq(o, 1, i - 1) \in Seq(DOMAIN t) /\ Len(SubSeq(o, 1, i - 1)) = i - 1
        /\ \A j \in 1..(i - 1) : SubSeq(o, 1, i - 1)[j] = o[j]
    BY <1>1, <2>1, PartsTyped
  <2> QED BY <2>1, <2>2
<1>7. PICK r \in Seq(DOMAIN t) : /\ r = Append(q, h) /\ Len(r) = up + 1
                                 /\ \A i \in 1..up : r[i] = o[i]
                                 /\ r[up + 1] = h
  <2>1. /\ Append(q, h) \in Seq(DOMAIN t) /\ Len(Append(q, h)) = Len(q) + 1
        /\ \A i \in 1..Len(q) : Append(q, h)[i] = q[i]
        /\ Append(q, h)[Len(q) + 1] = h
    BY AppendProperties
  <2> QED BY <1>6, <2>1
<1>8. PICK x \in {0} \cup DOMAIN t : x = IF up = 0 THEN 0 ELSE o[up]
  <2>1. up = 0 \/ up \in 1..l
    OBVIOUS
  <2>2. up # 0 => o[up] \in DOMAIN t
    BY <1>1, <2>1
  <2> QED BY <2>2
<1>9. Hang(t, s, h) = [open |-> r, tree |-> [s.tree EXCEPT ![h] = x]]
  BY <1>1, <1>2, <1>4, <1>6, <1>7, <1>8 DEF Hang
<1>10. [s.tree EXCEPT ![h] = x] \in [Headlines(t) -> {0} \cup DOMAIN t]
  BY DEF Stages, Headlines
<1>11. Hang(t, s, h) \in Stages(t)
  BY <1>9, <1>10 DEF Stages
<1>12. PICK new \in Stages(t) : new = Hang(t, s, h) /\ new.open = r /\ new.tree = [s.tree EXCEPT ![h] = x]
  BY <1>9, <1>11
<1>13. DOMAIN new.open = 1..(up + 1) /\ new.open[up + 1] = h /\ \A i \in 1..up : new.open[i] = s.open[i]
  BY <1>1, <1>7, <1>12
<1>14. new.tree = [s.tree EXCEPT ![h] = IF up = 0 THEN 0 ELSE s.open[up]]
  BY <1>1, <1>8, <1>12
<1>15. /\ up # 0 => t[s.open[up]].level < t[h].level
       /\ \A i \in DOMAIN s.open : t[s.open[i]].level < t[h].level => i <= up
  BY <1>1, <1>2, <1>4
<1>16. Len(s.open) \in Nat /\ DOMAIN s.open = 1..Len(s.open) /\ up \in 0..Len(s.open)
  BY <1>1
<1>17. Hung(t, s, h, up, new)
  BY <1>13, <1>14, <1>15, <1>16 DEF Hung
<1> QED BY <1>5, <1>12, <1>17

(* The outline is what is grown in the end.                                *)
LEMMA OutlineGrows ==
  ASSUME NEW t \in Texts
  PROVE  \E c : Grows(t, c) /\ OutlineTree(t) = c[Len(t)].tree
<1>1. PICK n \in Nat : n = Len(t) /\ DOMAIN t = 1..n
  BY PlacesIn
<1>2. PICK A : A = Stages(t)
  OBVIOUS
<1>3. PICK b \in A : b = Bare(t)
  <2>1. <<>> \in Seq(DOMAIN t)
    BY EmptySeq
  <2> QED BY <1>2, <2>1 DEF Stages, Bare
<1>4. PICK F : F = [x \in A \X (1..n) |-> Grown(t, x[1], x[2])]
  OBVIOUS
<1>5. F \in [A \X (1..n) -> A]
  <2>1. ASSUME NEW s \in A, NEW i \in 1..n PROVE Grown(t, s, i) \in A
    <3>1. t[i].kind = "head" => Hung(t, s, i, Up(t, s, i), Hang(t, s, i))
      BY <1>1, <1>2, HangTyped
    <3>2. t[i].kind = "head" => Hang(t, s, i) \in A
      BY <1>2, <3>1 DEF Hung
    <3> QED BY <3>2 DEF Grown
  <2> QED BY <1>4, <2>1
<1>6. PICK id : id = [i \in DOMAIN t |-> i]
  OBVIOUS
<1>7. DOMAIN id = 1..n /\ \A i \in 1..n : id[i] = i
  BY <1>1, <1>6
<1> DEFINE Runs(g) ==
      g = [s \in SUBSET (DOMAIN id) |->
             IF s = {} THEN b ELSE Grown(t, g[s \ {Max(s)}], id[Max(s)])]
<1>8. \E g : Runs(g)
  <2>1. PICK g \in [SUBSET (1..n) -> A] : Folds(g, n, b, F)
    BY <1>5, FoldExists
  <2> DEFINE G(s) == IF s = {} THEN b ELSE Grown(t, g[s \ {Max(s)}], id[Max(s)])
  <2>2. ASSUME NEW s \in SUBSET (1..n) PROVE g[s] = G(s)
    <3>1. CASE s = {}
      BY <2>1, <3>1 DEF Folds
    <3>2. CASE s # {}
      <4>1. PICK x \in 1..n : x = Max(s)
        <5>1. s \subseteq 0..n
          OBVIOUS
        <5> QED BY <3>2, <5>1, GreatestExists
      <4>2. g[s] = F[<<g[s \ {x}], x>>] /\ g[s \ {x}] \in A
        BY <2>1, <3>2, <4>1 DEF Folds
      <4>3. F[<<g[s \ {x}], x>>] = Grown(t, g[s \ {x}], x)
        BY <1>4, <4>2
      <4> QED BY <1>7, <3>2, <4>1, <4>2, <4>3
    <3> QED BY <3>1, <3>2
  <2>3. g = [s \in SUBSET (1..n) |-> g[s]]
    BY <2>1
  <2>4. g = [s \in SUBSET (DOMAIN id) |-> G(s)]
    <3> HIDE DEF G
    <3> QED BY <1>7, <2>2, <2>3
  <2> QED BY <2>4
<1>9. PICK it : it = (CHOOSE g : Runs(g))
  OBVIOUS
<1>10. OutlineTree(t) = it[1..n].tree
  <2>1. OutlineTree(t) = it[DOMAIN id].tree
    BY <1>3, <1>6, <1>9 DEF OutlineTree, FoldLeftDomain, FoldLeft, MapThenFoldSet, Grown, Bare
  <2> QED BY <1>7, <2>1
<1>11. Runs(it)
  <2> HIDE DEF Runs
  <2> QED BY <1>8, <1>9
<1> DEFINE G(s) == IF s = {} THEN b ELSE Grown(t, it[s \ {Max(s)}], id[Max(s)])
<1>12. it = [s \in SUBSET (1..n) |-> G(s)]
  BY <1>7, <1>11
<1>13. \A s \in SUBSET (1..n) : it[s] = G(s)
  <2> HIDE DEF G
  <2> QED BY <1>12
<1> HIDE DEF Runs
<1>14. PICK c : c = [k \in 0..n |-> it[1..k]]
  OBVIOUS
<1>15. c[0] = b /\ c[n] = it[1..n]
  <2>1. 1..0 = {} /\ {} \in SUBSET (1..n)
    OBVIOUS
  <2>2. it[{}] = b
    BY <1>13, <2>1
  <2> QED BY <1>14, <2>1, <2>2
<1>16. ASSUME NEW k \in 1..n PROVE c[k] = Grown(t, c[k - 1], k)
  <2>1. 1..k \in SUBSET (1..n) /\ 1..k # {} /\ k - 1 \in 0..n /\ (1..k) \ {k} = 1..(k - 1)
    OBVIOUS
  <2>2. Max(1..k) = k
    <3>1. 1..k \subseteq 0..k /\ k \in Nat /\ k \in 1..k
      OBVIOUS
    <3>2. Max(1..k) \in 1..k /\ k <= Max(1..k)
      BY <2>1, <3>1, GreatestExists
    <3> QED BY <3>2
  <2>3. PICK s \in SUBSET (1..n) : s = 1..k /\ k = Max(s) /\ s # {} /\ s \ {k} = 1..(k - 1)
    BY <2>1, <2>2
  <2>4. it[s] = Grown(t, it[s \ {k}], k)
    BY <1>7, <1>13, <2>3
  <2>5. it[s] = c[k] /\ it[s \ {k}] = c[k - 1]
    <3>1. c[k] = it[1..k]
      BY <1>14, <2>1
    <3>2. c[k - 1] = it[1..(k - 1)]
      BY <1>14, <2>1
    <3> QED BY <2>3, <3>1, <3>2
  <2> QED BY <2>4, <2>5
<1>17. ASSUME NEW i \in 0..n PROVE c[i] \in A
  <2> DEFINE Bad == {k \in 0..n : c[k] \notin A}
  <2> SUFFICES ASSUME Bad # {} PROVE FALSE
    OBVIOUS
  <2>1. PICK k \in Bad : \A j \in Bad : k <= j
    <3>1. Bad \subseteq Nat
      OBVIOUS
    <3> HIDE DEF Bad
    <3> QED BY <3>1, LeastExists
  <2>2. k \in 1..n /\ k - 1 \in 0..n /\ ~ k <= k - 1
    BY <1>15, <2>1
  <2>3. c[k - 1] \in A
    BY <2>1, <2>2
  <2>4. F[<<c[k - 1], k>>] \in A /\ F[<<c[k - 1], k>>] = Grown(t, c[k - 1], k)
    BY <1>4, <1>5, <2>2, <2>3
  <2> QED BY <1>16, <2>1, <2>2, <2>4
<1>18. c \in [0..n -> A]
  BY <1>14, <1>17
<1> QED BY <1>1, <1>2, <1>3, <1>10, <1>15, <1>16, <1>18 DEF Grows

(* The stack has, in order and ever deeper, the headlines that no later     *)
(* one has closed; and what was hung is hung below its parent.             *)
Opened(t, k, s) ==
  /\ \A i \in DOMAIN s.open : s.open[i] \in Headlines(t) /\ s.open[i] <= k
  /\ \A i, j \in DOMAIN s.open :
       i < j => s.open[i] < s.open[j] /\ t[s.open[i]].level < t[s.open[j]].level
  /\ \A g \in Headlines(t) :
       g <= k /\ (\A f \in Headlines(t) : g < f /\ f <= k => t[g].level < t[f].level)
       => \E i \in DOMAIN s.open : s.open[i] = g
  /\ \A h \in Headlines(t) : h <= k => s.tree[h] = Parent(t, h)

(* The headlines of a text, and their levels.                              *)
LEMMA LevelsTyped ==
  ASSUME NEW t \in Texts
  PROVE  \A h \in Headlines(t) : h \in DOMAIN t /\ h \in Nat /\ t[h].kind = "head" /\ t[h].level \in Nat
<1> SUFFICES ASSUME NEW h \in Headlines(t)
             PROVE  h \in DOMAIN t /\ h \in Nat /\ t[h].kind = "head" /\ t[h].level \in Nat
  OBVIOUS
<1>1. h \in DOMAIN t /\ h \in Nat /\ t[h].kind = "head" /\ t[h] \in NoteLine
  BY DEF Headlines, Texts
<1>2. t[h].level \in Nat
  BY <1>1 DEF NoteLine, Line
<1> QED BY <1>1, <1>2

(* The last open headline that stays open is the parent of the next one.   *)
LEMMA HungBelowParent ==
  ASSUME NEW t \in Texts, NEW s \in Stages(t), NEW h \in Headlines(t), Opened(t, h - 1, s)
  PROVE  Parent(t, h) = IF Up(t, s, h) = 0 THEN 0 ELSE s.open[Up(t, s, h)]
<1>1. PICK n \in Nat : n = Len(t) /\ DOMAIN t = 1..n
  BY PlacesIn
<1>2. h \in 1..n /\ t[h].kind = "head" /\ \A g \in Headlines(t) : g \in 1..n /\ t[g].level \in Nat
  BY <1>1, LevelsTyped
<1>3. PICK C : C = {g \in Headlines(t) : g < h /\ t[g].level < t[h].level}
  OBVIOUS
<1>4. C \subseteq 1..n
  BY <1>2, <1>3
<1>5. PICK p \in {0} \cup C : p = Parent(t, h) /\ p \in 0..n /\ \A x \in C : x <= p
  <2>1. Max({0} \cup C) \in {0} \cup C /\ Max({0} \cup C) \in 0..n /\ \A x \in C : x <= Max({0} \cup C)
    BY <1>4, GreatestOf
  <2> QED BY <1>3, <2>1 DEF Parent
<1>30. h \in DOMAIN t /\ t[h].kind = "head"
  BY <1>1, <1>2
<1>31. Hung(t, s, h, Up(t, s, h), Hang(t, s, h))
  BY <1>30, HangTyped
<1>32. PICK up, new : up = Up(t, s, h) /\ new = Hang(t, s, h) /\ Hung(t, s, h, up, new)
  BY <1>31
<1>33. PICK l \in Nat : DOMAIN s.open = 1..l /\ up \in 0..l
  BY <1>32 DEF Hung
<1>6. PICK o : o = s.open /\ DOMAIN o = 1..l
  BY <1>33
<1>7. /\ up \in 0..l /\ up = Up(t, s, h) /\ (up # 0 => t[o[up]].level < t[h].level)
      /\ \A i \in 1..l : t[o[i]].level < t[h].level => i <= up
  BY <1>6, <1>32, <1>33 DEF Hung
<1>8. /\ \A i \in 1..l : o[i] \in Headlines(t) /\ o[i] <= h - 1
      /\ \A i, j \in 1..l : i < j => o[i] < o[j]
      /\ \A g \in Headlines(t) :
           g <= h - 1 /\ (\A f \in Headlines(t) : g < f /\ f <= h - 1 => t[g].level < t[f].level)
           => \E i \in 1..l : o[i] = g
  BY <1>6 DEF Opened
<1>9. up # 0 => o[up] \in C
  <2> SUFFICES ASSUME up # 0 PROVE o[up] \in C
    OBVIOUS
  <2>1. up \in 1..l
    BY <1>7
  <2>2. o[up] \in Headlines(t) /\ o[up] <= h - 1 /\ o[up] \in 1..n
    BY <1>2, <1>8, <2>1
  <2>3. o[up] < h
    BY <1>2, <2>2
  <2> QED BY <1>3, <1>7, <2>2, <2>3
<1>10. CASE p = 0
  <2>1. up = 0
    <3> SUFFICES ASSUME up # 0 PROVE FALSE
      OBVIOUS
    <3>1. o[up] <= 0 /\ o[up] \in 1..n
      BY <1>4, <1>5, <1>9, <1>10
    <3> QED BY <3>1
  <2> QED BY <1>5, <1>7, <1>10, <2>1
<1>11. CASE p # 0
  <2>1. p \in Headlines(t) /\ p < h /\ t[p].level < t[h].level /\ p <= h - 1 /\ t[p].level \in Nat
        /\ t[h].level \in Nat
    <3>1. p \in C
      BY <1>11
    <3>2. p \in Headlines(t) /\ p < h /\ t[p].level < t[h].level
      BY <1>3, <3>1
    <3>3. p \in 1..n /\ t[p].level \in Nat /\ t[h].level \in Nat
      BY <1>2, <3>2
    <3>4. p <= h - 1
      BY <1>2, <3>2, <3>3
    <3> QED BY <3>2, <3>3, <3>4
  <2>2. ASSUME NEW f \in Headlines(t), p < f, f <= h - 1 PROVE t[p].level < t[f].level
    <3>1. f < h /\ f \in 1..n /\ t[f].level \in Nat /\ ~ f <= p
      BY <1>2, <1>5, <2>2
    <3>2. f \notin C
      BY <1>5, <3>1
    <3>3. ~ t[f].level < t[h].level
      BY <1>3, <3>1, <3>2
    <3>4. PICK a \in Nat, b \in Nat, c \in Nat : a = t[p].level /\ b = t[f].level /\ c = t[h].level
      BY <2>1, <3>1
    <3>5. a < c /\ ~ b < c
      BY <2>1, <3>3, <3>4
    <3>6. a < b
      BY <3>5
    <3> QED BY <3>4, <3>6
  <2>3. PICK i \in 1..l : o[i] = p
    BY <1>8, <2>1, <2>2
  <2>4. i <= up /\ up \in 1..l
    BY <1>7, <2>1, <2>3
  <2>5. o[up] <= p /\ o[up] \in 1..n
    <3>1. o[up] \in C
      BY <1>9, <2>4
    <3> QED BY <1>4, <1>5, <3>1
  <2>6. up = i
    <3> SUFFICES ASSUME i < up PROVE FALSE
      BY <2>4
    <3>1. o[i] < o[up]
      BY <1>8, <2>4
    <3> QED BY <1>5, <2>3, <2>5, <3>1
  <2> QED BY <1>5, <1>6, <1>7, <2>3, <2>4, <2>6
<1> QED BY <1>10, <1>11

(* A headline leaves the stack in order.                                   *)
LEMMA HangKeeps ==
  ASSUME NEW t \in Texts, NEW s \in Stages(t), NEW h \in Headlines(t), Opened(t, h - 1, s)
  PROVE  Opened(t, h, Hang(t, s, h))
<1>1. PICK n \in Nat : n = Len(t) /\ DOMAIN t = 1..n
  BY PlacesIn
<1>2. h \in 1..n /\ t[h].kind = "head" /\ \A g \in Headlines(t) : g \in 1..n /\ t[g].level \in Nat
  BY <1>1, LevelsTyped
<1>3. PICK lev \in [Headlines(t) -> Nat] : \A g \in Headlines(t) : lev[g] = t[g].level
  <2>1. [g \in Headlines(t) |-> t[g].level] \in [Headlines(t) -> Nat]
    BY <1>2
  <2> QED BY <2>1
<1>30. h \in DOMAIN t /\ t[h].kind = "head"
  BY <1>1, <1>2
<1>31. Hung(t, s, h, Up(t, s, h), Hang(t, s, h))
  BY <1>30, HangTyped
<1>32. PICK up, new : up = Up(t, s, h) /\ new = Hang(t, s, h) /\ Hung(t, s, h, up, new)
  BY <1>31
<1>33. PICK l \in Nat : DOMAIN s.open = 1..l /\ up \in 0..l
  BY <1>32 DEF Hung
<1>4. PICK o : o = s.open /\ DOMAIN o = 1..l
  BY <1>33
<1>5. /\ \A i \in 1..l : o[i] \in Headlines(t) /\ o[i] <= h - 1
      /\ \A i, j \in 1..l : i < j => o[i] < o[j] /\ lev[o[i]] < lev[o[j]]
      /\ \A g \in Headlines(t) :
           g <= h - 1 /\ (\A f \in Headlines(t) : g < f /\ f <= h - 1 => lev[g] < lev[f])
           => \E i \in 1..l : o[i] = g
      /\ \A g \in Headlines(t) : g <= h - 1 => s.tree[g] = Parent(t, g)
  <2>1. /\ \A i \in 1..l : o[i] \in Headlines(t) /\ o[i] <= h - 1
        /\ \A i, j \in 1..l : i < j => o[i] < o[j] /\ t[o[i]].level < t[o[j]].level
        /\ \A g \in Headlines(t) : g <= h - 1 => s.tree[g] = Parent(t, g)
    BY <1>4 DEF Opened
  <2>2. \A g \in Headlines(t) :
          g <= h - 1 /\ (\A f \in Headlines(t) : g < f /\ f <= h - 1 => t[g].level < t[f].level)
          => \E i \in 1..l : o[i] = g
    BY <1>4 DEF Opened
  <2>3. \A i, j \in 1..l : i < j => o[i] < o[j] /\ lev[o[i]] < lev[o[j]]
    BY <1>3, <2>1
  <2>4. \A g \in Headlines(t) :
          g <= h - 1 /\ (\A f \in Headlines(t) : g < f /\ f <= h - 1 => lev[g] < lev[f])
          => \E i \in 1..l : o[i] = g
    BY <1>3, <2>2
  <2> QED BY <2>1, <2>3, <2>4
<1>6. /\ up \in 0..l /\ (up # 0 => t[o[up]].level < t[h].level)
      /\ \A i \in 1..l : t[o[i]].level < t[h].level => i <= up
      /\ new.tree = [s.tree EXCEPT ![h] = IF up = 0 THEN 0 ELSE o[up]]
  BY <1>4, <1>32, <1>33 DEF Hung
<1>7. /\ up \in 0..l /\ (up # 0 => lev[o[up]] < lev[h])
      /\ \A i \in 1..l : lev[o[i]] < lev[h] => i <= up
  <2>1. up # 0 => up \in 1..l /\ lev[o[up]] < lev[h]
    BY <1>3, <1>5, <1>6
  <2>2. \A i \in 1..l : lev[o[i]] < lev[h] => i <= up
    BY <1>3, <1>5, <1>6
  <2> QED BY <1>6, <2>1, <2>2
<1>8. PICK r : r = new.open /\ DOMAIN r = 1..(up + 1) /\ r[up + 1] = h /\ \A i \in 1..up : r[i] = o[i]
  BY <1>4, <1>32 DEF Hung
<1>9. \A i \in 1..up : i \in 1..l /\ o[i] \in Headlines(t) /\ o[i] \in 1..n /\ o[i] < h /\ lev[o[i]] < lev[h]
  <2> SUFFICES ASSUME NEW i \in 1..up
               PROVE  i \in 1..l /\ o[i] \in Headlines(t) /\ o[i] \in 1..n /\ o[i] < h /\ lev[o[i]] < lev[h]
    OBVIOUS
  <2>1. i \in 1..l /\ up \in 1..l
    BY <1>7
  <2>2. o[i] \in Headlines(t) /\ o[i] <= h - 1 /\ o[i] \in 1..n
    BY <1>2, <1>5, <2>1
  <2>3. o[i] < h
    BY <1>2, <2>2
  <2>4. PICK a \in Nat, b \in Nat, c \in Nat : a = lev[o[i]] /\ b = lev[o[up]] /\ c = lev[h]
    BY <1>3, <1>5, <2>1
  <2>5. b < c
    BY <1>7, <2>1, <2>4
  <2>6. i = up \/ a < b
    BY <1>5, <2>1, <2>4
  <2>7. a < c
    BY <2>4, <2>5, <2>6
  <2> QED BY <2>1, <2>2, <2>3, <2>4, <2>7
<1>10. \A i \in 1..(up + 1) : r[i] \in Headlines(t) /\ r[i] <= h
  <2> SUFFICES ASSUME NEW i \in 1..(up + 1) PROVE r[i] \in Headlines(t) /\ r[i] <= h
    OBVIOUS
  <2>1. CASE i = up + 1
    BY <1>2, <1>8, <2>1
  <2>2. CASE i # up + 1
    <3>1. i \in 1..up
      BY <1>7, <2>2
    <3>2. r[i] = o[i] /\ o[i] < h /\ o[i] \in 1..n /\ o[i] \in Headlines(t)
      BY <1>8, <1>9, <3>1
    <3> QED BY <1>2, <3>2
  <2> QED BY <2>1, <2>2
<1>11. \A i, j \in 1..(up + 1) : i < j => r[i] < r[j] /\ lev[r[i]] < lev[r[j]]
  <2> SUFFICES ASSUME NEW i \in 1..(up + 1), NEW j \in 1..(up + 1), i < j
               PROVE  r[i] < r[j] /\ lev[r[i]] < lev[r[j]]
    OBVIOUS
  <2>1. i \in 1..up
    BY <1>7
  <2>2. CASE j = up + 1
    BY <1>8, <1>9, <2>1, <2>2
  <2>3. CASE j # up + 1
    <3>1. j \in 1..up
      BY <1>7, <2>3
    <3> QED BY <1>5, <1>8, <1>9, <2>1, <3>1
  <2> QED BY <2>2, <2>3
<1>12. ASSUME NEW g \in Headlines(t), g <= h,
              \A f \in Headlines(t) : g < f /\ f <= h => lev[g] < lev[f]
       PROVE  \E i \in 1..(up + 1) : r[i] = g
  <2>1. CASE g = h
    <3>1. up + 1 \in 1..(up + 1)
      BY <1>7
    <3> QED BY <1>8, <2>1, <3>1
  <2>2. CASE g # h
    <3>1. g <= h - 1 /\ g < h /\ h <= h
      BY <1>2, <1>12, <2>2
    <3>2. \A f \in Headlines(t) : g < f /\ f <= h - 1 => lev[g] < lev[f]
      <4> SUFFICES ASSUME NEW f \in Headlines(t), g < f, f <= h - 1 PROVE lev[g] < lev[f]
        OBVIOUS
      <4>1. f <= h
        BY <1>2
      <4> QED BY <1>12, <4>1
    <3>3. PICK i \in 1..l : o[i] = g
      BY <1>5, <3>1, <3>2
    <3>4. lev[g] < lev[h]
      BY <1>12, <3>1
    <3>5. i \in 1..up /\ i \in 1..(up + 1)
      BY <1>7, <3>3, <3>4
    <3> QED BY <1>8, <3>3, <3>5
  <2> QED BY <2>1, <2>2
<1>13. ASSUME NEW g \in Headlines(t), g <= h PROVE new.tree[g] = Parent(t, g)
  <2>1. Parent(t, h) = IF up = 0 THEN 0 ELSE o[up]
    BY <1>4, <1>32, HungBelowParent
  <2>2. new.tree = [s.tree EXCEPT ![h] = Parent(t, h)] /\ DOMAIN s.tree = Headlines(t)
    BY <1>6, <2>1 DEF Stages
  <2>4. CASE g = h
    BY <2>2, <2>4
  <2>5. CASE g # h
    <3>1. g <= h - 1
      BY <1>2, <1>13, <2>5
    <3> QED BY <1>5, <2>2, <2>5, <3>1
  <2> QED BY <2>4, <2>5
<1>14. new = Hang(t, s, h) /\ new.open = r
  BY <1>8, <1>32
<1>15. \A i, j \in DOMAIN new.open :
         i < j => new.open[i] < new.open[j] /\ t[new.open[i]].level < t[new.open[j]].level
  <2>1. \A i \in 1..(up + 1) : t[r[i]].level = lev[r[i]]
    BY <1>3, <1>10
  <2>2. \A i, j \in 1..(up + 1) : i < j => r[i] < r[j] /\ t[r[i]].level < t[r[j]].level
    BY <1>11, <2>1
  <2> QED BY <1>8, <1>14, <2>2
<1>16. \A g \in Headlines(t) :
         g <= h /\ (\A f \in Headlines(t) : g < f /\ f <= h => t[g].level < t[f].level)
         => \E i \in DOMAIN new.open : new.open[i] = g
  BY <1>3, <1>8, <1>12, <1>14
<1>17. \A i \in DOMAIN new.open : new.open[i] \in Headlines(t) /\ new.open[i] <= h
  BY <1>8, <1>10, <1>14
<1>18. \A g \in Headlines(t) : g <= h => new.tree[g] = Parent(t, g)
  BY <1>13, <1>14
<1>19. Opened(t, h, new)
  BY <1>15, <1>16, <1>17, <1>18 DEF Opened
<1> QED BY <1>14, <1>19

(* get_outline hangs every headline below its parent.                      *)
LEMMA OutlineIsTree ==
  ASSUME NEW t \in Texts
  PROVE  OutlineTree(t) = [h \in Headlines(t) |-> Parent(t, h)]
<1>1. PICK n \in Nat : n = Len(t) /\ DOMAIN t = 1..n
  BY PlacesIn
<1>2. PICK c : Grows(t, c) /\ OutlineTree(t) = c[Len(t)].tree
  BY OutlineGrows
<1>3. /\ c \in [0..n -> Stages(t)] /\ c[0] = Bare(t)
      /\ \A k \in 1..n : c[k] = Grown(t, c[k - 1], k)
  BY <1>1, <1>2 DEF Grows
<1>4. \A g \in Headlines(t) : g \in 1..n /\ t[g].kind = "head"
  BY <1>1, LevelsTyped
<1>5. Opened(t, 0, c[0])
  <2>1. c[0].open = <<>> /\ DOMAIN c[0].open = {}
    BY <1>3 DEF Bare
  <2>2. \A g \in Headlines(t) : ~ g <= 0
    BY <1>4
  <2> QED BY <2>1, <2>2 DEF Opened
<1>6. ASSUME NEW k \in 1..n, Opened(t, k - 1, c[k - 1]) PROVE Opened(t, k, c[k])
  <2>1. c[k - 1] \in Stages(t) /\ c[k] = Grown(t, c[k - 1], k)
    <3>1. k - 1 \in 0..n
      OBVIOUS
    <3> QED BY <1>3, <3>1
  <2>2. CASE t[k].kind = "head"
    <3>1. k \in Headlines(t)
      BY <1>1, <2>2 DEF Headlines
    <3>2. Opened(t, k, Hang(t, c[k - 1], k))
      BY <1>6, <2>1, <3>1, HangKeeps
    <3> QED BY <2>1, <2>2, <3>2 DEF Grown
  <2>3. CASE t[k].kind # "head"
    <3>1. c[k] = c[k - 1]
      BY <2>1, <2>3 DEF Grown
    <3>2. \A g \in Headlines(t) : g <= k <=> g <= k - 1
      <4> SUFFICES ASSUME NEW g \in Headlines(t) PROVE g <= k <=> g <= k - 1
        OBVIOUS
      <4>1. g \in 1..n /\ g # k
        BY <1>4, <2>3
      <4> QED BY <4>1
    <3>3. PICK s : s = c[k]
      OBVIOUS
    <3>4. Opened(t, k - 1, s)
      BY <1>6, <3>1, <3>3
    <3>5. \A i \in DOMAIN s.open : s.open[i] \in Headlines(t) /\ s.open[i] <= k
      BY <3>2, <3>4 DEF Opened
    <3>6. \A g \in Headlines(t) :
            g <= k /\ (\A f \in Headlines(t) : g < f /\ f <= k => t[g].level < t[f].level)
            => \E i \in DOMAIN s.open : s.open[i] = g
      BY <3>2, <3>4 DEF Opened
    <3>7. \A g \in Headlines(t) : g <= k => s.tree[g] = Parent(t, g)
      BY <3>2, <3>4 DEF Opened
    <3>8. \A i, j \in DOMAIN s.open :
            i < j => s.open[i] < s.open[j] /\ t[s.open[i]].level < t[s.open[j]].level
      BY <3>4 DEF Opened
    <3>9. Opened(t, k, s)
      BY <3>5, <3>6, <3>7, <3>8 DEF Opened
    <3> QED BY <3>3, <3>9
  <2> QED BY <2>2, <2>3
<1>7. Opened(t, n, c[n])
  <2> DEFINE Bad == {k \in 0..n : ~ Opened(t, k, c[k])}
  <2> SUFFICES ASSUME Bad # {} PROVE FALSE
    <3>1. n \in 0..n
      OBVIOUS
    <3> QED BY <3>1
  <2>1. PICK k \in Bad : \A j \in Bad : k <= j
    <3>1. Bad \subseteq Nat
      OBVIOUS
    <3> HIDE DEF Bad
    <3> QED BY <3>1, LeastExists
  <2>2. k \in 0..n /\ ~ Opened(t, k, c[k])
    BY <2>1
  <2>3. k # 0
    BY <1>5, <2>2
  <2>4. k \in 1..n /\ k - 1 \in 0..n /\ ~ k <= k - 1
    BY <2>2, <2>3
  <2>5. Opened(t, k - 1, c[k - 1])
    BY <2>1, <2>4
  <2> QED BY <1>6, <2>2, <2>4, <2>5
<1>8. PICK tree : tree = c[n].tree /\ tree \in [Headlines(t) -> {0} \cup DOMAIN t]
  <2>1. c[n] \in Stages(t)
    BY <1>3
  <2> QED BY <2>1 DEF Stages
<1>9. \A g \in Headlines(t) : tree[g] = Parent(t, g)
  BY <1>4, <1>7, <1>8 DEF Opened
<1> QED BY <1>1, <1>2, <1>8, <1>9

-----------------------------------------------------------------------------
(* Anchors                                                                 *)

(* The first line of a kind, if there is one.                              *)
LEMMA FirstOfThose ==
  ASSUME NEW t \in Texts, NEW S, S \subseteq 1..Len(t), S # {}
  PROVE  Min(S) \in S /\ Min(S) \in 1..Len(t) /\ \A i \in S : Min(S) <= i
<1>1. S \subseteq Nat
  BY PlacesIn
<1> QED BY <1>1, MinIsLeast

(* A headline of the text is found.                                        *)
LEMMA HeadlinesFound ==
  ASSUME NEW t \in Texts, NEW name
  PROVE  /\ (\E h \in Headlines(t) : Property(t, h, "CUSTOM_ID") = name) => ByCustomId(t, name).begin # 0
         /\ (\E h \in Headlines(t) : t[h].key = name) => ByHeadlineTitle(t, name).begin # 0
<1>1. ASSUME NEW S \in SUBSET Headlines(t), S # {} PROVE Least(S, 0) # 0
  <2>1. S \subseteq Nat /\ 0 \notin S
    BY PlacesIn
  <2> QED BY <1>1, <2>1, LeastOf
<1>2. ASSUME \E h \in Headlines(t) : Property(t, h, "CUSTOM_ID") = name
      PROVE  ByCustomId(t, name).begin # 0
  <2>1. PICK S \in SUBSET Headlines(t) : S = {h \in Headlines(t) : Property(t, h, "CUSTOM_ID") = name} /\ S # {}
    BY <1>2
  <2>2. HeadlineWith(t, "CUSTOM_ID", name) # 0
    BY <1>1, <2>1 DEF HeadlineWith
  <2> QED BY <2>2 DEF ByCustomId, ByHeadline, Found
<1>3. ASSUME \E h \in Headlines(t) : t[h].key = name
      PROVE  ByHeadlineTitle(t, name).begin # 0
  <2>1. PICK S \in SUBSET Headlines(t) : S = {h \in Headlines(t) : t[h].key = name} /\ S # {}
    BY <1>3
  <2>2. HeadlineTitled(t, name) # 0
    BY <1>1, <2>1 DEF HeadlineTitled
  <2> QED BY <2>2 DEF ByHeadlineTitle, ByHeadline, Found
<1> QED BY <1>2, <1>3

(* So is a target, and any text.                                           *)
LEMMA TextsFound ==
  ASSUME NEW t \in Texts, NEW name, NEW i \in DOMAIN t
  PROVE  /\ t[i].kind = "target" /\ t[i].key = name => ByMark(t, "target", name).begin # 0
         /\ name = t[i].key \/ Contains(t[i].val, name) => ByTextSearch(t, name).begin # 0
<1>1. PICK n \in Nat : n = Len(t) /\ DOMAIN t = 1..n /\ 0 \notin 1..n
  BY PlacesIn
<1>2. ASSUME t[i].kind = "target", t[i].key = name PROVE ByMark(t, "target", name).begin # 0
  <2>1. PICK S : S = {j \in 1..Len(t) : t[j].kind = "target" /\ t[j].key = name}
    OBVIOUS
  <2>2. S \subseteq 1..Len(t) /\ S # {}
    BY <1>1, <1>2, <2>1
  <2>3. Min(S) \in 1..Len(t)
    BY <2>2, FirstOfThose
  <2>4. ByMark(t, "target", name).begin = Min(S)
    BY <2>1, <2>2 DEF ByMark, SelectInSeq, Found
  <2> QED BY <1>1, <2>3, <2>4
<1>3. ASSUME name = t[i].key \/ Contains(t[i].val, name) PROVE ByTextSearch(t, name).begin # 0
  <2>1. PICK S : S = {j \in 1..Len(t) : name = t[j].key \/ Contains(t[j].val, name)}
    OBVIOUS
  <2>2. S \subseteq 1..Len(t) /\ S # {}
    BY <1>1, <1>3, <2>1
  <2>3. Min(S) \in 1..Len(t)
    BY <2>2, FirstOfThose
  <2>4. ByTextSearch(t, name).begin = Min(S)
    BY <2>1, <2>2 DEF ByTextSearch, SelectInSeq, Found
  <2> QED BY <1>1, <2>3, <2>4
<1> QED BY <1>2, <1>3

(* So is a #+name:, if there is something below it.                        *)
LEMMA NamesFound ==
  ASSUME NEW t \in Texts, NEW name, NEW i \in DOMAIN t, t[i] = Kw("name", <<name>>)
  PROVE  ByName(t, name).begin # 0 \/ NothingNamed(t, name)
<1>1. PICK n \in Nat : n = Len(t) /\ DOMAIN t = 1..n /\ 0 \notin 1..n
  BY PlacesIn
<1>2. PICK S : S = {j \in 1..Len(t) : t[j].kind = "kw" /\ t[j].key = "name" /\ t[j].val = <<name>>}
  OBVIOUS
<1>3. i \in S
  BY <1>1, <1>2 DEF Kw, Of
<1>4. S \subseteq 1..Len(t) /\ S # {}
  BY <1>2, <1>3
<1>5. PICK begin \in 1..n : begin = Min(S) /\ begin <= i
  BY <1>1, <1>3, <1>4, FirstOfThose
<1>6. PICK B : B = {j \in DOMAIN t : j > begin /\ t[j].kind \notin {"blank", "kw"}}
  OBVIOUS
<1>7. PICK body : body = Least(B, 0)
  OBVIOUS
<1>8. ByName(t, name) = IF begin = 0 \/ body = 0 THEN Found("name", 0, 0)
                        ELSE Found("name", begin, IF Breaks(t[body]) THEN body ELSE ParagraphEnd(t, body))
  BY <1>2, <1>4, <1>5, <1>6, <1>7 DEF ByName, SelectInSeq
<1>9. CASE body # 0
  <2>1. begin # 0
    BY <1>1
  <2> QED BY <1>8, <1>9, <2>1 DEF Found
<1>10. CASE body = 0
  <2>1. B \subseteq Nat /\ 0 \notin B
    BY <1>1, <1>6
  <2>2. B = {}
    <3>1. SUFFICES ASSUME B # {} PROVE FALSE
      OBVIOUS
    <3>2. Least(B, 0) \in B
      BY <2>1, <3>1, LeastOf
    <3> QED BY <1>7, <1>10, <2>1, <3>2
  <2>3. \A j \in (i + 1)..Len(t) : t[j].kind \in {"blank", "kw"}
    <3> SUFFICES ASSUME NEW j \in (i + 1)..Len(t), t[j].kind \notin {"blank", "kw"} PROVE FALSE
      OBVIOUS
    <3>1. j \in DOMAIN t /\ j > begin
      BY <1>1, <1>5
    <3>2. j \in B
      BY <1>6, <3>1
    <3> QED BY <2>2, <3>2
  <2> QED BY <2>3 DEF NothingNamed
<1> QED BY <1>9, <1>10

(* The first try that finds something is taken.                            *)
LEMMA FirstTryTaken ==
  ASSUME NEW t \in Texts, NEW name
  PROVE  /\ \/ ByCustomId(t, name).begin # 0 \/ ByHeadlineTitle(t, name).begin # 0
            \/ ByName(t, name).begin # 0 \/ ByMark(t, "target", name).begin # 0
            => Resolve(t, name).kind \notin {"none", "text_search"}
         /\ ByTextSearch(t, name).begin # 0 => Resolve(t, name).kind # "none"
<1>1. PICK r1, r2, r3, r4, r5, r6, r7, r8 :
        /\ r1 = ByCustomId(t, name) /\ r2 = ByHeadlineTitle(t, name) /\ r3 = ByName(t, name)
        /\ r4 = ByMark(t, "target", name) /\ r5 = ByMark(t, "radio", name)
        /\ r6 = ByMark(t, "coderef", name) /\ r7 = ByMark(t, "fn", name) /\ r8 = ByTextSearch(t, name)
  OBVIOUS
<1>2. /\ r1.kind = "custom_id" /\ r2.kind = "headline" /\ r3.kind = "name" /\ r4.kind = "target"
      /\ r5.kind = "radio" /\ r6.kind = "coderef" /\ r7.kind = "fn" /\ r8.kind = "text_search"
  <2>1. r1.kind = "custom_id" /\ r2.kind = "headline"
    BY <1>1 DEF ByCustomId, ByHeadlineTitle, ByHeadline, Found
  <2>2. r3.kind = "name"
    BY <1>1 DEF ByName, Found
  <2>3. r4.kind = "target" /\ r5.kind = "radio" /\ r6.kind = "coderef" /\ r7.kind = "fn"
    BY <1>1 DEF ByMark, Found
  <2>4. r8.kind = "text_search"
    BY <1>1 DEF ByTextSearch, Found
  <2> QED BY <2>1, <2>2, <2>3, <2>4
<1>3. PICK tried : tried = <<r1, r2, r3, r4, r5, r6, r7, r8>>
  OBVIOUS
<1>4. /\ DOMAIN tried = 1..8 /\ tried[1] = r1 /\ tried[2] = r2 /\ tried[3] = r3 /\ tried[4] = r4
      /\ tried[5] = r5 /\ tried[6] = r6 /\ tried[7] = r7 /\ tried[8] = r8
  BY <1>3
<1>5. PICK hits : hits = {k \in 1..8 : tried[k].begin # 0}
  OBVIOUS
<1>6. Resolve(t, name) = IF hits = {} THEN Found("none", 0, 0) ELSE tried[Min(hits)]
  BY <1>1, <1>3, <1>4, <1>5 DEF Resolve
<1>7. ASSUME hits # {} PROVE Min(hits) \in 1..8 /\ \A k \in hits : Min(hits) <= k
  <2>1. hits \subseteq Nat
    BY <1>5
  <2> QED BY <1>5, <1>7, <2>1, MinIsLeast
<1>8. \A k \in 1..8 : tried[k].kind # "none"
  BY <1>2, <1>4
<1>9. \A k \in 1..7 : tried[k].kind \notin {"none", "text_search"}
  BY <1>2, <1>4
<1>10. ASSUME NEW k \in 1..7, k \in hits PROVE Resolve(t, name).kind \notin {"none", "text_search"}
  <2>1. Min(hits) \in 1..7 /\ hits # {}
    BY <1>7, <1>10
  <2> QED BY <1>6, <1>9, <2>1
<1>11. ASSUME 8 \in hits PROVE Resolve(t, name).kind # "none"
  <2>1. Min(hits) \in 1..8 /\ hits # {}
    BY <1>7, <1>11
  <2> QED BY <1>6, <1>8, <2>1
<1>12. /\ r1.begin # 0 => 1 \in hits
       /\ r2.begin # 0 => 2 \in hits
       /\ r3.begin # 0 => 3 \in hits
       /\ r4.begin # 0 => 4 \in hits
       /\ r8.begin # 0 => 8 \in hits
  BY <1>4, <1>5
<1> QED BY <1>1, <1>10, <1>11, <1>12

(* Each anchor listed for a text is known in it.                           *)
LEMMA ListedIsKnown ==
  ASSUME NEW t \in Texts, NEW name \in AnchorsIn(t)
  PROVE  \/ Resolve(t, name).kind \notin {"none", "text_search"}
         \/ Resolve(t, name).kind = "text_search" /\ NothingNamed(t, name)
<1>1. CASE name \in {t[h].key : h \in Headlines(t)}
  <2>1. ByHeadlineTitle(t, name).begin # 0
    BY <1>1, HeadlinesFound
  <2> QED BY <2>1, FirstTryTaken
<1>2. CASE name \in {Property(t, h, "CUSTOM_ID") : h \in Headlines(t)}
  <2>1. ByCustomId(t, name).begin # 0
    BY <1>2, HeadlinesFound
  <2> QED BY <2>1, FirstTryTaken
<1>3. CASE name \in {t[i].key : i \in {j \in DOMAIN t : t[j].kind = "target"}}
  <2>1. ByMark(t, "target", name).begin # 0
    BY <1>3, TextsFound
  <2> QED BY <2>1, FirstTryTaken
<1>4. CASE name \in {t[i].val[1] : i \in {j \in DOMAIN t : t[j].kind = "kw" /\ t[j].key = "name"}}
  <2>1. PICK i \in DOMAIN t : t[i].kind = "kw" /\ t[i].key = "name" /\ t[i].val[1] = name
    BY <1>4
  <2>2. t[i] \in NoteLine
    BY DEF Texts
  <2>3. PICK val \in Seq(Vocabulary) : val = t[i].val /\ Len(val) = 1
    BY <2>1, <2>2 DEF NoteLine, Line
  <2>4. val = <<name>>
    BY <2>1, <2>3
  <2>5. t[i].level = 0
    <3>1. t[i].level \in Nat /\ ~ t[i].level > 0
      BY <2>1, <2>2 DEF NoteLine, Line
    <3> QED BY <3>1
  <2>6. t[i] = Kw("name", <<name>>)
    <3>1. t[i] \in Line
      BY <2>2 DEF NoteLine
    <3>2. t[i] = [kind |-> t[i].kind, level |-> t[i].level, key |-> t[i].key, val |-> t[i].val]
      BY <3>1 DEF Line
    <3> QED BY <2>1, <2>3, <2>4, <2>5, <3>2 DEF Kw, Of
  <2>7. ByName(t, name).begin # 0 \/ NothingNamed(t, name)
    BY <2>6, NamesFound
  <2>8. Contains(t[i].val, name)
    BY <2>3, <2>4 DEF Contains
  <2>9. ByTextSearch(t, name).begin # 0
    BY <2>8, TextsFound
  <2> QED BY <2>7, <2>9, FirstTryTaken
<1> QED BY <1>1, <1>2, <1>3, <1>4 DEF AnchorsIn

(* Whatever the calls made of a note, list_anchors and get_node_section    *)
(* agree on its anchors, and get_outline with orgize on its headlines.     *)
THEOREM ReadersAgree == Spec => []ReadToolsAgree
<1>1. TypeOK => ReadToolsAgree
  <2> SUFFICES ASSUME TypeOK PROVE ReadToolsAgree
    OBVIOUS
  <2>1. text \in Texts
    BY DEF TypeOK, Texts
  <2>2. OutlineTree(text) = [h \in Headlines(text) |-> Parent(text, h)]
    BY <2>1, OutlineIsTree
  <2>3. ASSUME NEW id PROVE NodeBody(text, id) \in Texts
    <3>1. PICK h : h = HeadlineById(text, id)
      OBVIOUS
    <3>2. CASE known[id] = "file" \/ h = 0
      BY <2>1, <3>1, <3>2 DEF NodeBody
    <3>3. CASE ~(known[id] = "file" \/ h = 0)
      <4>1. h \in Headlines(text)
        <5>1. PICK S \in SUBSET Headlines(text) : h = Least(S, 0)
          BY <3>1 DEF HeadlineById, HeadlineWith
        <5>2. S \subseteq Nat
          BY <2>1, PlacesIn
        <5> QED BY <3>3, <5>1, <5>2, LeastOf
      <4>2. PICK n \in Nat : n = Len(text) /\ DOMAIN text = 1..n
        BY <2>1, PlacesIn
      <4>3. h \in 1..n
        BY <2>1, <4>1, <4>2, PlacesIn
      <4>4. PICK e \in 1..(n + 1) : e = SubtreeEnd(text, h)
        BY <2>1, <4>2, PlacesIn
      <4>5. \A i \in h..(e - 1) : text[i] \in NoteLine
        BY <2>1, <4>2, <4>3 DEF Texts
      <4>6. h \in Int /\ e - 1 \in Int
        BY <4>3
      <4>7. SubSeq(text, h, e - 1) \in Seq(NoteLine)
        BY <4>5, <4>6, SubSeqProperties
      <4> QED BY <3>1, <3>3, <4>4, <4>7 DEF NodeBody, Texts
    <3> QED BY <3>2, <3>3
  <2>4. ASSUME NEW id, NEW name \in ListAnchors(text, id)
        PROVE  \/ Resolve(NodeBody(text, id), name).kind \notin {"none", "text_search"}
               \/ /\ Resolve(NodeBody(text, id), name).kind = "text_search"
                  /\ NothingNamed(NodeBody(text, id), name)
    BY <2>3, ListedIsKnown DEF ListAnchors
  <2> QED BY <2>2, <2>4 DEF ReadToolsAgree
<1> QED BY <1>1, TextsStayTexts, PTL
-----------------------------------------------------------------------------
(* Tags                                                                    *)

(* m takes some places of a text to places of another, in order, with what *)
(* is there.                                                               *)
Moves(m, s, at, r, bt) ==
  /\ m \in [at -> bt]
  /\ \A i, j \in at : i < j => m[i] < m[j]
  /\ \A k \in bt : \E i \in at : m[i] = k
  /\ \A i \in at : r[m[i]] = s[i]

(* There is one way to go through numbers from the least one on.           *)
LEMMA AscendsOneWay ==
  ASSUME NEW n \in Nat, NEW at, at \subseteq Nat, n = Cardinality(at),
         NEW f, Ascends(f, at), NEW g, Ascends(g, at)
  PROVE  f = g
<1>1. /\ f \in [1..n -> at] /\ \A k, l \in 1..n : k < l => f[k] < f[l]
      /\ \A i \in at : \E k \in 1..n : f[k] = i
  BY DEF Ascends
<1>2. /\ g \in [1..n -> at] /\ \A k, l \in 1..n : k < l => g[k] < g[l]
      /\ \A i \in at : \E k \in 1..n : g[k] = i
  BY DEF Ascends
<1> DEFINE Bad == {k \in 1..n : f[k] # g[k]}
<1>3. Bad = {}
  <2>1. SUFFICES ASSUME Bad # {} PROVE FALSE
    OBVIOUS
  <2>2. PICK k \in 1..n : f[k] # g[k] /\ \A l \in 1..n : f[l] # g[l] => k <= l
    <3>1. Bad \subseteq Nat
      OBVIOUS
    <3>2. PICK k \in Bad : \A l \in Bad : k <= l
      <4> HIDE DEF Bad
      <4> QED BY <2>1, <3>1, LeastExists
    <3> QED BY <3>2
  <2>3. \A l \in 1..n : l < k => f[l] = g[l]
    BY <2>2
  <2>4. f[k] \in Nat /\ g[k] \in Nat /\ \A l \in 1..n : f[l] \in Nat /\ g[l] \in Nat
    BY <1>1, <1>2
  <2>5. CASE f[k] < g[k]
    <3>1. PICK l \in 1..n : g[l] = f[k]
      BY <1>1, <1>2
    <3>2. l < k
      BY <1>2, <2>4, <2>5, <3>1
    <3> QED BY <1>1, <2>3, <2>4, <3>1, <3>2
  <2>6. CASE g[k] < f[k]
    <3>1. PICK l \in 1..n : f[l] = g[k]
      BY <1>1, <1>2
    <3>2. l < k
      BY <1>1, <2>4, <2>6, <3>1
    <3> QED BY <1>2, <2>3, <2>4, <3>1, <3>2
  <2> QED BY <2>2, <2>4, <2>5, <2>6
<1> QED BY <1>1, <1>2, <1>3

(* As many numbers are gone through as there are.                          *)
LEMMA AscendsAll ==
  ASSUME NEW n \in Nat, NEW at, at \subseteq Nat, NEW f \in [1..n -> at],
         \A k, l \in 1..n : k < l => f[k] < f[l],
         \A i \in at : \E k \in 1..n : f[k] = i
  PROVE  Cardinality(at) = n /\ Ascends(f, at)
<1>1. \A k, l \in 1..n : f[k] = f[l] => k = l
  <2> SUFFICES ASSUME NEW k \in 1..n, NEW l \in 1..n, f[k] = f[l] PROVE k = l
    OBVIOUS
  <2>1. PICK x \in Nat : x = f[k] /\ x = f[l]
    OBVIOUS
  <2>2. k < l => x < x
    BY <2>1
  <2>3. l < k => x < x
    BY <2>1
  <2> QED BY <2>2, <2>3
<1>2. f \in Bijection(1..n, at)
  BY <1>1 DEF Bijection, Injection, Surjection, IsInjective
<1>3. Cardinality(at) = n
  BY <1>2, FS_CountingElements DEF ExistsBijection
<1> QED BY <1>3 DEF Ascends

(* Picked takes the n lines that f goes through.                           *)
Takes(f, s, at, n) == Cardinality(at) = n /\ Ascends(f, at) /\ Picked(s, at) = [k \in 1..n |-> s[f[k]]]

(* There are such.                                                         *)
LEMMA PickedTakes ==
  ASSUME NEW S, NEW s \in Seq(S), NEW at, at \subseteq DOMAIN s
  PROVE  \E n \in Nat : \E f : Takes(f, s, at, n)
<1>1. PICK n \in Nat : n = Cardinality(at)
  BY PickedIs
<1>2. PICK f : Ascends(f, at) /\ Picked(s, at) = [k \in 1..n |-> s[f[k]]]
  BY <1>1, PickedIs
<1>3. Takes(f, s, at, n)
  BY <1>1, <1>2 DEF Takes
<1> QED BY <1>3

(* What is picked from a text is picked from one that has it moved.        *)
LEMMA PickedMoves ==
  ASSUME NEW S, NEW s \in Seq(S), NEW at, at \subseteq DOMAIN s,
         NEW R, NEW r \in Seq(R), NEW bt, bt \subseteq DOMAIN r, NEW m, Moves(m, s, at, r, bt)
  PROVE  Picked(r, bt) = Picked(s, at)
<1>1. at \subseteq Nat /\ bt \subseteq Nat
  OBVIOUS
<1>2. PICK n \in Nat : n = Cardinality(at)
  BY PickedIs
<1>3. PICK f : Ascends(f, at) /\ Picked(s, at) = [k \in 1..n |-> s[f[k]]]
  BY <1>2, PickedIs
<1>4. f \in [1..n -> at] /\ (\A k, l \in 1..n : k < l => f[k] < f[l]) /\ \A i \in at : \E k \in 1..n : f[k] = i
  BY <1>2, <1>3 DEF Ascends
<1>5. PICK h : h = [k \in 1..n |-> m[f[k]]]
  OBVIOUS
<1>6. /\ h \in [1..n -> bt] /\ (\A k, l \in 1..n : k < l => h[k] < h[l])
      /\ \A j \in bt : \E k \in 1..n : h[k] = j
  <2>1. m \in [at -> bt] /\ (\A i, j \in at : i < j => m[i] < m[j]) /\ \A j \in bt : \E i \in at : m[i] = j
    BY DEF Moves
  <2>2. h \in [1..n -> bt]
    BY <1>4, <1>5, <2>1
  <2>3. ASSUME NEW k \in 1..n, NEW l \in 1..n, k < l PROVE h[k] < h[l]
    <3>1. f[k] \in at /\ f[l] \in at /\ f[k] < f[l]
      BY <1>4, <2>3
    <3>2. m[f[k]] < m[f[l]]
      BY <2>1, <3>1
    <3> QED BY <1>5, <3>2
  <2>4. ASSUME NEW j \in bt PROVE \E k \in 1..n : h[k] = j
    <3>1. PICK i \in at : m[i] = j
      BY <2>1
    <3>2. PICK k \in 1..n : f[k] = i
      BY <1>4
    <3> QED BY <1>5, <3>1, <3>2
  <2> QED BY <2>2, <2>3, <2>4
<1>7. Cardinality(bt) = n /\ Ascends(h, bt)
  BY <1>1, <1>6, AscendsAll
<1>8. PICK g : Ascends(g, bt) /\ Picked(r, bt) = [k \in 1..n |-> r[g[k]]]
  BY <1>7, PickedIs
<1>9. g = h
  BY <1>1, <1>7, <1>8, AscendsOneWay
<1>10. \A k \in 1..n : r[h[k]] = s[f[k]]
  BY <1>4, <1>5 DEF Moves
<1> QED BY <1>3, <1>8, <1>9, <1>10

(* The places of at whose lines are in S. *)
Kept(kept, s, at, S) == kept = {i \in at : s[i] \in S}

(* So is what is picked by what the lines are.                             *)
LEMMA MovesKeep ==
  ASSUME NEW s, NEW at, at \subseteq Nat, NEW r, NEW bt, NEW m, Moves(m, s, at, r, bt),
         NEW S, NEW kept, Kept(kept, s, at, S), NEW kept2, Kept(kept2, r, bt, S)
  PROVE  \E w : Moves(w, s, kept, r, kept2)
<1>6. kept = {i \in at : s[i] \in S} /\ kept2 = {i \in bt : r[i] \in S}
  BY DEF Kept
<1>1. PICK w : w = [i \in kept |-> m[i]]
  OBVIOUS
<1>2. w \in [kept -> kept2]
  BY <1>1, <1>6 DEF Moves
<1>3. \A i, j \in kept : i < j => w[i] < w[j]
  BY <1>1, <1>6 DEF Moves
<1>4. \A k \in kept2 : \E i \in kept : w[i] = k
  BY <1>1, <1>6 DEF Moves
<1>5. \A i \in kept : r[w[i]] = s[i]
  BY <1>1, <1>6 DEF Moves
<1> QED BY <1>2, <1>3, <1>4, <1>5 DEF Moves

(* c has the k lines of a and then the l lines of b. *)
Joins(c, a, k, b, l) ==
  /\ c \in Texts /\ Len(c) = k + l
  /\ \A i \in 1..k : c[i] = a[i]
  /\ \A i \in 1..l : c[k + i] = b[i]

(* One text after another.                                                 *)
LEMMA JoinIs ==
  ASSUME NEW a \in Texts, NEW b \in Texts, NEW k \in Nat, k = Len(a), NEW l \in Nat, l = Len(b)
  PROVE  Joins(a \o b, a, k, b, l)
<1>1. /\ a \o b \in Seq(NoteLine) /\ Len(a \o b) = Len(a) + Len(b)
      /\ \A i \in 1..(Len(a) + Len(b)) : (a \o b)[i] = IF i <= Len(a) THEN a[i] ELSE b[i - Len(a)]
  <2>1. a \in Seq(NoteLine) /\ b \in Seq(NoteLine)
    BY DEF Texts
  <2> QED BY <2>1, ConcatProperties
<1>2. PICK c : /\ c = a \o b /\ c \in Texts /\ Len(c) = k + l
               /\ \A i \in 1..(k + l) : c[i] = IF i <= k THEN a[i] ELSE b[i - k]
  BY <1>1 DEF Texts
<1>3. \A i \in 1..k : c[i] = a[i]
  BY <1>2
<1>4. ASSUME NEW i \in 1..l PROVE c[k + i] = b[i]
  <2>1. PICK j \in 1..(k + l) : j = k + i /\ ~ j <= k /\ j - k = i
    OBVIOUS
  <2> QED BY <1>2, <2>1
<1> QED BY <1>2, <1>3, <1>4 DEF Joins

(* a has the lines of a text in front of a place, b those from there on.   *)
Parts(t, at, n, a, b) ==
  /\ a = SubSeq(t, 1, at - 1) /\ a \in Texts /\ Len(a) = at - 1 /\ \A j \in 1..(at - 1) : a[j] = t[j]
  /\ b = SubSeq(t, at, Len(t)) /\ b \in Texts /\ Len(b) = n + 1 - at
  /\ \A j \in 1..(n + 1 - at) : b[j] = t[at + j - 1]

(* Each place has them.                                                    *)
LEMMA PartsIs ==
  ASSUME NEW t \in Texts, NEW n \in Nat, n = Len(t), NEW at \in 1..(n + 1)
  PROVE  \E a, b : Parts(t, at, n, a, b)
<1>1. t \in Seq(NoteLine) /\ at \in 1..(Len(t) + 1)
  BY DEF Texts
<1>2. /\ SubSeq(t, 1, at - 1) \in Seq(NoteLine) /\ Len(SubSeq(t, 1, at - 1)) = at - 1
      /\ \A j \in 1..(at - 1) : SubSeq(t, 1, at - 1)[j] = t[j]
      /\ SubSeq(t, at, Len(t)) \in Seq(NoteLine) /\ Len(SubSeq(t, at, Len(t))) = Len(t) + 1 - at
      /\ \A j \in 1..(Len(t) + 1 - at) : SubSeq(t, at, Len(t))[j] = t[at + j - 1]
  BY <1>1, PartsTyped
<1>3. PICK a : a = SubSeq(t, 1, at - 1)
  OBVIOUS
<1>4. PICK b : b = SubSeq(t, at, Len(t))
  OBVIOUS
<1>5. Parts(t, at, n, a, b)
  BY <1>2, <1>3, <1>4 DEF Parts, Texts
<1> QED BY <1>5

(* u is a text of n lines with l lines put in at a place. *)
PutIn(u, t, n, at, lines, l) ==
  /\ u \in Texts /\ Len(u) = n + l
  /\ \A i \in 1..(at - 1) : u[i] = t[i]
  /\ \A i \in 1..l : u[at - 1 + i] = lines[i]
  /\ \A i \in at..n : u[i + l] = t[i]

(* Lines put in move those below.                                          *)
LEMMA SpliceIs ==
  ASSUME NEW t \in Texts, NEW n \in Nat, n = Len(t), NEW lines \in Texts, NEW l \in Nat, l = Len(lines),
         NEW at \in 1..(n + 1)
  PROVE  PutIn(Splice(t, at, lines), t, n, at, lines, l)
<1>1. PICK a, b : Parts(t, at, n, a, b)
  BY PartsIs
<1>2. PICK k \in Nat : k = at - 1
  OBVIOUS
<1>14. PICK r \in Nat : r = n + 1 - at
  OBVIOUS
<1>3. /\ a \in Texts /\ k = Len(a) /\ (\A j \in 1..k : a[j] = t[j])
      /\ b \in Texts /\ r = Len(b) /\ \A j \in 1..r : b[j] = t[at + j - 1]
  BY <1>1, <1>2, <1>14 DEF Parts
<1>4. PICK c : c = a \o lines /\ Joins(c, a, k, lines, l)
  BY <1>3, JoinIs
<1>5. PICK m \in Nat : m = k + l
  OBVIOUS
<1>6. c \in Texts /\ m = Len(c) /\ (\A i \in 1..k : c[i] = a[i]) /\ \A i \in 1..l : c[k + i] = lines[i]
  BY <1>4, <1>5 DEF Joins
<1>7. PICK u : u = c \o b /\ Joins(u, c, m, b, r)
  BY <1>3, <1>6, JoinIs
<1>8. u \in Texts /\ Len(u) = m + r /\ (\A i \in 1..m : u[i] = c[i]) /\ \A i \in 1..r : u[m + i] = b[i]
  BY <1>7 DEF Joins
<1>9. u = Splice(t, at, lines)
  BY <1>1, <1>4, <1>7 DEF Splice, Parts
<1>10. m + r = n + l
  BY <1>2, <1>5, <1>14
<1>11. ASSUME NEW i \in 1..(at - 1) PROVE u[i] = t[i]
  <2>1. i \in 1..k /\ i \in 1..m
    BY <1>2, <1>5
  <2> QED BY <1>3, <1>6, <1>8, <2>1
<1>12. ASSUME NEW i \in 1..l PROVE u[at - 1 + i] = lines[i]
  <2>1. at - 1 + i = k + i /\ k + i \in 1..m
    BY <1>2, <1>5
  <2> QED BY <1>6, <1>8, <2>1
<1>13. ASSUME NEW i \in at..n PROVE u[i + l] = t[i]
  <2>1. PICK j \in 1..r : j = i + 1 - at
    BY <1>14
  <2>2. at + j - 1 = i /\ m + j = i + l
    BY <1>2, <1>5, <2>1
  <2>3. u[m + j] = b[j] /\ b[j] = t[at + j - 1]
    BY <1>3, <1>8
  <2> QED BY <2>2, <2>3
<1> QED BY <1>8, <1>9, <1>10, <1>11, <1>12, <1>13 DEF PutIn

(* u is a text of n lines without d lines from a place on. *)
TakenOut(u, t, n, at, d) ==
  /\ u \in Texts /\ Len(u) = n - d
  /\ \A i \in 1..(at - 1) : u[i] = t[i]
  /\ \A i \in (at + d)..n : u[i - d] = t[i]

(* Lines cut out move those below, too.                                    *)
LEMMA CutIs ==
  ASSUME NEW t \in Texts, NEW n \in Nat, n = Len(t), NEW at \in 1..(n + 1), NEW end \in at..(n + 1),
         NEW d \in Nat, d = end - at
  PROVE  TakenOut(Cut(t, at, end), t, n, at, d)
<1>1. end \in 1..(n + 1)
  OBVIOUS
<1>2. PICK a, a2 : Parts(t, at, n, a, a2)
  BY PartsIs
<1>3. PICK b2, b : Parts(t, end, n, b2, b)
  BY <1>1, PartsIs
<1>4. PICK k \in Nat : k = at - 1
  OBVIOUS
<1>13. PICK r \in Nat : r = n + 1 - end
  BY <1>1
<1>5. a \in Texts /\ k = Len(a) /\ \A j \in 1..k : a[j] = t[j]
  BY <1>2, <1>4 DEF Parts
<1>6. b \in Texts /\ r = Len(b) /\ \A j \in 1..r : b[j] = t[end + j - 1]
  BY <1>3, <1>13 DEF Parts
<1>7. PICK u : u = a \o b /\ Joins(u, a, k, b, r)
  BY <1>5, <1>6, JoinIs
<1>8. u \in Texts /\ Len(u) = k + r /\ (\A i \in 1..k : u[i] = a[i]) /\ \A i \in 1..r : u[k + i] = b[i]
  BY <1>7 DEF Joins
<1>9. u = Cut(t, at, end)
  BY <1>2, <1>3, <1>7 DEF Cut, Parts
<1>10. k + r = n - d
  BY <1>4, <1>13
<1>11. \A i \in 1..(at - 1) : u[i] = t[i]
  BY <1>4, <1>5, <1>8
<1>12. ASSUME NEW i \in (at + d)..n PROVE u[i - d] = t[i]
  <2>1. PICK j \in 1..r : j = i + 1 - end
    BY <1>13
  <2>2. k + j = i - d /\ end + j - 1 = i
    BY <1>4, <2>1
  <2>3. u[k + j] = b[j] /\ b[j] = t[end + j - 1]
    BY <1>6, <1>8
  <2> QED BY <2>2, <2>3
<1> QED BY <1>8, <1>9, <1>10, <1>11, <1>12 DEF TakenOut

(* One line in, changed or out: the others are moved.                      *)
LEMMA LineEditsMove ==
  ASSUME NEW t \in Texts, NEW l \in NoteLine
  PROVE  /\ \A at \in 1..(Len(t) + 1) : \A u : u = InsertAt(t, at, l) =>
              /\ u \in Texts /\ Len(u) = Len(t) + 1 /\ u[at] = l
              /\ \E m : Moves(m, t, 1..Len(t), u, 1..Len(u) \ {at})
         /\ \A at \in DOMAIN t : \A u : u = ReplaceAt(t, at, l) =>
              /\ u \in Texts /\ Len(u) = Len(t) /\ u[at] = l
              /\ \E m : Moves(m, t, 1..Len(t) \ {at}, u, 1..Len(u) \ {at})
         /\ \A at \in DOMAIN t : \A u : u = RemoveAt(t, at) =>
              /\ u \in Texts /\ Len(u) = Len(t) - 1
              /\ \E m : Moves(m, t, 1..Len(t) \ {at}, u, 1..Len(u))
<1>1. PICK n \in Nat : n = Len(t) /\ DOMAIN t = 1..n
  BY PlacesIn
<1>2. ASSUME NEW at \in 1..(Len(t) + 1), NEW u, u = InsertAt(t, at, l)
      PROVE  /\ u \in Texts /\ Len(u) = Len(t) + 1 /\ u[at] = l
             /\ \E m : Moves(m, t, 1..Len(t), u, 1..Len(u) \ {at})
  <2>1. PICK lines : lines = <<l>>
    OBVIOUS
  <2>2. u = Splice(t, at, lines)
    BY <1>2, <2>1 DEF InsertAt, Splice
  <2>3. /\ u \in Texts /\ Len(u) = n + 1
        /\ \A i \in 1..(at - 1) : u[i] = t[i]
        /\ \A i \in 1..1 : u[at - 1 + i] = lines[i]
        /\ \A i \in at..n : u[i + 1] = t[i]
    <3>1. lines \in Texts /\ 1 = Len(lines) /\ at \in 1..(n + 1) /\ 1 \in Nat
      BY <1>1, <2>1 DEF Texts
    <3>2. PutIn(Splice(t, at, lines), t, n, at, lines, 1)
      BY <1>1, <3>1, SpliceIs
    <3> QED BY <2>2, <3>2 DEF PutIn
  <2>4. u[at] = l
    <3>1. 1 \in 1..1 /\ at - 1 + 1 = at
      OBVIOUS
    <3> QED BY <2>1, <2>3, <3>1
  <2>5. PICK m : m = [i \in 1..n |-> IF i < at THEN i ELSE i + 1]
    OBVIOUS
  <2>6. m \in [1..n -> 1..(n + 1) \ {at}]
    BY <1>1, <2>5
  <2>7. \A i, j \in 1..n : i < j => m[i] < m[j]
    BY <1>1, <2>5
  <2>8. ASSUME NEW k \in 1..(n + 1) \ {at} PROVE \E i \in 1..n : m[i] = k
    <3>1. CASE k < at
      <4>1. k \in 1..n
        BY <1>1, <3>1
      <4> QED BY <2>5, <3>1, <4>1
    <3>2. CASE k > at
      <4>1. k - 1 \in 1..n /\ ~ k - 1 < at /\ k - 1 + 1 = k
        BY <1>1, <3>2
      <4> QED BY <2>5, <4>1
    <3> QED BY <1>1, <3>1, <3>2
  <2>9. \A i \in 1..n : u[m[i]] = t[i]
    BY <1>1, <2>3, <2>5
  <2> QED BY <1>1, <2>3, <2>4, <2>6, <2>7, <2>8, <2>9 DEF Moves
<1>3. ASSUME NEW at \in DOMAIN t, NEW u, u = ReplaceAt(t, at, l)
      PROVE  /\ u \in Texts /\ Len(u) = Len(t) /\ u[at] = l
             /\ \E m : Moves(m, t, 1..Len(t) \ {at}, u, 1..Len(u) \ {at})
  <2>1. u \in Texts /\ Len(u) = n /\ u[at] = l /\ \A i \in 1..n \ {at} : u[i] = t[i]
    BY <1>1, <1>3 DEF ReplaceAt, Texts
  <2>2. PICK m : m = [i \in 1..n \ {at} |-> i]
    OBVIOUS
  <2>3. Moves(m, t, 1..n \ {at}, u, 1..n \ {at})
    BY <2>1, <2>2 DEF Moves
  <2> QED BY <1>1, <2>1, <2>3
<1>4. ASSUME NEW at \in DOMAIN t, NEW u, u = RemoveAt(t, at)
      PROVE  /\ u \in Texts /\ Len(u) = Len(t) - 1
             /\ \E m : Moves(m, t, 1..Len(t) \ {at}, u, 1..Len(u))
  <2>1. at \in 1..(n + 1) /\ at + 1 \in at..(n + 1) /\ 1 = (at + 1) - at /\ 1 \in Nat
    BY <1>1
  <2>2. u = Cut(t, at, at + 1)
    BY <1>4 DEF RemoveAt, Cut
  <2>3. TakenOut(u, t, n, at, 1)
    BY <1>1, <2>1, <2>2, CutIs
  <2>4. u \in Texts /\ Len(u) = n - 1 /\ (\A i \in 1..(at - 1) : u[i] = t[i]) /\ \A i \in (at + 1)..n : u[i - 1] = t[i]
    BY <2>3 DEF TakenOut
  <2>5. PICK m : m = [i \in 1..n \ {at} |-> IF i < at THEN i ELSE i - 1]
    OBVIOUS
  <2>6. m \in [1..n \ {at} -> 1..(n - 1)]
    BY <1>1, <2>5
  <2>7. \A i, j \in 1..n \ {at} : i < j => m[i] < m[j]
    BY <1>1, <2>5
  <2>8. ASSUME NEW k \in 1..(n - 1) PROVE \E i \in 1..n \ {at} : m[i] = k
    <3>1. CASE k < at
      <4>1. k \in 1..n \ {at}
        BY <1>1, <3>1
      <4> QED BY <2>5, <3>1, <4>1
    <3>2. CASE ~ k < at
      <4>1. k + 1 \in 1..n \ {at} /\ ~ k + 1 < at /\ k + 1 - 1 = k
        BY <1>1, <3>2
      <4> QED BY <2>5, <4>1
    <3> QED BY <3>1, <3>2
  <2>9. \A i \in 1..n \ {at} : u[m[i]] = t[i]
    BY <1>1, <2>4, <2>5
  <2> QED BY <1>1, <2>4, <2>6, <2>7, <2>8, <2>9 DEF Moves
<1> QED BY <1>2, <1>3, <1>4

KeywordAt(t, key) == {i \in DOMAIN t : t[i].kind = "kw" /\ t[i].key = key}
Others(t, key)    == DOMAIN t \ KeywordAt(t, key)

(* There is one line of a keyword at most, above the headlines. *)
OnceAbove(t, key) ==
  /\ \A i, j \in KeywordAt(t, key) : i = j
  /\ \A i \in KeywordAt(t, key), h \in Headlines(t) : i < h

(* u is a text that has a keyword as asked, and every other line of t. *)
KeywordSet(t, key, val, u) ==
  /\ u \in Texts
  /\ \E m : Moves(m, t, Others(t, key), u, Others(u, key))
  /\ IF val = <<>> THEN KeywordAt(u, key) = {}
     ELSE \E p \in DOMAIN u : KeywordAt(u, key) = {p} /\ u[p] = Kw(key, val)

(* What is above the first headline is above all of them.                  *)
LEMMA AboveHeadlines ==
  ASSUME NEW t \in Texts, NEW i \in DOMAIN t
  PROVE  i < FirstHeadline(t) <=> \A h \in Headlines(t) : i < h
<1>1. PICK n \in Nat : n = Len(t) /\ DOMAIN t = 1..n /\ Headlines(t) \subseteq 1..n
  BY PlacesIn
<1>2. PICK S : S = {h \in Headlines(t) : h > 0}
  OBVIOUS
<1>3. S = Headlines(t) /\ S \subseteq Nat
  BY <1>1, <1>2
<1>4. PICK none \in Nat : none = n + 1
  OBVIOUS
<1>5. FirstHeadline(t) = Least(S, none)
  BY <1>1, <1>2, <1>4 DEF FirstHeadline, NextHeadline
<1>6. \/ S = {} /\ Least(S, none) = none
      \/ S # {} /\ Least(S, none) \in S /\ \A x \in S : Least(S, none) <= x
  BY <1>3, LeastOf
<1>7. CASE S = {}
  BY <1>1, <1>3, <1>4, <1>5, <1>6, <1>7
<1>8. CASE S # {}
  <2>1. PICK first \in Nat : first = FirstHeadline(t) /\ first \in S /\ \A x \in S : x \in Nat /\ first <= x
    BY <1>3, <1>5, <1>6, <1>8
  <2>2. i \in Nat
    BY <1>1
  <2> QED BY <1>3, <2>1, <2>2
<1> QED BY <1>7, <1>8

(* If a keyword's lines are moved away, and one is put in or none.         *)
LEMMA OthersAre ==
  ASSUME NEW t \in Texts, NEW u \in Texts, NEW key, NEW m, NEW bt, bt \subseteq DOMAIN u,
         Moves(m, t, Others(t, key), u, bt)
  PROVE  /\ bt = DOMAIN u => KeywordAt(u, key) = {} /\ Others(u, key) = bt
         /\ \A p \in DOMAIN u : bt = DOMAIN u \ {p} /\ u[p].kind = "kw" /\ u[p].key = key =>
              KeywordAt(u, key) = {p} /\ Others(u, key) = bt
<1>1. ASSUME NEW k \in bt PROVE k \notin KeywordAt(u, key)
  <2>1. PICK i \in Others(t, key) : m[i] = k /\ u[k] = t[i]
    BY DEF Moves
  <2> QED BY <2>1 DEF Others, KeywordAt
<1>2. KeywordAt(u, key) \subseteq DOMAIN u
  BY DEF KeywordAt
<1>3. ASSUME bt = DOMAIN u PROVE KeywordAt(u, key) = {} /\ Others(u, key) = bt
  BY <1>1, <1>2, <1>3 DEF Others
<1>4. ASSUME NEW p \in DOMAIN u, bt = DOMAIN u \ {p}, u[p].kind = "kw", u[p].key = key
      PROVE  KeywordAt(u, key) = {p} /\ Others(u, key) = bt
  <2>1. p \in KeywordAt(u, key)
    BY <1>4 DEF KeywordAt
  <2> QED BY <1>1, <1>2, <1>4, <2>1 DEF Others
<1> QED BY <1>3, <1>4

(* SetKeyword does so, for a keyword that is there once at most.           *)
LEMMA SetKeywordSets ==
  ASSUME NEW t \in Texts, NEW key, NEW val, val # <<>> => Kw(key, val) \in NoteLine, OnceAbove(t, key),
         NEW u, u = SetKeyword(t, key, val)
  PROVE  KeywordSet(t, key, val, u)
<1>1. PICK n \in Nat : n = Len(t) /\ DOMAIN t = 1..n
  BY PlacesIn
<1>2. PICK pe \in 1..(n + 1) : pe = FirstHeadline(t)
  BY <1>1, PlacesIn
<1>3. PICK S : S = {i \in 1..(pe - 1) : t[i].kind = "kw" /\ t[i].key = key}
  OBVIOUS
<1>4. S = KeywordAt(t, key)
  <2>1. \A i \in KeywordAt(t, key) : i \in DOMAIN t /\ i < pe
    BY <1>2, AboveHeadlines DEF OnceAbove, KeywordAt
  <2>2. \A i \in KeywordAt(t, key) : i \in 1..(pe - 1)
    BY <1>1, <2>1
  <2>3. 1..(pe - 1) \subseteq DOMAIN t
    BY <1>1
  <2> QED BY <1>3, <2>2, <2>3 DEF KeywordAt
<1>5. PICK at : at = Least(S, 0)
  OBVIOUS
<1>6. \/ S = {} /\ at = 0
      \/ S = {at} /\ at \in DOMAIN t /\ at # 0
  <2>1. S \subseteq Nat /\ 0 \notin S /\ S \subseteq DOMAIN t
    BY <1>1, <1>3
  <2>2. \/ S = {} /\ Least(S, 0) = 0
        \/ S # {} /\ Least(S, 0) \in S /\ \A x \in S : Least(S, 0) <= x
    BY <2>1, LeastOf
  <2>3. \A i, j \in S : i = j
    BY <1>4 DEF OnceAbove
  <2> QED BY <1>5, <2>1, <2>2, <2>3
<1>7. PICK ins \in 1..(n + 1) : ins = KeywordInsertion(t, key)
  <2>1. KeywordInsertion(t, key) \in 1..pe
    BY <1>2, HeaderIn
  <2> QED BY <1>1, <2>1
<1>8. u = IF at # 0
     THEN IF val = <<>> THEN RemoveAt(t, at) ELSE ReplaceAt(t, at, Kw(key, val))
     ELSE IF val = <<>> THEN t ELSE InsertAt(t, ins, Kw(key, val))
  BY <1>2, <1>3, <1>5, <1>7 DEF SetKeyword
<1>9. Kw(key, val).kind = "kw" /\ Kw(key, val).key = key
  BY DEF Kw, Of
<1>10. PICK l : l = Kw(key, val) /\ l.kind = "kw" /\ l.key = key
  BY <1>9
<1>11. CASE at # 0 /\ val # <<>>
  <2>1. l \in NoteLine /\ at \in DOMAIN t /\ u = ReplaceAt(t, at, l)
    BY <1>6, <1>8, <1>10, <1>11
  <2>2. /\ u \in Texts /\ Len(u) = Len(t) /\ u[at] = l
        /\ \E m : Moves(m, t, 1..Len(t) \ {at}, u, 1..Len(u) \ {at})
    BY <2>1, LineEditsMove
  <2>3. PICK bt : bt = 1..Len(u) \ {at} /\ bt \subseteq DOMAIN u /\ bt = DOMAIN u \ {at} /\ at \in DOMAIN u
    <3>1. DOMAIN u = 1..Len(u)
      BY <2>2, PlacesIn
    <3>2. at \in 1..Len(u)
      BY <1>1, <2>1, <2>2
    <3> QED BY <3>1, <3>2
  <2>4. Others(t, key) = 1..Len(t) \ {at}
    BY <1>1, <1>4, <1>6, <1>11 DEF Others
  <2>5. PICK m : Moves(m, t, Others(t, key), u, bt)
    BY <2>2, <2>3, <2>4
  <2>6. KeywordAt(u, key) = {at} /\ Others(u, key) = bt
    BY <1>10, <2>2, <2>3, <2>5, OthersAre
  <2> QED BY <1>10, <1>11, <2>2, <2>3, <2>5, <2>6 DEF KeywordSet
<1>12. CASE at # 0 /\ val = <<>>
  <2>1. at \in DOMAIN t /\ u = RemoveAt(t, at) /\ Blank \in NoteLine
    BY <1>6, <1>8, <1>12, LinesTyped
  <2>2. u \in Texts /\ Len(u) = Len(t) - 1 /\ \E m : Moves(m, t, 1..Len(t) \ {at}, u, 1..Len(u))
    BY <2>1, LineEditsMove
  <2>3. PICK bt : bt = 1..Len(u) /\ bt \subseteq DOMAIN u /\ bt = DOMAIN u
    BY <2>2 DEF Texts
  <2>4. Others(t, key) = 1..Len(t) \ {at}
    BY <1>1, <1>4, <1>6, <1>12 DEF Others
  <2>5. PICK m : Moves(m, t, Others(t, key), u, bt)
    BY <2>2, <2>3, <2>4
  <2>6. KeywordAt(u, key) = {} /\ Others(u, key) = bt
    BY <2>2, <2>3, <2>5, OthersAre
  <2> QED BY <1>12, <2>2, <2>3, <2>5, <2>6 DEF KeywordSet
<1>13. CASE at = 0 /\ val # <<>>
  <2>1. l \in NoteLine /\ ins \in 1..(Len(t) + 1) /\ u = InsertAt(t, ins, l)
    BY <1>1, <1>8, <1>10, <1>13
  <2>2. /\ u \in Texts /\ Len(u) = Len(t) + 1 /\ u[ins] = l
        /\ \E m : Moves(m, t, 1..Len(t), u, 1..Len(u) \ {ins})
    BY <2>1, LineEditsMove
  <2>3. PICK bt : bt = 1..Len(u) \ {ins} /\ bt \subseteq DOMAIN u /\ bt = DOMAIN u \ {ins} /\ ins \in DOMAIN u
    <3>1. DOMAIN u = 1..Len(u)
      BY <2>2, PlacesIn
    <3>2. ins \in 1..Len(u)
      BY <1>1, <2>1, <2>2
    <3> QED BY <3>1, <3>2
  <2>4. Others(t, key) = 1..Len(t)
    BY <1>1, <1>4, <1>6, <1>13 DEF Others
  <2>5. PICK m : Moves(m, t, Others(t, key), u, bt)
    BY <2>2, <2>3, <2>4
  <2>6. KeywordAt(u, key) = {ins} /\ Others(u, key) = bt
    BY <1>10, <2>2, <2>3, <2>5, OthersAre
  <2> QED BY <1>10, <1>13, <2>2, <2>3, <2>5, <2>6 DEF KeywordSet
<1>14. CASE at = 0 /\ val = <<>>
  <2>1. u = t
    BY <1>8, <1>14
  <2>2. PICK m : m = [i \in Others(t, key) |-> i]
    OBVIOUS
  <2>3. Moves(m, t, Others(t, key), u, Others(u, key))
    BY <2>1, <2>2 DEF Moves
  <2>4. KeywordAt(u, key) = {}
    BY <1>4, <1>6, <1>14, <2>1
  <2> QED BY <1>14, <2>1, <2>3, <2>4 DEF KeywordSet
<1> QED BY <1>11, <1>12, <1>13, <1>14

(* Setting one keyword leaves another there once at most.                  *)
LEMMA OtherStaysOnce ==
  ASSUME NEW t \in Texts, NEW key, NEW other, other # key, NEW val, NEW u, KeywordSet(t, key, val, u),
         OnceAbove(t, other)
  PROVE  OnceAbove(u, other)
<1>1. PICK m : Moves(m, t, Others(t, key), u, Others(u, key))
  BY DEF KeywordSet
<1>2. ASSUME NEW k \in KeywordAt(u, other) PROVE \E i \in KeywordAt(t, other) : i \in Others(t, key) /\ m[i] = k
  <2>1. k \in Others(u, key)
    BY DEF Others, KeywordAt
  <2>2. PICK i \in Others(t, key) : m[i] = k /\ u[k] = t[i]
    BY <1>1, <2>1 DEF Moves
  <2> QED BY <2>2 DEF Others, KeywordAt
<1>3. ASSUME NEW g \in Headlines(u) PROVE \E h \in Headlines(t) : h \in Others(t, key) /\ m[h] = g
  <2>1. g \in Others(u, key)
    BY DEF Others, KeywordAt, Headlines
  <2>2. PICK h \in Others(t, key) : m[h] = g /\ u[g] = t[h]
    BY <1>1, <2>1 DEF Moves
  <2> QED BY <2>2 DEF Others, Headlines
<1>4. ASSUME NEW k \in KeywordAt(u, other), NEW l \in KeywordAt(u, other) PROVE k = l
  BY <1>2 DEF OnceAbove
<1>5. ASSUME NEW k \in KeywordAt(u, other), NEW g \in Headlines(u) PROVE k < g
  <2>1. PICK i \in KeywordAt(t, other) : i \in Others(t, key) /\ m[i] = k
    BY <1>2
  <2>2. PICK h \in Headlines(t) : h \in Others(t, key) /\ m[h] = g
    BY <1>3
  <2>3. i < h
    BY DEF OnceAbove
  <2> QED BY <1>1, <2>1, <2>2, <2>3 DEF Moves
<1> QED BY <1>4, <1>5 DEF OnceAbove

(* What is picked from the lines but those of a keyword is as it was.      *)
LEMMA PickedStays ==
  ASSUME NEW t \in Texts, NEW key, NEW val, NEW u, KeywordSet(t, key, val, u),
         NEW S, \A l \in S : ~(l.kind = "kw" /\ l.key = key),
         NEW kept, Kept(kept, t, DOMAIN t, S), NEW kept2, Kept(kept2, u, DOMAIN u, S)
  PROVE  Picked(u, kept2) = Picked(t, kept)
<1>1. PICK m : Moves(m, t, Others(t, key), u, Others(u, key))
  BY DEF KeywordSet
<1>2. Kept(kept, t, Others(t, key), S) /\ Kept(kept2, u, Others(u, key), S)
  BY DEF Others, KeywordAt, Kept
<1>3. Others(t, key) \subseteq Nat
  BY PlacesIn DEF Others
<1>4. PICK w : Moves(w, t, kept, u, kept2)
  <2>1. PICK at : at = Others(t, key)
    OBVIOUS
  <2>2. PICK bt : bt = Others(u, key)
    OBVIOUS
  <2>3. at \subseteq Nat /\ Moves(m, t, at, u, bt)
    BY <1>1, <1>3, <2>1, <2>2
  <2>4. Kept(kept, t, at, S)
    BY <1>2, <2>1
  <2>5. Kept(kept2, u, bt, S)
    BY <1>2, <2>2
  <2> QED BY <2>3, <2>4, <2>5, MovesKeep
<1>5. t \in Seq(NoteLine) /\ u \in Seq(NoteLine) /\ kept \subseteq DOMAIN t /\ kept2 \subseteq DOMAIN u
  BY DEF Texts, KeywordSet, Kept
<1> QED BY <1>4, <1>5, PickedMoves

(* The values of a keyword that is not there, or once.                     *)
LEMMA ValuesAre ==
  ASSUME NEW t \in Texts, NEW key
  PROVE  /\ KeywordAt(t, key) = {} => KeywordValues(t, key) = <<>>
         /\ \A p \in DOMAIN t : KeywordAt(t, key) = {p} => KeywordValues(t, key) = <<t[p].val>>
<1>1. KeywordValues(t, key) = LET lines == Picked(t, KeywordAt(t, key)) IN [k \in DOMAIN lines |-> lines[k].val]
  BY DEF KeywordValues, KeywordAt
<1>2. ASSUME KeywordAt(t, key) = {} PROVE KeywordValues(t, key) = <<>>
  <2>1. Cardinality(KeywordAt(t, key)) = 0
    BY <1>2, FS_EmptySet
  <2>2. PICK lines : lines = Picked(t, KeywordAt(t, key)) /\ DOMAIN lines = 1..0
    BY <2>1 DEF Picked
  <2>3. KeywordValues(t, key) = [k \in 1..0 |-> lines[k].val]
    BY <1>1, <2>2
  <2> QED BY <2>3
<1>3. ASSUME NEW p \in DOMAIN t, KeywordAt(t, key) = {p} PROVE KeywordValues(t, key) = <<t[p].val>>
  <2>1. PICK f : f = [k \in 1..1 |-> p]
    OBVIOUS
  <2>2. {p} \subseteq Nat /\ f \in [1..1 -> {p}] /\ 1 \in Nat
        /\ (\A k, l \in 1..1 : k < l => f[k] < f[l]) /\ \A i \in {p} : \E k \in 1..1 : f[k] = i
    BY <2>1, PlacesIn
  <2>3. Cardinality({p}) = 1 /\ Ascends(f, {p})
    BY <2>2, AscendsAll
  <2>4. PICK g : Ascends(g, {p}) /\ Picked(t, {p}) = [k \in 1..1 |-> t[g[k]]]
    <3>1. PICK at : at = {p} /\ at \subseteq DOMAIN t /\ t \in Seq(NoteLine)
      BY DEF Texts
    <3>2. PICK n \in Nat : \E g : Takes(g, t, at, n)
      BY <3>1, PickedTakes
    <3>3. PICK g : Takes(g, t, at, n)
      BY <3>2
    <3> QED BY <2>3, <3>1, <3>3 DEF Takes
  <2>5. g[1] = p
    <3>1. g \in [1..1 -> {p}]
      BY <2>3, <2>4 DEF Ascends
    <3> QED BY <3>1
  <2>6. PICK lines : lines = Picked(t, {p}) /\ DOMAIN lines = 1..1 /\ lines[1] = t[p]
    BY <2>4, <2>5
  <2>7. KeywordValues(t, key) = [k \in 1..1 |-> lines[k].val]
    BY <1>1, <1>3, <2>6
  <2> QED BY <2>6, <2>7
<1> QED BY <1>2, <1>3

(* Other keywords keep their values, if they are there once at most.       *)
LEMMA ValueStays ==
  ASSUME NEW t \in Texts, NEW key, NEW other, other # key, NEW val, NEW u, KeywordSet(t, key, val, u)
  PROVE  KeywordValues(u, other) = KeywordValues(t, other)
<1>1. PICK S : S = {l \in NoteLine : l.kind = "kw" /\ l.key = other}
  OBVIOUS
<1>2. \A l \in S : ~(l.kind = "kw" /\ l.key = key)
  BY <1>1
<1>3. KeywordAt(t, other) = {i \in DOMAIN t : t[i] \in S} /\ KeywordAt(u, other) = {i \in DOMAIN u : u[i] \in S}
  <2>1. (\A i \in DOMAIN t : t[i] \in NoteLine) /\ \A i \in DOMAIN u : u[i] \in NoteLine
    BY DEF Texts, KeywordSet
  <2> QED BY <1>1, <2>1 DEF KeywordAt
<1>4. Picked(u, KeywordAt(u, other)) = Picked(t, KeywordAt(t, other))
  <2>1. PICK kept : kept = KeywordAt(t, other)
    OBVIOUS
  <2>2. PICK kept2 : kept2 = KeywordAt(u, other)
    OBVIOUS
  <2>3. Kept(kept, t, DOMAIN t, S)
    BY <1>3, <2>1 DEF Kept
  <2>4. Kept(kept2, u, DOMAIN u, S)
    BY <1>3, <2>2 DEF Kept
  <2>5. Picked(u, kept2) = Picked(t, kept)
    BY <1>2, <2>3, <2>4, PickedStays
  <2> QED BY <2>1, <2>2, <2>5
<1> QED BY <1>4 DEF KeywordValues, KeywordAt

(* Nothing is twice in a list. *)
NoneTwice(s) == \A i, j \in DOMAIN s : s[i] = s[j] => i = j

(* To pick everything is to change nothing.                                *)
LEMMA PickedAll ==
  ASSUME NEW S, NEW s \in Seq(S) PROVE Picked(s, DOMAIN s) = s
<1>1. PICK n \in Nat : n = Len(s) /\ DOMAIN s = 1..n
  OBVIOUS
<1>2. PICK f : f = [k \in 1..n |-> k]
  OBVIOUS
<1>3. /\ 1..n \subseteq Nat /\ f \in [1..n -> 1..n]
      /\ (\A k, l \in 1..n : k < l => f[k] < f[l]) /\ \A i \in 1..n : \E k \in 1..n : f[k] = i
  BY <1>2
<1>4. Cardinality(1..n) = n /\ Ascends(f, 1..n)
  BY <1>3, AscendsAll
<1>5. PICK g : Ascends(g, 1..n) /\ Picked(s, 1..n) = [k \in 1..n |-> s[g[k]]]
  <2>1. PICK at : at = 1..n /\ at \subseteq DOMAIN s
    BY <1>1
  <2>2. PICK c \in Nat : \E g : Takes(g, s, at, c)
    BY <2>1, PickedTakes
  <2>3. PICK g : Takes(g, s, at, c)
    BY <2>2
  <2> QED BY <1>4, <2>1, <2>3 DEF Takes
<1>6. g = f
  BY <1>3, <1>4, <1>5, AscendsOneWay
<1>7. Picked(s, 1..n) = [k \in 1..n |-> s[k]]
  BY <1>2, <1>4, <1>5, <1>6
<1>8. s = [k \in 1..n |-> s[k]]
  BY <1>1
<1> QED BY <1>1, <1>7, <1>8

(* Picking from a list that has nothing twice gives such a list.           *)
LEMMA PickedOnce ==
  ASSUME NEW S, NEW s \in Seq(S), NoneTwice(s), NEW at, at \subseteq DOMAIN s
  PROVE  NoneTwice(Picked(s, at))
<1>1. PICK f : Ascends(f, at) /\ Picked(s, at) = [k \in 1..Cardinality(at) |-> s[f[k]]]
  BY PickedIs
<1>2. PICK n \in Nat : n = Cardinality(at)
  BY PickedIs
<1>3. f \in [1..n -> at] /\ \A k, l \in 1..n : k < l => f[k] < f[l]
  BY <1>1, <1>2 DEF Ascends
<1>4. ASSUME NEW k \in 1..n, NEW l \in 1..n, s[f[k]] = s[f[l]] PROVE k = l
  <2>1. PICK x \in Nat : x = f[k] /\ x = f[l]
    BY <1>3, <1>4 DEF NoneTwice
  <2>2. k < l => x < x
    BY <1>3, <2>1
  <2>3. l < k => x < x
    BY <1>3, <2>1
  <2> QED BY <2>2, <2>3
<1> QED BY <1>1, <1>2, <1>4 DEF NoneTwice

(* Dedup gives one that has nothing twice, and leaves it alone.            *)
LEMMA DedupOnce ==
  ASSUME NEW S, NEW s \in Seq(S)
  PROVE  NoneTwice(Dedup(s)) /\ (NoneTwice(s) => Dedup(s) = s)
<1>1. PICK at : at = {i \in DOMAIN s : \A j \in 1..(i - 1) : s[j] # s[i]} /\ at \subseteq DOMAIN s
  OBVIOUS
<1>2. PICK n \in Nat : \E f : Takes(f, s, at, n)
  BY <1>1, PickedTakes
<1>3. PICK f : Takes(f, s, at, n)
  BY <1>2
<1>4. f \in [1..n -> at] /\ \A k, l \in 1..n : k < l => f[k] < f[l]
  BY <1>3 DEF Takes, Ascends
<1>5. ASSUME NEW i \in at, NEW j \in at, i < j PROVE s[i] # s[j]
  <2>1. i \in 1..(j - 1)
    BY <1>1, <1>5
  <2> QED BY <1>1, <2>1
<1>6. ASSUME NEW k \in 1..n, NEW l \in 1..n, k < l PROVE s[f[k]] # s[f[l]]
  <2>1. f[k] \in at /\ f[l] \in at /\ f[k] < f[l]
    BY <1>4, <1>6
  <2> QED BY <1>5, <2>1
<1>7. ASSUME NEW k \in 1..n, NEW l \in 1..n, s[f[k]] = s[f[l]] PROVE k = l
  <2>1. ~ k < l /\ ~ l < k
    BY <1>6, <1>7
  <2> QED BY <2>1
<1>8. NoneTwice(Dedup(s))
  BY <1>1, <1>3, <1>7 DEF NoneTwice, Dedup, Takes
<1>9. ASSUME NoneTwice(s) PROVE Dedup(s) = s
  <2>1. at = DOMAIN s
    <3> SUFFICES ASSUME NEW i \in DOMAIN s, NEW j \in 1..(i - 1) PROVE s[j] # s[i]
      BY <1>1
    <3>1. j \in DOMAIN s /\ j # i
      OBVIOUS
    <3> QED BY <1>9, <3>1 DEF NoneTwice
  <2>2. Picked(s, DOMAIN s) = s
    BY PickedAll
  <2> QED BY <1>1, <2>1, <2>2 DEF Dedup
<1> QED BY <1>8, <1>9

(* What ApplyFileTags writes is what FileLevelTags reads.                  *)
LEMMA TagsReadBack ==
  ASSUME NEW t \in Texts, OnceAbove(t, "filetags"), OnceAbove(t, "roam_tags"),
         NEW tags \in Seq(Tags), NoneTwice(tags), Plain(tags)
  PROVE  /\ FileLevelTags(ApplyFileTags(t, tags)) = tags
         /\ Untagged(ApplyFileTags(t, tags)) = Untagged(t)
<1>1. PICK u : u = SetKeyword(t, "filetags", tags)
  OBVIOUS
<1>2. tags # <<>> => Kw("filetags", tags) \in NoteLine
  BY TagKeywordTyped
<1>3. KeywordSet(t, "filetags", tags, u) /\ u \in Texts
  <2>1. KeywordSet(t, "filetags", tags, u)
    BY <1>1, <1>2, SetKeywordSets
  <2> QED BY <2>1 DEF KeywordSet
<1>4. OnceAbove(u, "roam_tags")
  <2>1. "roam_tags" # "filetags"
    OBVIOUS
  <2> QED BY <1>3, <2>1, OtherStaysOnce
<1>5. PICK w : w = SetKeyword(u, "roam_tags", <<>>)
  OBVIOUS
<1>6. KeywordSet(u, "roam_tags", <<>>, w) /\ w \in Texts
  <2>1. KeywordSet(u, "roam_tags", <<>>, w)
    <3>1. PICK val : val = <<>> /\ (val # <<>> => Kw("roam_tags", val) \in NoteLine)
      OBVIOUS
    <3>2. w = SetKeyword(u, "roam_tags", val)
      BY <1>5, <3>1
    <3>3. KeywordSet(u, "roam_tags", val, w)
      BY <1>3, <1>4, <3>1, <3>2, SetKeywordSets
    <3> QED BY <3>1, <3>3
  <2> QED BY <2>1 DEF KeywordSet
<1>7. ApplyFileTags(t, tags) = w
  BY <1>1, <1>5 DEF ApplyFileTags
<1>8. KeywordValues(w, "filetags") = IF tags = <<>> THEN <<>> ELSE <<tags>>
  <2>1. KeywordValues(w, "filetags") = KeywordValues(u, "filetags")
    <3>1. "filetags" # "roam_tags"
      OBVIOUS
    <3> QED BY <1>3, <1>6, <3>1, ValueStays
  <2>2. CASE tags = <<>>
    <3>1. KeywordAt(u, "filetags") = {}
      BY <1>3, <2>2 DEF KeywordSet
    <3> QED BY <1>3, <2>1, <2>2, <3>1, ValuesAre
  <2>3. CASE tags # <<>>
    <3>1. PICK p \in DOMAIN u : KeywordAt(u, "filetags") = {p} /\ u[p] = Kw("filetags", tags)
      BY <1>3, <2>3 DEF KeywordSet
    <3>2. KeywordValues(u, "filetags") = <<u[p].val>>
      BY <1>3, <3>1, ValuesAre
    <3>3. u[p].val = tags
      BY <3>1 DEF Kw, Of
    <3> QED BY <2>1, <2>3, <3>2, <3>3
  <2> QED BY <2>2, <2>3
<1>9. KeywordValues(w, "roam_tags") = <<>>
  <2>1. KeywordAt(w, "roam_tags") = {}
    BY <1>6 DEF KeywordSet
  <2> QED BY <1>6, <2>1, ValuesAre
<1>10. FlattenSeq(<<>>) = <<>> /\ FlattenSeq(KeywordValues(w, "filetags")) = tags
  BY <1>8, FlattenOne
<1>11. FileLevelTags(w) = Dedup(tags \o <<>>)
  BY <1>9, <1>10 DEF FileLevelTags, Plain
<1>12. tags \o <<>> = tags
  BY ConcatEmptySeq
<1>13. FileLevelTags(w) = tags
  BY <1>11, <1>12, DedupOnce
<1>14. Untagged(w) = Untagged(t)
  <2>1. PICK S : S = {l \in NoteLine : l.key \notin {"filetags", "roam_tags"}}
    OBVIOUS
  <2>2. /\ \A l \in S : ~(l.kind = "kw" /\ l.key = "filetags")
        /\ \A l \in S : ~(l.kind = "kw" /\ l.key = "roam_tags")
    BY <2>1
  <2>3. ASSUME NEW s \in Texts PROVE Untagged(s) = Picked(s, {i \in DOMAIN s : s[i] \in S})
    <3>1. \A i \in DOMAIN s : s[i] \in NoteLine
      BY DEF Texts
    <3>2. {i \in DOMAIN s : s[i] \in S} = {i \in DOMAIN s : s[i].key \notin {"filetags", "roam_tags"}}
      BY <2>1, <3>1
    <3> QED BY <3>2 DEF Untagged
  <2>4. PICK a : Kept(a, t, DOMAIN t, S)
    BY DEF Kept
  <2>5. PICK b : Kept(b, u, DOMAIN u, S)
    BY DEF Kept
  <2>6. PICK c : Kept(c, w, DOMAIN w, S)
    BY DEF Kept
  <2>7. Picked(u, b) = Picked(t, a)
    BY <1>3, <2>2, <2>4, <2>5, PickedStays
  <2>8. Picked(w, c) = Picked(u, b)
    BY <1>3, <1>6, <2>2, <2>5, <2>6, PickedStays
  <2> QED BY <1>3, <1>6, <2>3, <2>4, <2>5, <2>6, <2>7, <2>8 DEF Kept
<1> QED BY <1>7, <1>13, <1>14

(* In a tidy text each keyword is there once at most, above the headlines. *)
LEMMA TidyOnce ==
  ASSUME NEW t \in Texts, Tidy(t), NEW key PROVE OnceAbove(t, key)
<1>1. \A i, j \in KeywordAt(t, key) : i = j
  BY DEF Tidy, Unrepeated, KeywordAt
<1>2. PICK n \in Nat : n = Len(t) /\ DOMAIN t = 1..n
  BY PlacesIn
<1>3. PICK pe \in 1..(n + 1) : pe = FirstHeadline(t)
  BY <1>2, PlacesIn
<1>4. PICK body \in 1..pe : body = BodyStart(t)
  BY <1>3, BodiesIn
<1>5. ASSUME NEW i \in KeywordAt(t, key) PROVE \A h \in Headlines(t) : i < h
  <2>1. i \in DOMAIN t /\ i \in Nat /\ i < body
    BY <1>2, <1>4 DEF Tidy, KeywordAt
  <2>2. i < FirstHeadline(t)
    BY <1>3, <1>4, <2>1
  <2> QED BY <2>1, <2>2, AboveHeadlines
<1> QED BY <1>1, <1>5 DEF OnceAbove

(* The tags a tag tool is to write have none twice.                        *)
LEMMA NewTagsOnce ==
  ASSUME TypeOK, NEW tags \in TagLists
  PROVE  /\ Added(tags) \in Seq(Tags) /\ NoneTwice(Added(tags))
         /\ Remaining(tags) \in Seq(Tags) /\ NoneTwice(Remaining(tags))
         /\ Dedup(tags) \in Seq(Tags) /\ NoneTwice(Dedup(tags))
<1>1. tags \in Seq(Tags)
  BY NoteTextAssumption
<1>2. text \in Texts
  BY DEF TypeOK, Texts
<1>3. PICK old \in Seq(Tags) : old = FileLevelTags(text)
  BY <1>2, TagsTyped
<1>4. NoneTwice(old)
  <2>1. PICK a \in Seq(Tags) : old = Dedup(a)
    <3>1. PICK v : v = FlattenSeq(KeywordValues(text, "filetags")) /\ v \in Seq(Tags)
      BY <1>2, TagsTyped, FlattenTyped
    <3>2. PICK r : r = FlattenSeq(KeywordValues(text, "roam_tags")) /\ r \in Seq(Tags)
      BY <1>2, TagsTyped, FlattenTyped
    <3>3. Split(v) \in Seq(Tags)
      <4>1. PICK n \in Nat : DOMAIN v = 1..n /\ v \in [1..n -> Tags]
        BY <3>1
      <4>2. [i \in 1..n |-> Segments[v[i]]] \in [1..n -> Seq(Tags)]
        BY <4>1, NoteTextAssumption
      <4>3. [i \in DOMAIN v |-> Segments[v[i]]] \in Seq(Seq(Tags))
        BY <4>1, <4>2
      <4> QED BY <4>3, FlattenTyped DEF Split
    <3>4. Split(v) \o r \in Seq(Tags)
      BY <3>2, <3>3, ConcatProperties
    <3> QED BY <1>3, <3>1, <3>2, <3>4 DEF FileLevelTags
  <2> QED BY <2>1, DedupOnce
<1>5. Added(tags) \in Seq(Tags) /\ NoneTwice(Added(tags))
  <2>1. PICK a \in Seq(Tags) : a = old \o tags
    BY <1>1, ConcatProperties
  <2>2. Dedup(a) \in Seq(Tags) /\ NoneTwice(Dedup(a))
    BY DedupTyped, DedupOnce
  <2> QED BY <1>3, <2>1, <2>2 DEF Added
<1>6. Remaining(tags) \in Seq(Tags) /\ NoneTwice(Remaining(tags))
  <2>1. PICK at : at = {i \in DOMAIN old : old[i] \notin ToSet(tags)} /\ at \subseteq DOMAIN old
    OBVIOUS
  <2>2. Picked(old, at) \in Seq(Tags) /\ NoneTwice(Picked(old, at))
    BY <1>4, <2>1, PickedTyped, PickedOnce
  <2> QED BY <1>3, <2>1, <2>2 DEF Remaining
<1>7. Dedup(tags) \in Seq(Tags) /\ NoneTwice(Dedup(tags))
  BY <1>1, DedupTyped, DedupOnce
<1> QED BY <1>5, <1>6, <1>7

(* The tags of the file are those a tag tool answers, and the rest of the  *)
(* file is as it was, for any text and any tags.                           *)
THEOREM TagsStayAnswered == Spec => TagsAsAnswered
<1>1. ASSUME TypeOK, NEW id \in DOMAIN known, NEW tags \in TagLists,
             NEW new \in {Added(tags), Remaining(tags), Dedup(tags)},
             Retag(id, new), Tidy(text), Plain(new)
      PROVE  FileLevelTags(text') = new /\ Untagged(text') = Untagged(text)
  <2>1. text \in Texts
    BY <1>1 DEF TypeOK, Texts
  <2>2. new \in Seq(Tags) /\ NoneTwice(new)
    BY <1>1, NewTagsOnce
  <2>3. OnceAbove(text, "filetags") /\ OnceAbove(text, "roam_tags")
    BY <1>1, <2>1, TidyOnce
  <2>4. text' = ApplyFileTags(text, new)
    BY <1>1 DEF Retag, Write
  <2>5. FileLevelTags(ApplyFileTags(text, new)) = new /\ Untagged(ApplyFileTags(text, new)) = Untagged(text)
    BY <1>1, <2>1, <2>2, <2>3, TagsReadBack
  <2> QED BY <2>4, <2>5
<1>2. TypeOK => [\A id \in DOMAIN known, tags \in TagLists :
       \A new \in {Added(tags), Remaining(tags), Dedup(tags)} :
         Retag(id, new) /\ Tidy(text) /\ Plain(new) =>
           FileLevelTags(text') = new /\ Untagged(text') = Untagged(text)]_text
  BY <1>1
<1> QED BY <1>2, TextsStayTexts, PTL DEF TagsAsAnswered

-----------------------------------------------------------------------------
(* The properties of a drawer                                              *)

(* The one number of a set that comes before the others is the least.      *)
LEMMA LeastIs ==
  ASSUME NEW S, S \subseteq Nat, NEW none, NEW x \in S, \A y \in S : x <= y
  PROVE  Least(S, none) = x /\ Min(S) = x
<1>1. S # {}
  OBVIOUS
<1>2. Min(S) \in S /\ \A y \in S : Min(S) <= y
  BY <1>1, MinIsLeast
<1>3. PICK m \in Nat : m = Min(S) /\ m \in S /\ m <= x
  BY <1>2
<1>4. x <= m /\ x \in Nat
  BY <1>3
<1>5. m = x
  BY <1>3, <1>4
<1> QED BY <1>1, <1>3, <1>5 DEF Least

(* The first property of a key, at d, in a drawer from a to e.             *)
PropAt(t, a, e, d, key) ==
  /\ a \in 1..Len(t) /\ e \in 1..Len(t) /\ d \in (a + 1)..(e - 1)
  /\ t[a].kind = "open" /\ t[e].kind = "end"
  /\ \A i \in (a + 1)..(e - 1) : t[i].kind = "prop"
  /\ t[d].key = key
  /\ \A i \in (a + 1)..(d - 1) : t[i].key # key

(* A drawer may be behind the text's last line, and is then none.          *)
LEMMA DrawerOfIn ==
  ASSUME NEW t \in Texts, NEW h \in {0} \cup Headlines(t)
  PROVE  DrawerOf(t, h) \in 1..(Len(t) + 1)
<1>1. PICK n \in Nat : n = Len(t) /\ DOMAIN t = 1..n /\ Headlines(t) \subseteq 1..n
  BY PlacesIn
<1>2. CASE h = 0
  <2>1. PICK S : S = {i \in DOMAIN t : t[i].kind # "blank"}
    OBVIOUS
  <2>2. PICK none : none = n + 1
    OBVIOUS
  <2>3. S \subseteq 1..n /\ S \subseteq Nat
    BY <1>1, <2>1
  <2>4. Least(S, none) = none \/ Least(S, none) \in S
    BY <2>3, LeastOf
  <2>5. DrawerOf(t, h) = Least(S, none)
    BY <1>1, <1>2, <2>1, <2>2 DEF DrawerOf
  <2>6. none \in 1..(n + 1) /\ \A x \in S : x \in 1..(n + 1)
    BY <2>2, <2>3
  <2> QED BY <1>1, <2>4, <2>5, <2>6
<1>3. CASE h \in 1..n
  <2>1. h # 0 /\ h + 1 \in 1..(n + 1) /\ (h < n => h + 2 \in 1..(n + 1))
    BY <1>3
  <2>2. DrawerOf(t, h) = h + 1 \/ (h < n /\ DrawerOf(t, h) = h + 2)
    BY <1>1, <2>1 DEF DrawerOf
  <2> QED BY <1>1, <2>1, <2>2
<1> QED BY <1>1, <1>2, <1>3

(* It is where a property's words are read, if anywhere.                   *)
LEMMA WordsOf ==
  ASSUME NEW t \in Texts, NEW h \in {0} \cup Headlines(t), NEW key
  PROVE  /\ \A e, d : PropAt(t, DrawerOf(t, h), e, d, key) =>
              /\ PropertyWords(t, h, key) = t[d].val
              /\ t[d].val # <<>> /\ t[d].val \in Seq(Vocabulary)
         /\ PropertyWords(t, h, key) # <<>> => \E e, d : PropAt(t, DrawerOf(t, h), e, d, key)
<1>1. PICK n \in Nat : n = Len(t) /\ DOMAIN t = 1..n
  BY PlacesIn
<1>2. PICK a \in 1..(n + 1) : a = DrawerOf(t, h)
  BY <1>1, DrawerOfIn
<1>3. PICK ends : ends = {x \in a..Len(t) : t[x].kind = "end" /\ \A i \in (a + 1)..(x - 1) : t[i].kind = "prop"}
  OBVIOUS
<1>4. PICK low \in Int : low = a - 1
  OBVIOUS
<1>5. PastDrawer(t, a) = IF a \in DOMAIN t /\ t[a].kind = "open" THEN Least(ends, low) + 1 ELSE a
  BY <1>3, <1>4 DEF PastDrawer
<1>6. PICK lines : lines = {i \in a..(PastDrawer(t, a) - 1) : t[i].kind = "prop" /\ t[i].key = key}
  OBVIOUS
<1>7. PropertyWords(t, h, key) = IF lines = {} THEN <<>> ELSE t[Min(lines)].val
  BY <1>2, <1>6 DEF PropertyWords
<1>8. ends \subseteq Nat
  BY <1>2, <1>3
<1>9. ASSUME NEW e, NEW d, PropAt(t, a, e, d, key)
      PROVE  /\ PropertyWords(t, h, key) = t[d].val
             /\ t[d].val # <<>> /\ t[d].val \in Seq(Vocabulary)
  <2>1. /\ a \in 1..n /\ e \in 1..n /\ d \in (a + 1)..(e - 1)
        /\ t[a].kind = "open" /\ t[e].kind = "end"
        /\ \A i \in (a + 1)..(e - 1) : t[i].kind = "prop"
        /\ t[d].key = key
        /\ \A i \in (a + 1)..(d - 1) : t[i].key # key
    BY <1>1, <1>9 DEF PropAt
  <2>2. e \in ends
    BY <1>1, <1>3, <2>1
  <2>3. ASSUME NEW y \in ends PROVE e <= y
    <3>1. y \in a..n /\ t[y].kind = "end"
      BY <1>1, <1>3
    <3>2. y # a /\ y \notin (a + 1)..(e - 1)
      BY <2>1, <3>1
    <3> QED BY <2>1, <3>1, <3>2
  <2>4. Least(ends, low) = e
    BY <1>8, <2>2, <2>3, LeastIs
  <2>5. PastDrawer(t, a) - 1 = e
    BY <1>1, <1>5, <2>1, <2>4
  <2>6. lines \subseteq Nat /\ d \in lines
    BY <1>6, <2>1, <2>5
  <2>7. ASSUME NEW y \in lines PROVE d <= y
    <3>1. y \in a..e /\ t[y].kind = "prop" /\ t[y].key = key
      BY <1>6, <2>5
    <3>2. y # a /\ y \notin (a + 1)..(d - 1)
      BY <2>1, <3>1
    <3> QED BY <2>1, <3>1, <3>2
  <2>8. Min(lines) = d
    BY <2>6, <2>7, LeastIs
  <2>9. t[d].val # <<>> /\ t[d].val \in Seq(Vocabulary)
    <3>1. t[d] \in NoteLine /\ t[d].kind = "prop"
      BY <1>1, <2>1 DEF Texts
    <3> QED BY <3>1 DEF NoteLine, Line
  <2> QED BY <1>7, <2>6, <2>8, <2>9
<1>10. ASSUME PropertyWords(t, h, key) # <<>> PROVE \E e, d : PropAt(t, a, e, d, key)
  <2>1. lines # {}
    BY <1>7, <1>10
  <2>2. a..(a - 1) = {} /\ (low + 1) - 1 = a - 1
    BY <1>4
  <2>3. a \in DOMAIN t /\ t[a].kind = "open"
    <3>1. SUFFICES ASSUME ~(a \in DOMAIN t /\ t[a].kind = "open") PROVE FALSE
      OBVIOUS
    <3>2. PastDrawer(t, a) = a
      BY <1>5, <3>1
    <3> QED BY <1>6, <2>1, <2>2, <3>2
  <2>4. PICK e : e = Least(ends, low)
    OBVIOUS
  <2>5. e = low \/ e \in ends
    BY <1>8, <2>4, LeastOf
  <2>6. e \in ends
    <3>1. SUFFICES ASSUME e = low PROVE FALSE
      BY <2>5
    <3>2. PastDrawer(t, a) - 1 = a - 1
      BY <1>5, <2>2, <2>3, <2>4, <3>1
    <3> QED BY <1>6, <2>1, <2>2, <3>2
  <2>7. e \in a..n /\ t[e].kind = "end" /\ \A i \in (a + 1)..(e - 1) : t[i].kind = "prop"
    BY <1>1, <1>3, <2>6
  <2>8. lines = {i \in a..e : t[i].kind = "prop" /\ t[i].key = key}
    <3>1. PastDrawer(t, a) - 1 = e
      BY <1>5, <2>3, <2>4, <2>7
    <3> QED BY <1>6, <3>1
  <2>9. PICK d : d = Min(lines)
    OBVIOUS
  <2>10. d \in lines /\ \A x \in lines : d <= x
    <3>1. lines \subseteq Nat
      BY <2>8
    <3> QED BY <2>1, <2>9, <3>1, MinIsLeast
  <2>11. d \in (a + 1)..(e - 1) /\ t[d].key = key
    <3>1. d \in a..e /\ d # a /\ d # e /\ t[d].key = key
      BY <2>3, <2>7, <2>8, <2>10
    <3> QED BY <2>7, <3>1
  <2>12. ASSUME NEW i \in (a + 1)..(d - 1) PROVE t[i].key # key
    <3>1. i \in a..e /\ ~ d <= i /\ i \in (a + 1)..(e - 1)
      BY <2>7, <2>11
    <3>2. i \notin lines /\ t[i].kind = "prop"
      BY <2>7, <2>10, <3>1
    <3> QED BY <2>8, <3>1, <3>2
  <2>13. a \in 1..Len(t) /\ e \in 1..Len(t)
    BY <1>1, <2>3, <2>7
  <2> QED BY <2>3, <2>7, <2>11, <2>12, <2>13 DEF PropAt
<1> QED BY <1>2, <1>9, <1>10

-----------------------------------------------------------------------------
(* The :ID: of the file                                                    *)

IdLine(l) == l.kind = "prop" /\ l.key = "ID"

(* Blanks, then a drawer from a to e with nothing but properties, whose    *)
(* first :ID: is at d.                                                     *)
IdDrawer(t, a, e, d) ==
  /\ a \in DOMAIN t /\ e \in DOMAIN t /\ d \in (a + 1)..(e - 1)
  /\ \A i \in 1..(a - 1) : t[i].kind = "blank"
  /\ t[a].kind = "open" /\ t[e].kind = "end"
  /\ \A i \in (a + 1)..(e - 1) : t[i].kind = "prop"
  /\ IdLine(t[d])
  /\ \A i \in (a + 1)..(d - 1) : ~IdLine(t[i])

(* Such a drawer is the one that orgize takes for the file's.              *)
LEMMA DrawerIs ==
  ASSUME NEW t \in Texts, NEW a, NEW e, NEW d, IdDrawer(t, a, e, d)
  PROVE  /\ FileId(t) = t[d].val[1]
         /\ FirstHeadline(t) > e
         /\ DrawerBounds(t) = (a + 1)..e
<1>1. PICK n \in Nat : n = Len(t) /\ DOMAIN t = 1..n /\ Headlines(t) \subseteq 1..n
  BY PlacesIn
<1>2. /\ a \in 1..n /\ e \in 1..n /\ d \in (a + 1)..(e - 1)
      /\ \A i \in 1..(a - 1) : t[i].kind = "blank"
      /\ t[a].kind = "open" /\ t[e].kind = "end"
      /\ \A i \in (a + 1)..(e - 1) : t[i].kind = "prop"
      /\ IdLine(t[d])
      /\ \A i \in (a + 1)..(d - 1) : ~IdLine(t[i])
  BY <1>1 DEF IdDrawer
<1>3. ASSUME NEW i \in 1..e
      PROVE  \/ i < a /\ t[i].kind = "blank"
             \/ i = a /\ t[i].kind = "open"
             \/ i > a /\ i < e /\ t[i].kind = "prop"
             \/ i = e /\ t[i].kind = "end"
  <2>1. i < a => i \in 1..(a - 1)
    BY <1>2
  <2>2. i > a /\ i < e => i \in (a + 1)..(e - 1)
    BY <1>2
  <2>3. i < a \/ i = a \/ (i > a /\ i < e) \/ i = e
    BY <1>2
  <2>4. CASE i < a
    BY <1>2, <2>1, <2>4
  <2>5. CASE i > a /\ i < e
    BY <1>2, <2>2, <2>5
  <2> QED BY <1>2, <2>3, <2>4, <2>5
<1>4. DrawerOf(t, 0) = a
  <2>1. PICK S : S = {i \in DOMAIN t : t[i].kind # "blank"}
    OBVIOUS
  <2>2. S \subseteq Nat /\ a \in S
    BY <1>1, <1>2, <2>1
  <2>3. ASSUME NEW y \in S PROVE a <= y
    <3>1. y \in 1..n /\ t[y].kind # "blank"
      BY <1>1, <2>1
    <3>2. y \notin 1..(a - 1)
      BY <1>2, <3>1
    <3> QED BY <1>2, <3>1, <3>2
  <2>4. PICK none : none = Len(t) + 1
    OBVIOUS
  <2>5. Least(S, none) = a
    BY <2>2, <2>3, LeastIs
  <2> QED BY <2>1, <2>4, <2>5 DEF DrawerOf
<1>5. PropAt(t, a, e, d, "ID")
  <2>1. \A i \in (a + 1)..(d - 1) : i \in (a + 1)..(e - 1)
    BY <1>2
  <2>2. \A i \in (a + 1)..(d - 1) : t[i].key # "ID"
    BY <1>2, <2>1 DEF IdLine
  <2> QED BY <1>1, <1>2, <2>2 DEF PropAt, IdLine
<1>6. FileId(t) = t[d].val[1]
  <2>1. PropAt(t, DrawerOf(t, 0), e, d, "ID") /\ 0 \in {0} \cup Headlines(t)
    BY <1>4, <1>5
  <2>2. \A x, y : PropAt(t, DrawerOf(t, 0), x, y, "ID") =>
          /\ PropertyWords(t, 0, "ID") = t[y].val
          /\ t[y].val # <<>> /\ t[y].val \in Seq(Vocabulary)
    BY <2>1, WordsOf
  <2> QED BY <2>1, <2>2 DEF FileId, IdOf, Property
<1>7. FirstHeadline(t) > e
  <2>1. e \in DOMAIN t
    BY <1>1, <1>2
  <2>2. ASSUME NEW h \in Headlines(t) PROVE e < h
    <3>1. h \in 1..n /\ t[h].kind = "head"
      BY <1>1 DEF Headlines
    <3>2. h \notin 1..e
      BY <1>3, <3>1
    <3> QED BY <1>2, <3>1, <3>2
  <2>3. e < FirstHeadline(t)
    BY <2>1, <2>2, AboveHeadlines
  <2>4. FirstHeadline(t) \in Nat
    BY <1>1, PlacesIn
  <2> QED BY <1>2, <2>3, <2>4
<1>8. DrawerBounds(t) = (a + 1)..e
  <2>1. PICK pe \in 1..(n + 1) : pe = FirstHeadline(t) /\ pe > e
    BY <1>1, <1>7, PlacesIn
  <2>2. PICK S : S = {i \in 1..(pe - 1) : t[i].kind = "open"}
    OBVIOUS
  <2>3. S \subseteq Nat /\ a \in S
    BY <1>2, <2>1, <2>2
  <2>4. ASSUME NEW y \in S PROVE a <= y
    <3>1. y \in 1..n /\ t[y].kind = "open"
      BY <2>1, <2>2
    <3>2. y \notin 1..(a - 1)
      BY <1>2, <3>1
    <3> QED BY <1>2, <3>1, <3>2
  <2>5. Least(S, pe) = a
    BY <2>3, <2>4, LeastIs
  <2>6. PICK E : E = {i \in (a + 1)..(pe - 1) : t[i].kind = "end"}
    OBVIOUS
  <2>7. E \subseteq Nat /\ e \in E
    BY <1>2, <2>1, <2>6
  <2>8. ASSUME NEW y \in E PROVE e <= y
    <3>1. y \in (a + 1)..(pe - 1) /\ t[y].kind = "end"
      BY <2>6
    <3>2. y \notin (a + 1)..(e - 1)
      BY <1>2, <3>1
    <3> QED BY <1>2, <3>1, <3>2
  <2>9. Least(E, pe) = e
    BY <2>7, <2>8, LeastIs
  <2>10. e # pe
    BY <1>2, <2>1
  <2> QED BY <2>1, <2>2, <2>5, <2>6, <2>9, <2>10 DEF DrawerBounds
<1> QED BY <1>6, <1>7, <1>8

(* A file that has an :ID: has such a drawer.                              *)
LEMMA IdHasDrawer ==
  ASSUME NEW t \in Texts, FileId(t) # NoName
  PROVE  \E a, e, d : IdDrawer(t, a, e, d)
<1>1. PICK n \in Nat : n = Len(t) /\ DOMAIN t = 1..n
  BY PlacesIn
<1>2. PICK a : a = DrawerOf(t, 0)
  OBVIOUS
<1>3. PropertyWords(t, 0, "ID") # <<>>
  BY DEF FileId, IdOf, Property
<1>4. PICK e, d : PropAt(t, a, e, d, "ID")
  BY <1>2, <1>3, WordsOf
<1>5. /\ a \in 1..n /\ e \in 1..n /\ d \in (a + 1)..(e - 1)
      /\ t[a].kind = "open" /\ t[e].kind = "end"
      /\ \A i \in (a + 1)..(e - 1) : t[i].kind = "prop"
      /\ t[d].key = "ID"
      /\ \A i \in (a + 1)..(d - 1) : t[i].key # "ID"
  BY <1>1, <1>4 DEF PropAt
<1>6. PICK S : S = {i \in DOMAIN t : t[i].kind # "blank"}
  OBVIOUS
<1>7. \A x \in S : a <= x
  <2>1. S \subseteq Nat /\ a \in S
    BY <1>1, <1>5, <1>6
  <2>2. PICK none : none = Len(t) + 1
    OBVIOUS
  <2>3. \A x \in S : Least(S, none) <= x
    BY <2>1, LeastOf
  <2> QED BY <1>2, <1>6, <2>2, <2>3 DEF DrawerOf
<1>8. ASSUME NEW i \in 1..(a - 1) PROVE t[i].kind = "blank"
  <2>1. i \in DOMAIN t /\ ~ a <= i
    BY <1>1, <1>5
  <2> QED BY <1>6, <1>7, <2>1
<1>9. IdLine(t[d]) /\ \A i \in (a + 1)..(d - 1) : ~IdLine(t[i])
  BY <1>5 DEF IdLine
<1>10. IdDrawer(t, a, e, d)
  BY <1>1, <1>5, <1>8, <1>9 DEF IdDrawer
<1> QED BY <1>10

(* u begins with the first e lines of t. *)
SameTo(u, t, e) == u \in Texts /\ e <= Len(u) /\ \A i \in 1..e : u[i] = t[i]

(* A text that begins with the drawer of another has its :ID:.             *)
LEMMA SameDrawer ==
  ASSUME NEW t \in Texts, NEW a, NEW e, NEW d, IdDrawer(t, a, e, d), NEW u, SameTo(u, t, e)
  PROVE  IdDrawer(u, a, e, d) /\ FileId(u) = FileId(t)
<1>1. PICK n \in Nat : n = Len(t) /\ DOMAIN t = 1..n
  BY PlacesIn
<1>2. u \in Texts /\ Len(u) \in Nat /\ DOMAIN u = 1..Len(u) /\ e <= Len(u) /\ \A i \in 1..e : u[i] = t[i]
  BY PlacesIn DEF SameTo
<1>3. /\ a \in 1..n /\ e \in 1..n /\ d \in (a + 1)..(e - 1)
      /\ \A i \in 1..(a - 1) : t[i].kind = "blank"
      /\ t[a].kind = "open" /\ t[e].kind = "end"
      /\ \A i \in (a + 1)..(e - 1) : t[i].kind = "prop"
      /\ IdLine(t[d])
      /\ \A i \in (a + 1)..(d - 1) : ~IdLine(t[i])
  BY <1>1 DEF IdDrawer
<1>4. a \in 1..e /\ d \in 1..e /\ e \in 1..e
  BY <1>3
<1>5. \A i \in 1..(a - 1) : i \in 1..e
  BY <1>3
<1>6. \A i \in (a + 1)..(e - 1) : i \in 1..e
  BY <1>3
<1>7. \A i \in (a + 1)..(d - 1) : i \in 1..e
  BY <1>3
<1>8. a \in DOMAIN u /\ e \in DOMAIN u
  BY <1>2, <1>3, <1>4
<1>9. u[a] = t[a] /\ u[e] = t[e] /\ u[d] = t[d]
  BY <1>2, <1>4
<1>10. \A i \in 1..(a - 1) : u[i].kind = "blank"
  BY <1>2, <1>3, <1>5
<1>11. \A i \in (a + 1)..(e - 1) : u[i].kind = "prop"
  BY <1>2, <1>3, <1>6
<1>12. \A i \in (a + 1)..(d - 1) : ~IdLine(u[i])
  BY <1>2, <1>3, <1>7
<1>13. IdDrawer(u, a, e, d)
  BY <1>3, <1>8, <1>9, <1>10, <1>11, <1>12 DEF IdDrawer
<1>14. FileId(t) = t[d].val[1] /\ FileId(u) = u[d].val[1]
  BY <1>2, <1>13, DrawerIs
<1> QED BY <1>9, <1>13, <1>14

(* Nothing but a headline, a keyword or a text comes after the drawer.     *)
LEMMA PastTheDrawer ==
  ASSUME NEW t \in Texts, NEW a, NEW e, NEW d, IdDrawer(t, a, e, d), NEW i \in DOMAIN t,
         t[i].kind \in {"head", "kw", "text"}
  PROVE  i > e
<1>1. PICK n \in Nat : n = Len(t) /\ DOMAIN t = 1..n
  BY PlacesIn
<1>2. a \in 1..n /\ e \in 1..n /\ i \in 1..n
  BY <1>1 DEF IdDrawer
<1>3. i \notin 1..(a - 1) /\ i # a /\ i \notin (a + 1)..(e - 1) /\ i # e
  BY DEF IdDrawer
<1> QED BY <1>2, <1>3

(* So what is put in there, or taken out, leaves the drawer as it is.      *)
LEMMA EditsBelow ==
  ASSUME NEW t \in Texts, NEW e \in DOMAIN t
  PROVE  /\ \A lines \in Texts, at \in (e + 1)..(Len(t) + 1) : SameTo(Splice(t, at, lines), t, e)
         /\ \A begin \in (e + 1)..(Len(t) + 1), end \in (e + 1)..(Len(t) + 1) :
              begin <= end => SameTo(Cut(t, begin, end), t, e)
         /\ \A l \in NoteLine, at \in (e + 1)..(Len(t) + 1) : SameTo(InsertAt(t, at, l), t, e)
         /\ \A l \in NoteLine, at \in (e + 1)..Len(t) : SameTo(ReplaceAt(t, at, l), t, e)
         /\ \A at \in (e + 1)..Len(t) : SameTo(RemoveAt(t, at), t, e)
<1>1. PICK n \in Nat : n = Len(t) /\ DOMAIN t = 1..n /\ e \in 1..n
  BY PlacesIn
<1>2. ASSUME NEW lines \in Texts, NEW at \in (e + 1)..(n + 1) PROVE SameTo(Splice(t, at, lines), t, e)
  <2>1. PICK l \in Nat : l = Len(lines)
    BY PlacesIn
  <2>2. at \in 1..(n + 1)
    BY <1>1
  <2>3. PICK u : u = Splice(t, at, lines) /\ PutIn(u, t, n, at, lines, l)
    BY <1>1, <2>1, <2>2, SpliceIs
  <2>4. u \in Texts /\ Len(u) = n + l /\ \A i \in 1..(at - 1) : u[i] = t[i]
    BY <2>3 DEF PutIn
  <2>5. e <= n + l /\ \A i \in 1..e : i \in 1..(at - 1)
    BY <1>1
  <2>6. SameTo(u, t, e)
    BY <2>4, <2>5 DEF SameTo
  <2> QED BY <2>3, <2>6
<1>3. ASSUME NEW begin \in (e + 1)..(n + 1), NEW end \in (e + 1)..(n + 1), begin <= end
      PROVE  SameTo(Cut(t, begin, end), t, e)
  <2>1. PICK c \in Nat : c = end - begin
    BY <1>1, <1>3
  <2>2. begin \in 1..(n + 1) /\ end \in begin..(n + 1)
    BY <1>1, <1>3
  <2>3. PICK u : u = Cut(t, begin, end) /\ TakenOut(u, t, n, begin, c)
    BY <1>1, <2>1, <2>2, CutIs
  <2>4. u \in Texts /\ Len(u) = n - c /\ \A i \in 1..(begin - 1) : u[i] = t[i]
    BY <2>3 DEF TakenOut
  <2>5. e <= n - c /\ \A i \in 1..e : i \in 1..(begin - 1)
    BY <1>1, <2>1, <2>2
  <2>6. SameTo(u, t, e)
    BY <2>4, <2>5 DEF SameTo
  <2> QED BY <2>3, <2>6
<1>4. ASSUME NEW l \in NoteLine, NEW at \in (e + 1)..(n + 1) PROVE SameTo(InsertAt(t, at, l), t, e)
  <2>1. PICK lines : lines = <<l>>
    OBVIOUS
  <2>2. InsertAt(t, at, l) = Splice(t, at, lines)
    BY <2>1 DEF InsertAt, Splice
  <2>3. lines \in Texts
    BY <2>1 DEF Texts
  <2> QED BY <1>2, <2>2, <2>3
<1>5. ASSUME NEW l \in NoteLine, NEW at \in (e + 1)..n PROVE SameTo(ReplaceAt(t, at, l), t, e)
  <2>1. PICK u : u = ReplaceAt(t, at, l)
    OBVIOUS
  <2>2. at \in DOMAIN t
    BY <1>1
  <2>3. u \in Texts /\ Len(u) = n
    BY <1>1, <2>1, <2>2 DEF ReplaceAt, Texts
  <2>4. ASSUME NEW i \in 1..e PROVE u[i] = t[i]
    <3>1. i # at /\ i \in DOMAIN t
      BY <1>1
    <3> QED BY <2>1, <3>1 DEF ReplaceAt
  <2>5. e <= n
    BY <1>1
  <2>6. SameTo(u, t, e)
    BY <2>3, <2>4, <2>5 DEF SameTo
  <2> QED BY <2>1, <2>6
<1>6. ASSUME NEW at \in (e + 1)..n PROVE SameTo(RemoveAt(t, at), t, e)
  <2>1. at \in (e + 1)..(n + 1) /\ at + 1 \in (e + 1)..(n + 1) /\ at <= at + 1
    BY <1>1
  <2>2. RemoveAt(t, at) = Cut(t, at, at + 1)
    BY DEF RemoveAt, Cut
  <2>3. SameTo(Cut(t, at, at + 1), t, e)
    BY <1>3, <2>1
  <2> QED BY <2>2, <2>3
<1> QED BY <1>1, <1>2, <1>3, <1>4, <1>5, <1>6

(* A file with an :ID: that stays so, with the same. *)
KeepsId(t, u) == FileId(t) # NoName => FileId(u) = FileId(t)

(* A keyword is set below the drawer.                                      *)
LEMMA SetKeywordKeepsId ==
  ASSUME NEW t \in Texts, NEW key, NEW val, val # <<>> => Kw(key, val) \in NoteLine
  PROVE  KeepsId(t, SetKeyword(t, key, val))
<1>1. SUFFICES ASSUME FileId(t) # NoName PROVE FileId(SetKeyword(t, key, val)) = FileId(t)
  BY DEF KeepsId
<1>2. PICK n \in Nat : n = Len(t) /\ DOMAIN t = 1..n
  BY PlacesIn
<1>3. PICK a, e, d : IdDrawer(t, a, e, d)
  BY <1>1, IdHasDrawer
<1>4. e \in DOMAIN t /\ e \in 1..n /\ a \in 1..n /\ a < e
  BY <1>2, <1>3 DEF IdDrawer
<1>5. PICK pe \in 1..(n + 1) : pe = FirstHeadline(t) /\ pe > e
  BY <1>2, <1>3, PlacesIn, DrawerIs
<1>6. PICK S : S = {i \in 1..(pe - 1) : t[i].kind = "kw" /\ t[i].key = key}
  OBVIOUS
<1>7. PICK at : at = Least(S, 0)
  OBVIOUS
<1>8. at # 0 => at \in (e + 1)..n
  <2>1. S \subseteq Nat
    BY <1>6
  <2>2. at = 0 \/ at \in S
    BY <1>7, <2>1, LeastOf
  <2>3. ASSUME at \in S PROVE at \in (e + 1)..n
    <3>1. at \in DOMAIN t /\ t[at].kind \in {"head", "kw", "text"}
      BY <1>2, <1>6, <2>3
    <3>2. at > e
      BY <1>3, <3>1, PastTheDrawer
    <3> QED BY <1>2, <1>4, <3>1, <3>2
  <2> QED BY <2>2, <2>3
<1>9. PICK ins \in (e + 1)..(n + 1) : ins = KeywordInsertion(t, key)
  <2>1. PICK D : D = DrawerBounds(t) /\ D = (a + 1)..e
    BY <1>3, DrawerIs
  <2>2. Max({0} \cup D) = e
    <3>1. PICK m : m = Max({0} \cup D) /\ m \in {0} \cup D /\ \A x \in D : x <= m
      <4>1. D \subseteq 1..n
        BY <1>4, <2>1
      <4> QED BY <4>1, GreatestOf
    <3>2. e \in D /\ \A x \in {0} \cup D : x \in 0..e
      BY <1>4, <2>1
    <3>3. e <= m /\ m \in 0..e
      BY <3>1, <3>2
    <3> QED BY <1>4, <3>1, <3>3
  <2>3. PICK kws : kws = {i \in (e + 1)..(pe - 1) : t[i].kind = "kw"}
    OBVIOUS
  <2>4. KeywordInsertion(t, key) = IF key = "title" \/ kws = {} THEN e + 1 ELSE Max(kws) + 1
    BY <1>5, <2>1, <2>2, <2>3 DEF KeywordInsertion
  <2>5. kws # {} => Max(kws) \in (e + 1)..(pe - 1)
    <3>1. kws \subseteq 0..n
      BY <1>2, <1>4, <2>3
    <3>2. kws # {} => Max(kws) \in kws
      BY <3>1, GreatestExists
    <3> QED BY <2>3, <3>2
  <2>6. kws # {} => Max(kws) + 1 \in (e + 1)..(n + 1)
    BY <1>4, <1>5, <2>5
  <2>7. e + 1 \in (e + 1)..(n + 1)
    BY <1>4
  <2> QED BY <2>4, <2>6, <2>7
<1>10. PICK u : u = SetKeyword(t, key, val)
  OBVIOUS
<1>11. u = IF at # 0
     THEN IF val = <<>> THEN RemoveAt(t, at) ELSE ReplaceAt(t, at, Kw(key, val))
     ELSE IF val = <<>> THEN t ELSE InsertAt(t, ins, Kw(key, val))
  BY <1>5, <1>6, <1>7, <1>9, <1>10 DEF SetKeyword
<1>12. PICK l : l = Kw(key, val)
  OBVIOUS
<1>13. SameTo(u, t, e)
  <2>1. CASE at # 0 /\ val = <<>>
    <3>1. at \in (e + 1)..Len(t) /\ u = RemoveAt(t, at)
      BY <1>2, <1>8, <1>11, <2>1
    <3> QED BY <1>4, <3>1, EditsBelow
  <2>2. CASE at # 0 /\ val # <<>>
    <3>1. at \in (e + 1)..Len(t) /\ u = ReplaceAt(t, at, l) /\ l \in NoteLine
      BY <1>2, <1>8, <1>11, <1>12, <2>2
    <3> QED BY <1>4, <3>1, EditsBelow
  <2>3. CASE at = 0 /\ val = <<>>
    <3>1. u = t
      BY <1>11, <2>3
    <3> QED BY <1>2, <1>4, <3>1 DEF SameTo
  <2>4. CASE at = 0 /\ val # <<>>
    <3>1. ins \in (e + 1)..(Len(t) + 1) /\ u = InsertAt(t, ins, l) /\ l \in NoteLine
      BY <1>2, <1>11, <1>12, <2>4
    <3> QED BY <1>4, <3>1, EditsBelow
  <2> QED BY <2>1, <2>2, <2>3, <2>4
<1>14. FileId(u) = FileId(t)
  BY <1>3, <1>13, SameDrawer
<1> QED BY <1>10, <1>14

(* A property other than :ID: is set in the drawer, and leaves the :ID:.   *)
LEMMA SetDrawerKeepsId ==
  ASSUME NEW t \in Texts, NEW key \in Vocabulary, key # "ID", NEW val \in Seq(Vocabulary)
  PROVE  KeepsId(t, SetDrawerProperty(t, key, val))
<1>1. SUFFICES ASSUME FileId(t) # NoName PROVE FileId(SetDrawerProperty(t, key, val)) = FileId(t)
  BY DEF KeepsId
<1>2. PICK n \in Nat : n = Len(t) /\ DOMAIN t = 1..n
  BY PlacesIn
<1>3. PICK a, e, d : IdDrawer(t, a, e, d)
  BY <1>1, IdHasDrawer
<1>4. /\ a \in 1..n /\ e \in 1..n /\ d \in (a + 1)..(e - 1)
      /\ \A i \in 1..(a - 1) : t[i].kind = "blank"
      /\ t[a].kind = "open" /\ t[e].kind = "end"
      /\ \A i \in (a + 1)..(e - 1) : t[i].kind = "prop"
      /\ IdLine(t[d])
      /\ \A i \in (a + 1)..(d - 1) : ~IdLine(t[i])
  BY <1>2, <1>3 DEF IdDrawer
<1>5. PICK drawer : drawer = DrawerBounds(t) /\ drawer = (a + 1)..e
  BY <1>3, DrawerIs
<1>6. drawer # {} /\ Max(drawer) = e
  <2>1. drawer \subseteq 0..n /\ drawer # {}
    BY <1>4, <1>5
  <2>2. PICK m : m = Max(drawer) /\ m \in drawer /\ \A x \in drawer : x <= m
    BY <2>1, GreatestExists
  <2>3. e \in drawer
    BY <1>4, <1>5
  <2>4. e <= m /\ m \in (a + 1)..e
    BY <1>5, <2>2, <2>3
  <2> QED BY <1>4, <2>1, <2>2, <2>4
<1>7. PICK S : S = {i \in drawer : t[i].kind = "prop" /\ t[i].key = key}
  OBVIOUS
<1>8. PICK at : at = Least(S, 0)
  OBVIOUS
<1>9. at = 0 \/ (at \in (a + 1)..(e - 1) /\ ~IdLine(t[at]))
  <2>1. S \subseteq Nat
    BY <1>4, <1>5, <1>7
  <2>2. at = 0 \/ at \in S
    BY <1>8, <2>1, LeastOf
  <2>3. ASSUME at \in S PROVE at \in (a + 1)..(e - 1) /\ ~IdLine(t[at])
    <3>1. at \in (a + 1)..e /\ t[at].kind = "prop" /\ t[at].key = key
      BY <1>5, <1>7, <2>3
    <3>2. at # e
      BY <1>4, <3>1
    <3> QED BY <1>4, <3>1, <3>2 DEF IdLine
  <2> QED BY <2>2, <2>3
<1>10. PICK l : l = Prop(key, val)
  OBVIOUS
<1>11. l.kind = "prop" /\ l.key = key /\ (val # <<>> => l \in NoteLine)
  <2>1. val # <<>> => Prop(key, val) \in NoteLine
    BY LinesTyped
  <2> QED BY <1>10, <2>1 DEF Prop, Of
<1>12. PICK u : u = SetDrawerProperty(t, key, val)
  OBVIOUS
<1>13. u = IF at # 0 THEN IF val = <<>> THEN RemoveAt(t, at) ELSE ReplaceAt(t, at, l)
           ELSE IF val = <<>> THEN t ELSE InsertAt(t, e, l)
  <2>1. SetDrawerProperty(t, key, val) =
         CASE drawer = {} /\ val = <<>> -> t
           [] drawer = {} /\ val # <<>> -> <<Open, l, End>> \o t
           [] at # 0 /\ val = <<>>      -> RemoveAt(t, at)
           [] at # 0 /\ val # <<>>      -> ReplaceAt(t, at, l)
           [] OTHER -> IF val = <<>> THEN t ELSE InsertAt(t, e, l)
    BY <1>5, <1>6, <1>7, <1>8, <1>10 DEF SetDrawerProperty
  <2>2. CASE at # 0 /\ val = <<>>
    BY <1>6, <1>12, <2>1, <2>2
  <2>3. CASE at # 0 /\ val # <<>>
    BY <1>6, <1>12, <2>1, <2>3
  <2>4. CASE at = 0
    BY <1>6, <1>12, <2>1, <2>4
  <2> QED BY <2>2, <2>3, <2>4
<1>14. CASE at # 0 /\ val = <<>>
  <2>1. at \in 1..(n + 1) /\ at + 1 \in at..(n + 1) /\ 1 = (at + 1) - at /\ at \in (a + 1)..(e - 1)
    BY <1>2, <1>4, <1>9, <1>14
  <2>2. u = Cut(t, at, at + 1)
    BY <1>13, <1>14 DEF RemoveAt, Cut
  <2>3. TakenOut(u, t, n, at, 1)
    BY <1>2, <2>1, <2>2, CutIs
  <2>4. u \in Texts /\ Len(u) = n - 1 /\ (\A i \in 1..(at - 1) : u[i] = t[i]) /\ \A i \in (at + 1)..n : u[i - 1] = t[i]
    BY <2>3 DEF TakenOut
  <2>5. DOMAIN u = 1..(n - 1)
    BY <2>4, PlacesIn
  <2>6. PICK r \in Int : r = IF d < at THEN d ELSE d - 1
    BY <1>4
  <2>7. d # at
    BY <1>4, <1>9, <1>14
  <2>8. a \in DOMAIN u /\ e - 1 \in DOMAIN u /\ r \in (a + 1)..((e - 1) - 1)
    BY <1>4, <2>1, <2>5, <2>6, <2>7
  <2>9. \A i \in 1..(a - 1) : u[i].kind = "blank"
    <3> SUFFICES ASSUME NEW i \in 1..(a - 1) PROVE u[i].kind = "blank"
      OBVIOUS
    <3>1. i \in 1..(at - 1)
      BY <1>4, <2>1
    <3> QED BY <1>4, <2>4, <3>1
  <2>10. u[a].kind = "open" /\ u[e - 1].kind = "end"
    <3>1. a \in 1..(at - 1) /\ e \in (at + 1)..n
      BY <1>4, <2>1
    <3> QED BY <1>4, <2>4, <3>1
  <2>11. ASSUME NEW i \in (a + 1)..((e - 1) - 1) PROVE u[i].kind = "prop"
    <3>1. CASE i < at
      <4>1. i \in 1..(at - 1) /\ i \in (a + 1)..(e - 1)
        BY <1>4, <2>1, <3>1
      <4> QED BY <1>4, <2>4, <4>1
    <3>2. CASE ~ i < at
      <4>1. i + 1 \in (at + 1)..n /\ i + 1 \in (a + 1)..(e - 1) /\ (i + 1) - 1 = i
        BY <1>4, <2>1, <3>2
      <4>2. u[(i + 1) - 1] = t[i + 1]
        BY <2>4, <4>1
      <4> QED BY <1>4, <4>1, <4>2
    <3> QED BY <3>1, <3>2
  <2>12. u[r] = t[d]
    <3>1. CASE d < at
      <4>1. d \in 1..(at - 1) /\ r = d
        BY <1>4, <2>1, <2>6, <3>1
      <4> QED BY <2>4, <4>1
    <3>2. CASE ~ d < at
      <4>1. d \in (at + 1)..n /\ r = d - 1
        BY <1>4, <2>1, <2>6, <2>7, <3>2
      <4> QED BY <2>4, <4>1
    <3> QED BY <3>1, <3>2
  <2>13. ASSUME NEW i \in (a + 1)..(r - 1) PROVE ~IdLine(u[i])
    <3>1. CASE i < at
      <4>1. i \in 1..(at - 1) /\ i \in (a + 1)..(d - 1)
        BY <1>4, <2>1, <2>6, <2>8, <3>1
      <4> QED BY <1>4, <2>4, <4>1
    <3>2. CASE ~ i < at
      <4>1. i + 1 \in (at + 1)..n /\ i + 1 \in (a + 1)..(d - 1) /\ (i + 1) - 1 = i
        BY <1>4, <2>1, <2>6, <2>8, <3>2
      <4>2. u[(i + 1) - 1] = t[i + 1]
        BY <2>4, <4>1
      <4> QED BY <1>4, <4>1, <4>2
    <3> QED BY <3>1, <3>2
  <2>14. IdDrawer(u, a, e - 1, r)
    BY <1>4, <2>8, <2>9, <2>10, <2>11, <2>12, <2>13 DEF IdDrawer
  <2>15. FileId(u) = u[r].val[1] /\ FileId(t) = t[d].val[1]
    BY <1>3, <2>4, <2>14, DrawerIs
  <2> QED BY <1>12, <2>12, <2>15
<1>15. CASE at # 0 /\ val # <<>>
  <2>1. at \in (a + 1)..(e - 1) /\ at \in 1..n
    BY <1>4, <1>9, <1>15
  <2>2. u = ReplaceAt(t, at, l) /\ l \in NoteLine
    BY <1>11, <1>13, <1>15
  <2>3. /\ u \in Texts /\ Len(u) = n /\ DOMAIN u = 1..n /\ u[at] = l
        /\ \A i \in 1..n : i # at => u[i] = t[i]
    BY <1>2, <2>1, <2>2 DEF ReplaceAt, Texts
  <2>4. ~IdLine(l)
    BY <1>11 DEF IdLine
  <2>5. d # at /\ d \in 1..n /\ a # at /\ e # at
    BY <1>4, <1>9, <1>15, <2>1
  <2>6. \A i \in 1..(a - 1) : i \in 1..n /\ i # at
    BY <1>4, <2>1
  <2>7. \A i \in (a + 1)..(e - 1) : u[i].kind = "prop"
    <3> SUFFICES ASSUME NEW i \in (a + 1)..(e - 1) PROVE u[i].kind = "prop"
      OBVIOUS
    <3>1. i \in 1..n
      BY <1>4
    <3> QED BY <1>4, <1>11, <2>3, <3>1
  <2>8. \A i \in (a + 1)..(d - 1) : ~IdLine(u[i])
    <3> SUFFICES ASSUME NEW i \in (a + 1)..(d - 1) PROVE ~IdLine(u[i])
      OBVIOUS
    <3>1. i \in 1..n
      BY <1>4
    <3> QED BY <1>4, <2>3, <2>4, <3>1
  <2>9. u[d] = t[d] /\ u[a] = t[a] /\ u[e] = t[e] /\ \A i \in 1..(a - 1) : u[i] = t[i]
    BY <1>4, <2>3, <2>5, <2>6
  <2>10. IdDrawer(u, a, e, d)
    BY <1>4, <2>3, <2>7, <2>8, <2>9 DEF IdDrawer
  <2>11. FileId(u) = u[d].val[1] /\ FileId(t) = t[d].val[1]
    BY <1>3, <2>3, <2>10, DrawerIs
  <2> QED BY <1>12, <2>9, <2>11
<1>16. CASE at = 0 /\ val # <<>>
  <2>1. PICK lines : lines = <<l>>
    OBVIOUS
  <2>2. u = Splice(t, e, lines) /\ lines \in Texts /\ 1 = Len(lines) /\ lines[1] = l
    <3>1. u = InsertAt(t, e, l) /\ l \in NoteLine
      BY <1>11, <1>13, <1>16
    <3>2. InsertAt(t, e, l) = Splice(t, e, lines)
      BY <2>1 DEF InsertAt, Splice
    <3>3. lines \in Texts
      BY <2>1, <3>1 DEF Texts
    <3>4. 1 = Len(lines) /\ lines[1] = l
      BY <2>1
    <3> QED BY <3>1, <3>2, <3>3, <3>4
  <2>3. PutIn(u, t, n, e, lines, 1)
    <3>1. e \in 1..(n + 1)
      BY <1>4
    <3> QED BY <1>2, <2>2, <3>1, SpliceIs
  <2>4. /\ u \in Texts /\ Len(u) = n + 1 /\ (\A i \in 1..(e - 1) : u[i] = t[i])
        /\ (\A i \in 1..1 : u[e - 1 + i] = lines[i]) /\ \A i \in e..n : u[i + 1] = t[i]
    BY <2>3 DEF PutIn
  <2>5. DOMAIN u = 1..(n + 1)
    BY <2>4, PlacesIn
  <2>6. u[e] = l
    <3>1. 1 \in 1..1 /\ e - 1 + 1 = e
      BY <1>4
    <3> QED BY <2>2, <2>4, <3>1
  <2>7. u[e + 1] = t[e]
    <3>1. e \in e..n
      BY <1>4
    <3> QED BY <2>4, <3>1
  <2>8. a \in DOMAIN u /\ e + 1 \in DOMAIN u /\ d \in (a + 1)..((e + 1) - 1)
    BY <1>4, <2>5
  <2>9. \A i \in (a + 1)..((e + 1) - 1) : u[i].kind = "prop"
    <3> SUFFICES ASSUME NEW i \in (a + 1)..((e + 1) - 1) PROVE u[i].kind = "prop"
      OBVIOUS
    <3>1. i = e \/ (i \in (a + 1)..(e - 1) /\ i \in 1..(e - 1))
      BY <1>4
    <3> QED BY <1>4, <1>11, <2>4, <2>6, <3>1
  <2>10. a \in 1..(e - 1) /\ d \in 1..(e - 1) /\ (\A i \in 1..(a - 1) : i \in 1..(e - 1))
         /\ \A i \in (a + 1)..(d - 1) : i \in 1..(e - 1)
    BY <1>4
  <2>11. u[a] = t[a] /\ u[d] = t[d] /\ (\A i \in 1..(a - 1) : u[i] = t[i])
         /\ \A i \in (a + 1)..(d - 1) : u[i] = t[i]
    BY <2>4, <2>10
  <2>12. IdDrawer(u, a, e + 1, d)
    BY <1>4, <2>7, <2>8, <2>9, <2>11 DEF IdDrawer
  <2>13. FileId(u) = u[d].val[1] /\ FileId(t) = t[d].val[1]
    BY <1>3, <2>4, <2>12, DrawerIs
  <2> QED BY <1>12, <2>11, <2>13
<1>17. CASE at = 0 /\ val = <<>>
  BY <1>12, <1>13, <1>17
<1> QED BY <1>14, <1>15, <1>16, <1>17

(* The body of the file begins below the drawer, as that of a headline     *)
(* begins, and its subtree ends, below it.                                 *)
LEMMA BodiesBelow ==
  ASSUME NEW t \in Texts
  PROVE  /\ \A a, e, d : IdDrawer(t, a, e, d) => BodyStart(t) \in (e + 1)..(Len(t) + 1)
         /\ \A h \in Headlines(t) : /\ HeadlineBody(t, h) \in (h + 1)..(Len(t) + 1)
                                    /\ SubtreeEnd(t, h) \in (h + 1)..(Len(t) + 1)
<1>1. PICK n \in Nat : n = Len(t) /\ DOMAIN t = 1..n /\ Headlines(t) \subseteq 1..n
  BY PlacesIn
<1>2. ASSUME NEW a, NEW e, NEW d, IdDrawer(t, a, e, d) PROVE BodyStart(t) \in (e + 1)..(n + 1)
  <2>1. /\ a \in 1..n /\ e \in 1..n
        /\ \A i \in 1..(a - 1) : t[i].kind = "blank"
        /\ t[a].kind = "open"
        /\ \A i \in (a + 1)..(e - 1) : t[i].kind = "prop"
    BY <1>1, <1>2 DEF IdDrawer
  <2>2. PICK pe \in 1..(n + 1) : pe = FirstHeadline(t) /\ pe > e
    BY <1>1, <1>2, PlacesIn, DrawerIs
  <2>3. PICK S : S = {i \in 1..(pe - 1) : t[i].kind \notin {"blank", "kw"} /\ ~InDrawer(t, 1, i)}
    OBVIOUS
  <2>4. ASSUME NEW i \in S PROVE i > e
    <3>1. SUFFICES ASSUME i <= e PROVE FALSE
      BY <2>1, <2>2, <2>3
    <3>2. i \in 1..e /\ t[i].kind # "blank" /\ ~InDrawer(t, 1, i)
      BY <2>1, <2>2, <2>3, <3>1
    <3>3. i \notin 1..(a - 1)
      BY <2>1, <3>2
    <3>4. a \in 1..i
      BY <2>1, <3>2, <3>3
    <3>5. \A j \in (a + 1)..(i - 1) : j \in (a + 1)..(e - 1)
      BY <2>1, <3>2
    <3>6. InDrawer(t, 1, i)
      BY <2>1, <3>4, <3>5 DEF InDrawer
    <3> QED BY <3>2, <3>6
  <2>5. S \subseteq Nat /\ S \subseteq 1..(pe - 1)
    BY <2>3
  <2>6. BodyStart(t) = Least(S, pe)
    BY <2>2, <2>3 DEF BodyStart
  <2>7. Least(S, pe) = pe \/ Least(S, pe) \in S
    BY <2>5, LeastOf
  <2>8. ASSUME NEW x \in S PROVE x \in (e + 1)..(n + 1)
    BY <2>1, <2>2, <2>4, <2>5
  <2>9. pe \in (e + 1)..(n + 1)
    BY <2>1, <2>2
  <2> QED BY <2>6, <2>7, <2>8, <2>9
<1>3. ASSUME NEW h \in 1..n, NEW S, S \subseteq (h + 1)..n PROVE Least(S, n + 1) \in (h + 1)..(n + 1)
  <2>1. PICK none : none = n + 1
    OBVIOUS
  <2>2. S \subseteq Nat
    BY <1>3
  <2>3. Least(S, none) = none \/ Least(S, none) \in S
    BY <2>2, LeastOf
  <2>4. none \in (h + 1)..(n + 1) /\ \A x \in S : x \in (h + 1)..(n + 1)
    BY <1>3, <2>1
  <2> QED BY <2>1, <2>3, <2>4
<1>4. ASSUME NEW h \in Headlines(t)
      PROVE  HeadlineBody(t, h) \in (h + 1)..(n + 1) /\ SubtreeEnd(t, h) \in (h + 1)..(n + 1)
  <2>1. h \in 1..n
    BY <1>1
  <2>2. PICK S : S = {i \in (h + 1)..n : t[i].kind # "plan" /\ ~InDrawer(t, h + 1, i)}
    OBVIOUS
  <2>3. HeadlineBody(t, h) = Least(S, n + 1) /\ S \subseteq (h + 1)..n
    BY <1>1, <2>2 DEF HeadlineBody
  <2>4. PICK R : R = {g \in Headlines(t) : g > h /\ Parent(t, g) = Parent(t, h)}
    OBVIOUS
  <2>5. SubtreeEnd(t, h) = Least(R, n + 1) /\ R \subseteq (h + 1)..n
    BY <1>1, <2>1, <2>4 DEF SubtreeEnd
  <2>6. Least(S, n + 1) \in (h + 1)..(n + 1)
    BY <1>3, <2>1, <2>3
  <2>7. Least(R, n + 1) \in (h + 1)..(n + 1)
    BY <1>3, <2>1, <2>5
  <2> QED BY <2>3, <2>5, <2>6, <2>7
<1> QED BY <1>1, <1>2, <1>4

(* Two texts one after another begin as the first one does.                *)
LEMMA JoinKeeps ==
  ASSUME NEW t \in Texts, NEW e \in Nat, NEW x, SameTo(x, t, e), NEW y \in Texts
  PROVE  SameTo(x \o y, t, e)
<1>1. x \in Texts /\ e <= Len(x) /\ \A i \in 1..e : x[i] = t[i]
  BY DEF SameTo
<1>2. PICK k \in Nat : k = Len(x)
  BY <1>1, PlacesIn
<1>3. PICK l \in Nat : l = Len(y)
  BY PlacesIn
<1>4. PICK c : c = x \o y /\ Joins(c, x, k, y, l)
  BY <1>1, <1>2, <1>3, JoinIs
<1>5. c \in Texts /\ Len(c) = k + l /\ \A i \in 1..k : c[i] = x[i]
  BY <1>4 DEF Joins
<1>6. e <= k + l /\ \A i \in 1..e : i \in 1..k
  BY <1>1, <1>2
<1>7. SameTo(c, t, e)
  BY <1>1, <1>5, <1>6 DEF SameTo
<1> QED BY <1>4, <1>7

(* What replaces the body goes below the drawer, for the header has it.    *)
LEMMA ReplaceBodyKeepsId ==
  ASSUME NEW t \in Texts, NEW body \in Texts
  PROVE  KeepsId(t, ReplaceFileBody(t, body))
<1>1. SUFFICES ASSUME FileId(t) # NoName PROVE FileId(ReplaceFileBody(t, body)) = FileId(t)
  BY DEF KeepsId
<1>2. PICK n \in Nat : n = Len(t) /\ DOMAIN t = 1..n
  BY PlacesIn
<1>3. PICK a, e, d : IdDrawer(t, a, e, d)
  BY <1>1, IdHasDrawer
<1>4. e \in 1..n /\ t[e].kind = "end"
  BY <1>2, <1>3 DEF IdDrawer
<1>5. PICK b \in (e + 1)..(n + 1) : b = BodyStart(t)
  BY <1>2, <1>3, BodiesBelow
<1>6. b \in 1..(n + 1)
  BY <1>4
<1>7. PICK top, rest : Parts(t, b, n, top, rest)
  BY <1>2, <1>6, PartsIs
<1>8. /\ top = SubSeq(t, 1, b - 1) /\ top \in Texts /\ Len(top) = b - 1
      /\ \A i \in 1..(b - 1) : top[i] = t[i]
  BY <1>7 DEF Parts
<1>9. DOMAIN top = 1..(b - 1)
  BY <1>8, PlacesIn
<1>10. PICK S : S = {i \in DOMAIN top : top[i].kind # "blank"}
  OBVIOUS
<1>11. e \in S /\ S \subseteq 1..(b - 1) /\ b - 1 \in Nat
  <2>1. e \in 1..(b - 1)
    BY <1>4
  <2>2. top[e].kind # "blank"
    BY <1>4, <1>8, <2>1
  <2> QED BY <1>6, <1>9, <1>10, <2>1, <2>2
<1>12. PICK m \in 0..(b - 1) : m = Max({0} \cup S) /\ e <= m
  <2>1. PICK top2 \in Nat : top2 = b - 1
    BY <1>11
  <2>2. Max({0} \cup S) \in 0..top2 /\ \A x \in S : x <= Max({0} \cup S)
    BY <1>11, <2>1, GreatestOf
  <2> QED BY <1>11, <2>1, <2>2
<1>13. PICK header : header = TrimEnd(top) /\ header \in Texts
  BY <1>8, TrimTyped
<1>14. SameTo(header, t, e)
  <2>1. header = SubSeq(top, 1, m)
    BY <1>10, <1>12, <1>13 DEF TrimEnd
  <2>2. PICK q \in 1..((b - 1) + 1) : q = m + 1 /\ q - 1 = m
    BY <1>6, <1>12
  <2>3. PICK l \in Nat : l = b - 1
    BY <1>11
  <2>4. PICK x, y : Parts(top, q, l, x, y)
    <3>1. q \in 1..(l + 1)
      BY <2>2, <2>3
    <3> QED BY <1>8, <2>3, <3>1, PartsIs
  <2>5. x = header /\ Len(x) = m /\ \A i \in 1..m : x[i] = top[i]
    BY <2>1, <2>2, <2>4 DEF Parts
  <2>6. \A i \in 1..e : i \in 1..m /\ i \in 1..(b - 1)
    BY <1>12, <1>4
  <2> QED BY <1>8, <1>12, <1>13, <2>5, <2>6 DEF SameTo
<1>15. header # <<>>
  <2>1. e <= Len(header) /\ e >= 1
    BY <1>4, <1>14 DEF SameTo
  <2> QED BY <1>4, <2>1
<1>16. PICK new : new = TrimEnd(body) /\ new \in Texts
  BY TrimTyped
<1>17. PICK blank \in Texts : blank = <<Blank>>
  <2>1. <<Blank>> \in Texts
    BY LinesTyped DEF Texts
  <2> QED BY <2>1
<1>18. PICK u : u = ReplaceFileBody(t, body)
  OBVIOUS
<1>19. u = IF new = <<>> THEN header \o new ELSE (header \o blank) \o new
  <2>1. u = IF new = <<>> \/ header = <<>> THEN header \o new ELSE header \o <<Blank>> \o new
    BY <1>5, <1>8, <1>13, <1>16, <1>18 DEF ReplaceFileBody
  <2> QED BY <1>15, <1>17, <2>1
<1>20. SameTo(u, t, e)
  <2>1. e \in Nat
    BY <1>4
  <2>2. SameTo(header \o new, t, e)
    BY <1>14, <1>16, <2>1, JoinKeeps
  <2>3. SameTo(header \o blank, t, e)
    BY <1>14, <2>1, JoinKeeps
  <2>4. SameTo((header \o blank) \o new, t, e)
    BY <1>16, <2>1, <2>3, JoinKeeps
  <2> QED BY <1>19, <2>2, <2>4
<1>21. FileId(u) = FileId(t)
  BY <1>3, <1>20, SameDrawer
<1> QED BY <1>18, <1>21

(* An update that is not refused sets no :ID:.                             *)
LEMMA UpdateKeepsId ==
  ASSUME NEW t \in Texts, NEW p \in Params, ~Refused(p)
  PROVE  KeepsId(t, ApplyNodeEdits(t, p))
<1>1. /\ p.title # NoName => Kw("title", <<p.title>>) \in NoteLine
      /\ p.tags # NoName => p.tags \in Seq(Tags)
      /\ p.aliases # NoName => p.aliases \in Seq(Vocabulary)
      /\ p.refs # NoName => p.refs \in Seq(Vocabulary)
      /\ p.property # NoName => p.property \in Vocabulary
      /\ p.body # NoName => p.body \in Texts
  BY AskedTyped
<1>2. p.property # "ID"
  BY DEF Refused
<1>3. \A x : KeepsId(x, x)
  BY DEF KeepsId
<1>4. PICK a \in Texts : a = Apply(p.title, SetKeyword(t, "title", <<p.title>>), t) /\ KeepsId(t, a)
  <2>1. p.title # NoName => /\ SetKeyword(t, "title", <<p.title>>) \in Texts
                            /\ KeepsId(t, SetKeyword(t, "title", <<p.title>>))
    BY <1>1, SetKeywordTyped, SetKeywordKeepsId
  <2> QED BY <1>3, <2>1 DEF Apply
<1>5. PICK b \in Texts : b = Apply(p.tags, SetKeyword(a, "filetags", p.tags), a) /\ KeepsId(a, b)
  <2>1. p.tags # NoName => (p.tags # <<>> => Kw("filetags", p.tags) \in NoteLine)
    BY <1>1, TagKeywordTyped
  <2>2. p.tags # NoName => /\ SetKeyword(a, "filetags", p.tags) \in Texts
                           /\ KeepsId(a, SetKeyword(a, "filetags", p.tags))
    BY <2>1, SetKeywordTyped, SetKeywordKeepsId
  <2> QED BY <1>3, <2>2 DEF Apply
<1>6. {"ROAM_ALIASES", "ROAM_REFS", "value"} \subseteq Vocabulary
  BY NoteTextAssumption DEF Literals
<1>7. "ROAM_ALIASES" # "ID" /\ "ROAM_REFS" # "ID"
  OBVIOUS
<1>8. PICK c \in Texts : c = Apply(p.aliases, SetDrawerProperty(b, "ROAM_ALIASES", p.aliases), b) /\ KeepsId(b, c)
  <2>1. p.aliases # NoName => /\ SetDrawerProperty(b, "ROAM_ALIASES", p.aliases) \in Texts
                              /\ KeepsId(b, SetDrawerProperty(b, "ROAM_ALIASES", p.aliases))
    BY <1>1, <1>6, <1>7, SetDrawerTyped, SetDrawerKeepsId
  <2> QED BY <1>3, <2>1 DEF Apply
<1>9. PICK d \in Texts : d = Apply(p.refs, SetDrawerProperty(c, "ROAM_REFS", p.refs), c) /\ KeepsId(c, d)
  <2>1. p.refs # NoName => /\ SetDrawerProperty(c, "ROAM_REFS", p.refs) \in Texts
                           /\ KeepsId(c, SetDrawerProperty(c, "ROAM_REFS", p.refs))
    BY <1>1, <1>6, <1>7, SetDrawerTyped, SetDrawerKeepsId
  <2> QED BY <1>3, <2>1 DEF Apply
<1>10. PICK e \in Texts : e = Apply(p.property, SetDrawerProperty(d, p.property, <<"value">>), d) /\ KeepsId(d, e)
  <2>1. PICK val \in Seq(Vocabulary) : val = <<"value">>
    <3>1. PICK word \in Vocabulary : word = "value"
      BY <1>6
    <3>2. <<word>> \in Seq(Vocabulary)
      OBVIOUS
    <3> QED BY <3>1, <3>2
  <2>2. p.property # NoName => /\ SetDrawerProperty(d, p.property, val) \in Texts
                               /\ KeepsId(d, SetDrawerProperty(d, p.property, val))
    BY <1>1, <1>2, <2>1, SetDrawerTyped, SetDrawerKeepsId
  <2> QED BY <1>3, <2>1, <2>2 DEF Apply
<1>11. p.body # NoName => KeepsId(e, ReplaceFileBody(e, p.body))
  BY <1>1, ReplaceBodyKeepsId
<1>12. ApplyNodeEdits(t, p) = Apply(p.body, ReplaceFileBody(e, p.body), e)
  BY <1>4, <1>5, <1>8, <1>9, <1>10 DEF ApplyNodeEdits
<1>13. KeepsId(e, ApplyNodeEdits(t, p))
  BY <1>3, <1>11, <1>12 DEF Apply
<1> QED BY <1>4, <1>5, <1>8, <1>9, <1>10, <1>13 DEF KeepsId

(* A place below the drawer of the file, if that has an :ID:.              *)
Below(t, at) == \A a, e, d : IdDrawer(t, a, e, d) => at \in (e + 1)..(Len(t) + 1)

(* There is one at the end, at headlines and texts, and at the bodies and  *)
(* the ends of the subtrees.                                               *)
LEMMA PlacesBelow ==
  ASSUME NEW t \in Texts
  PROVE  /\ Below(t, Len(t) + 1) /\ Below(t, BodyStart(t))
         /\ \A h \in Headlines(t) : Below(t, h) /\ Below(t, HeadlineBody(t, h)) /\ Below(t, SubtreeEnd(t, h))
         /\ \A i \in DOMAIN t : t[i].kind = "text" => Below(t, i)
<1>1. PICK n \in Nat : n = Len(t) /\ DOMAIN t = 1..n /\ Headlines(t) \subseteq 1..n
  BY PlacesIn
<1>2. ASSUME NEW a, NEW e, NEW d, IdDrawer(t, a, e, d)
      PROVE  e \in 1..n /\ n + 1 \in (e + 1)..(n + 1) /\ BodyStart(t) \in (e + 1)..(n + 1)
  <2>1. e \in 1..n
    BY <1>1, <1>2 DEF IdDrawer
  <2> QED BY <1>1, <1>2, <2>1, BodiesBelow
<1>3. ASSUME NEW i \in 1..n, t[i].kind \in {"head", "text"},
             NEW a, NEW e, NEW d, IdDrawer(t, a, e, d)
      PROVE  i \in (e + 1)..(n + 1)
  <2>1. i > e
    BY <1>1, <1>3, PastTheDrawer
  <2> QED BY <1>2, <1>3, <2>1
<1>4. ASSUME NEW h \in Headlines(t), NEW a, NEW e, NEW d, IdDrawer(t, a, e, d)
      PROVE  /\ h \in (e + 1)..(n + 1)
             /\ HeadlineBody(t, h) \in (e + 1)..(n + 1) /\ SubtreeEnd(t, h) \in (e + 1)..(n + 1)
  <2>1. h \in 1..n /\ t[h].kind = "head"
    BY <1>1 DEF Headlines
  <2>2. h \in (e + 1)..(n + 1) /\ e \in 1..n
    BY <1>2, <1>3, <1>4, <2>1
  <2>3. HeadlineBody(t, h) \in (h + 1)..(n + 1) /\ SubtreeEnd(t, h) \in (h + 1)..(n + 1)
    BY <1>1, BodiesBelow
  <2>4. \A x \in (h + 1)..(n + 1) : x \in (e + 1)..(n + 1)
    BY <2>2
  <2> QED BY <2>2, <2>3, <2>4
<1>5. Below(t, n + 1) /\ Below(t, BodyStart(t))
  BY <1>1, <1>2 DEF Below
<1>6. \A h \in Headlines(t) : Below(t, h) /\ Below(t, HeadlineBody(t, h)) /\ Below(t, SubtreeEnd(t, h))
  BY <1>1, <1>4 DEF Below
<1>7. \A i \in DOMAIN t : t[i].kind = "text" => Below(t, i)
  BY <1>1, <1>3 DEF Below
<1> QED BY <1>1, <1>5, <1>6, <1>7

(* What is put in below the drawer, or taken out, leaves the file its :ID:. *)
LEMMA EditsKeepId ==
  ASSUME NEW t \in Texts, NEW at, Below(t, at)
  PROVE  /\ \A lines \in Texts : KeepsId(t, Splice(t, at, lines))
         /\ \A end : Below(t, end) /\ at <= end => KeepsId(t, Cut(t, at, end))
<1>1. ASSUME FileId(t) # NoName
      PROVE  /\ \A lines \in Texts : FileId(Splice(t, at, lines)) = FileId(t)
             /\ \A end : Below(t, end) /\ at <= end => FileId(Cut(t, at, end)) = FileId(t)
  <2>1. PICK a, e, d : IdDrawer(t, a, e, d)
    BY <1>1, IdHasDrawer
  <2>2. e \in DOMAIN t
    BY <2>1 DEF IdDrawer
  <2>3. at \in (e + 1)..(Len(t) + 1)
    BY <2>1 DEF Below
  <2>4. ASSUME NEW lines \in Texts PROVE FileId(Splice(t, at, lines)) = FileId(t)
    <3>1. SameTo(Splice(t, at, lines), t, e)
      BY <2>2, <2>3, EditsBelow
    <3> QED BY <2>1, <3>1, SameDrawer
  <2>5. ASSUME NEW end, Below(t, end), at <= end PROVE FileId(Cut(t, at, end)) = FileId(t)
    <3>1. end \in (e + 1)..(Len(t) + 1)
      BY <2>1, <2>5 DEF Below
    <3>2. SameTo(Cut(t, at, end), t, e)
      BY <2>2, <2>3, <2>5, <3>1, EditsBelow
    <3> QED BY <2>1, <3>2, SameDrawer
  <2> QED BY <2>4, <2>5
<1> QED BY <1>1 DEF KeepsId

(* What is put under a headline, or at the end.                            *)
LEMMA InsertKeepsId ==
  ASSUME NEW t \in Texts, NEW aim, Located(t, aim), NEW content \in Texts
  PROVE  KeepsId(t, InsertUnderHeadline(t, aim, content))
<1>1. PICK at : at = IF aim = NoName THEN Len(t) + 1 ELSE SubtreeEnd(t, HeadlineTitled(t, aim))
  OBVIOUS
<1>2. Below(t, at)
  <2>1. CASE aim = NoName
    BY <1>1, <2>1, PlacesBelow
  <2>2. CASE aim # NoName
    <3>1. HeadlineTitled(t, aim) \in Headlines(t)
      <4>1. PICK S : S = {h \in Headlines(t) : t[h].key = aim}
        OBVIOUS
      <4>2. S \subseteq Nat
        BY <4>1, PlacesIn
      <4>3. Least(S, 0) = 0 \/ Least(S, 0) \in S
        BY <4>2, LeastOf
      <4> QED BY <2>2, <4>1, <4>3 DEF Located, HeadlineTitled
    <3> QED BY <1>1, <2>2, <3>1, PlacesBelow
  <2> QED BY <2>1, <2>2
<1>3. PICK lines \in Texts : lines = <<Blank>> \o TrimEnd(content)
  <2>1. <<Blank>> \in Texts
    BY LinesTyped DEF Texts
  <2> QED BY <2>1, TrimTyped, ConcatProperties DEF Texts
<1>4. InsertUnderHeadline(t, aim, content) = Splice(t, at, lines)
  BY <1>1, <1>3 DEF InsertUnderHeadline
<1> QED BY <1>2, <1>3, <1>4, EditsKeepId

(* So do the tag tools.                                                    *)
LEMMA RetagKeepsId ==
  ASSUME NEW t \in Texts, NEW tags \in Seq(Tags)
  PROVE  KeepsId(t, ApplyFileTags(t, tags))
<1>1. PICK u \in Texts : u = SetKeyword(t, "filetags", tags) /\ KeepsId(t, u)
  <2>1. tags # <<>> => Kw("filetags", tags) \in NoteLine
    BY TagKeywordTyped
  <2> QED BY <2>1, SetKeywordTyped, SetKeywordKeepsId
<1>2. PICK none : none = <<>>
  OBVIOUS
<1>3. KeepsId(u, SetKeyword(u, "roam_tags", none))
  BY <1>2, SetKeywordKeepsId
<1> QED BY <1>1, <1>2, <1>3 DEF ApplyFileTags, KeepsId

(* No step changes the :ID: of a file.                                     *)
LEMMA StepKeepsId ==
  ASSUME TypeOK, Next, Exists, Exists', ~MarkerElsewhere
  PROVE  KeepsId(text, text')
<1>1. text \in Texts
  BY DEF TypeOK, Texts
<1>2. CASE Refresh
  BY <1>2 DEF Refresh, KeepsId
<1>3. ASSUME NEW id \in Uuids, NEW p \in Params, CreateNode(id, p) PROVE FALSE
  BY <1>3 DEF CreateNode
<1>4. ASSUME NEW id \in Uuids, NEW p \in Params, UpdateNode(id, p) PROVE KeepsId(text, text')
  <2>1. ~Refused(p) /\ text' = ApplyNodeEdits(text, p)
    BY <1>4 DEF UpdateNode, Write
  <2>2. KeepsId(text, ApplyNodeEdits(text, p))
    BY <1>1, <2>1, UpdateKeepsId
  <2> QED BY <2>1, <2>2
<1>5. ASSUME NEW id, NEW aim, NEW content \in Contents, AppendToNode(id, aim, content)
      PROVE  KeepsId(text, text')
  <2>1. Located(text, aim) /\ text' = InsertUnderHeadline(text, aim, content)
    BY <1>5 DEF AppendToNode, Write
  <2>2. KeepsId(text, InsertUnderHeadline(text, aim, content))
    BY <1>1, <2>1, GivenTexts, InsertKeepsId
  <2> QED BY <2>1, <2>2
<1>6. ASSUME NEW id, NEW aim, NEW content \in Contents, PrependToNode(id, aim, content)
      PROVE  KeepsId(text, text')
  <2>1. PICK at : at = PrependOffset(text, id, aim)
    OBVIOUS
  <2>2. at # 0 /\ text' = Splice(text, at, TrimEnd(content) \o <<Blank>>)
    BY <1>6, <2>1 DEF PrependToNode, Write
  <2>3. Below(text, at)
    <3>1. PICK h : h = IF aim # NoName THEN HeadlineTitled(text, aim) ELSE HeadlineById(text, id)
      OBVIOUS
    <3>2. h = 0 \/ h \in Headlines(text)
      <4>1. \A S \in SUBSET Headlines(text) : Least(S, 0) = 0 \/ Least(S, 0) \in S
        <5>1. Headlines(text) \subseteq Nat
          BY <1>1, PlacesIn
        <5> QED BY <5>1, LeastOf
      <4>2. HeadlineTitled(text, aim) = 0 \/ HeadlineTitled(text, aim) \in Headlines(text)
        BY <4>1 DEF HeadlineTitled
      <4>3. HeadlineById(text, id) = 0 \/ HeadlineById(text, id) \in Headlines(text)
        BY <4>1 DEF HeadlineById, HeadlineWith
      <4> QED BY <3>1, <4>2, <4>3
    <3>3. at = BodyStart(text) \/ at = 0 \/ (h # 0 /\ at = HeadlineBody(text, h))
      BY <2>1, <3>1 DEF PrependOffset
    <3> QED BY <1>1, <2>2, <3>2, <3>3, PlacesBelow
  <2>4. PICK lines \in Texts : lines = TrimEnd(content) \o <<Blank>>
    <3>1. <<Blank>> \in Texts
      BY LinesTyped DEF Texts
    <3>2. TrimEnd(content) \in Texts
      BY GivenTexts, TrimTyped
    <3>3. TrimEnd(content) \o <<Blank>> \in Texts
      BY <3>1, <3>2, ConcatProperties DEF Texts
    <3> QED BY <3>3
  <2>5. KeepsId(text, Splice(text, at, lines))
    BY <1>1, <2>3, EditsKeepId
  <2> QED BY <2>2, <2>4, <2>5
<1>7. ASSUME NEW id \in Uuids, NEW aim, NEW content \in Contents, DailyCapture(id, aim, content)
      PROVE  KeepsId(text, text')
  <2>1. text' = IF Located(text, aim) THEN InsertUnderHeadline(text, aim, content) ELSE text
    BY <1>7 DEF DailyCapture, Write
  <2>2. Located(text, aim) => KeepsId(text, InsertUnderHeadline(text, aim, content))
    BY <1>1, GivenTexts, InsertKeepsId
  <2>3. KeepsId(text, text)
    BY DEF KeepsId
  <2> QED BY <2>1, <2>2, <2>3
<1>8. ASSUME NEW id, NEW target \in Uuids, NEW aim, AddLink(id, target, aim) PROVE KeepsId(text, text')
  <2>1. PICK line \in NoteLine : line = Text(<<"link", target>>)
    <3>1. PICK word \in Vocabulary : word = "link"
      BY NoteTextAssumption DEF Literals
    <3>2. target \in Vocabulary
      BY NoteTextAssumption
    <3>3. <<word, target>> \in Seq(Vocabulary)
      BY <3>2
    <3> QED BY <3>1, <3>3, LinesTyped
  <2>2. PICK lines : lines = <<line>>
    OBVIOUS
  <2>3. lines \in Texts
    BY <2>2 DEF Texts
  <2>4. Located(text, aim) /\ text' = InsertUnderHeadline(text, aim, lines)
    BY <1>8, <2>1, <2>2 DEF AddLink, Write
  <2>5. KeepsId(text, InsertUnderHeadline(text, aim, lines))
    BY <1>1, <2>3, <2>4, InsertKeepsId
  <2> QED BY <2>4, <2>5
<1>9. ASSUME NEW id \in Uuids, NEW word \in Words, NEW name \in Names, InsertAnchor(id, word, name)
      PROVE  KeepsId(text, text')
  <2>1. PICK at : at = SearchText(text, word)
    OBVIOUS
  <2>2. InParagraph(word)
    BY <1>9 DEF MarkerElsewhere
  <2>3. at # 0 /\ text' = MarkerInserted(text, word, name) /\ text[at].kind = "text"
    BY <1>9, <2>1, <2>2 DEF InsertAnchor, Write, InParagraph
  <2>4. at \in DOMAIN text
    <3>1. at \in 0..Len(text) /\ Len(text) \in Nat /\ DOMAIN text = 1..Len(text)
      BY <1>1, <2>1, SearchIn, PlacesIn
    <3> QED BY <2>3, <3>1
  <2>5. Below(text, at)
    BY <1>1, <2>3, <2>4, PlacesBelow
  <2>6. PICK line \in NoteLine : line = Of("target", name, <<>>)
    BY LinesTyped, NoteTextAssumption
  <2>7. PICK lines : lines = <<line>>
    OBVIOUS
  <2>8. lines \in Texts
    BY <2>7 DEF Texts
  <2>9. KeepsId(text, Splice(text, at, lines))
    BY <1>1, <2>5, <2>8, EditsKeepId
  <2> QED BY <2>1, <2>3, <2>6, <2>7, <2>9 DEF MarkerInserted
<1>10. ASSUME NEW id, NEW title \in Titles, RenameNode(id, title) PROVE KeepsId(text, text')
  <2>1. Kw("title", <<title>>) \in NoteLine
    BY LinesTyped, NoteTextAssumption
  <2>2. KeepsId(text, SetKeyword(text, "title", <<title>>))
    BY <1>1, <2>1, SetKeywordKeepsId
  <2> QED BY <1>10, <2>2 DEF RenameNode, Write
<1>11. ASSUME NEW id, NEW tags \in TagLists, AddTag(id, tags) \/ RemoveTag(id, tags) \/ SetTags(id, tags)
       PROVE  KeepsId(text, text')
  <2>1. Added(tags) \in Seq(Tags) /\ Remaining(tags) \in Seq(Tags) /\ Dedup(tags) \in Seq(Tags)
    BY NewTagsOnce
  <2>2. PICK new \in Seq(Tags) : Retag(id, new)
    BY <1>11, <2>1 DEF AddTag, RemoveTag, SetTags
  <2>3. text' = ApplyFileTags(text, new)
    BY <2>2 DEF Retag, Write
  <2>4. KeepsId(text, ApplyFileTags(text, new))
    BY <1>1, RetagKeepsId
  <2> QED BY <2>3, <2>4
<1>12. ASSUME NEW id, DeleteNode(id) PROVE KeepsId(text, text')
  <2>1. CASE known[id] = "file"
    <3>1. text' = <<>>
      BY <1>12, <2>1 DEF DeleteNode, Write
    <3> QED BY <3>1 DEF Exists
  <2>2. CASE known[id] # "file"
    <3>1. PICK h : h = HeadlineById(text, id)
      OBVIOUS
    <3>2. h # 0 /\ text' = Cut(text, h, SubtreeEnd(text, h))
      BY <1>12, <2>2, <3>1 DEF DeleteNode, Write
    <3>3. h \in Headlines(text)
      <4>1. \A S \in SUBSET Headlines(text) : Least(S, 0) = 0 \/ Least(S, 0) \in S
        <5>1. Headlines(text) \subseteq Nat
          BY <1>1, PlacesIn
        <5> QED BY <5>1, LeastOf
      <4> QED BY <3>1, <3>2, <4>1 DEF HeadlineById, HeadlineWith
    <3>4. h <= SubtreeEnd(text, h)
      <4>1. h \in Nat /\ SubtreeEnd(text, h) \in (h + 1)..(Len(text) + 1)
        BY <1>1, <3>3, BodiesBelow, PlacesIn
      <4> QED BY <4>1
    <3>5. PICK end : end = SubtreeEnd(text, h) /\ Below(text, end) /\ Below(text, h)
      BY <1>1, <3>3, PlacesBelow
    <3>6. KeepsId(text, Cut(text, h, end))
      BY <1>1, <3>4, <3>5, EditsKeepId
    <3> QED BY <3>2, <3>5, <3>6
  <2> QED BY <2>1, <2>2
<1> QED BY <1>2, <1>3, <1>4, <1>5, <1>6, <1>7, <1>8, <1>9, <1>10, <1>11, <1>12 DEF Next

(* The server's other readers of the :ID: find that of orgize; the scan    *)
(* that takes the last one, if there is no other.                          *)
LEMMA ReadersOfId ==
  ASSUME NEW t \in Texts, FileId(t) # NoName
  PROVE  ExtractFileId(t) = FileId(t) /\ (IdOnce(t) => DrawerId(t) = FileId(t))
<1>1. PICK n \in Nat : n = Len(t) /\ DOMAIN t = 1..n
  BY PlacesIn
<1>2. PICK a, e, d : IdDrawer(t, a, e, d)
  BY IdHasDrawer
<1>3. /\ a \in 1..n /\ e \in 1..n /\ d \in (a + 1)..(e - 1)
      /\ \A i \in 1..(a - 1) : t[i].kind = "blank"
      /\ t[a].kind = "open" /\ t[e].kind = "end"
      /\ \A i \in (a + 1)..(e - 1) : t[i].kind = "prop"
      /\ IdLine(t[d])
      /\ \A i \in (a + 1)..(d - 1) : ~IdLine(t[i])
  BY <1>1, <1>2 DEF IdDrawer
<1>4. PICK pe \in 1..(n + 1) : pe = FirstHeadline(t) /\ pe > e /\ FileId(t) = t[d].val[1]
  BY <1>1, <1>2, PlacesIn, DrawerIs
<1>5. ExtractFileId(t) = FileId(t)
  <2>1. PICK lines : lines = {i \in 1..(pe - 1) : t[i].kind = "prop" /\ t[i].key = "ID"}
    OBVIOUS
  <2>2. lines \subseteq Nat /\ d \in lines
    BY <1>3, <1>4, <2>1 DEF IdLine
  <2>3. ASSUME NEW y \in lines PROVE d <= y
    <3>1. y \in 1..(pe - 1) /\ IdLine(t[y]) /\ t[y].kind = "prop"
      BY <2>1 DEF IdLine
    <3>2. y \notin 1..(a - 1) /\ y # a /\ y \notin (a + 1)..(d - 1)
      BY <1>3, <3>1
    <3> QED BY <1>3, <3>1, <3>2
  <2>4. Min(lines) = d
    BY <2>2, <2>3, LeastIs
  <2> QED BY <1>4, <2>1, <2>2, <2>4 DEF ExtractFileId
<1>6. DrawerLines(t) = a..e
  <2>1. PICK S : S = {i \in DOMAIN t : t[i].kind = "open"}
    OBVIOUS
  <2>2. S \subseteq Nat /\ a \in S
    BY <1>1, <1>3, <2>1
  <2>3. ASSUME NEW y \in S PROVE a <= y
    <3>1. y \in 1..n /\ t[y].kind = "open"
      BY <1>1, <2>1
    <3>2. y \notin 1..(a - 1)
      BY <1>3, <3>1
    <3> QED BY <1>3, <3>1, <3>2
  <2>4. Least(S, n) = a
    BY <2>2, <2>3, LeastIs
  <2>5. PICK E : E = {i \in (a + 1)..n : t[i].kind = "end"}
    OBVIOUS
  <2>6. E \subseteq Nat /\ e \in E
    BY <1>3, <2>5
  <2>7. ASSUME NEW y \in E PROVE e <= y
    <3>1. y \in (a + 1)..n /\ t[y].kind = "end"
      BY <2>5
    <3>2. y \notin (a + 1)..(e - 1)
      BY <1>3, <3>1
    <3> QED BY <1>3, <3>1, <3>2
  <2>8. Least(E, 0) = e
    BY <2>6, <2>7, LeastIs
  <2>9. e # 0
    BY <1>3
  <2> QED BY <1>1, <2>1, <2>4, <2>5, <2>8, <2>9 DEF DrawerLines
<1>7. ASSUME IdOnce(t) PROVE DrawerId(t) = FileId(t)
  <2>1. PICK lines : lines = {i \in a..e : t[i].kind = "prop" /\ t[i].key = "ID"}
    OBVIOUS
  <2>2. d \in lines /\ d \in a..e
    BY <1>3, <2>1 DEF IdLine
  <2>3. ASSUME NEW y \in lines PROVE y = d
    <3>1. y \in a..e /\ t[y].kind = "prop" /\ t[y].key = "ID" /\ t[d].kind = "prop" /\ t[d].key = "ID"
      BY <1>3, <2>1 DEF IdLine
    <3>2. {t[y].kind, t[d].kind} = {"prop"} /\ {t[y].key, t[d].key} = {"ID"}
      BY <3>1
    <3> QED BY <1>6, <1>7, <2>2, <3>1, <3>2 DEF IdOnce
  <2>4. Max(lines) = d
    <3>1. lines \subseteq 0..n /\ lines # {}
      BY <1>3, <2>1, <2>2
    <3>2. Max(lines) \in lines
      BY <3>1, GreatestExists
    <3> QED BY <2>3, <3>2
  <2>5. DrawerValue(t, "ID") = t[d].val
    BY <1>6, <2>1, <2>2, <2>4 DEF DrawerValue
  <2>6. t[d].val # <<>>
    <3>1. t[d] \in NoteLine
      BY <1>1, <1>3 DEF Texts
    <3> QED BY <1>3, <3>1 DEF NoteLine, IdLine
  <2> QED BY <1>4, <2>5, <2>6 DEF DrawerId
<1> QED BY <1>5, <1>7

(* Whatever the calls, unless a marker is put outside of paragraphs, a file *)
(* keeps its :ID: through every edit, and daily_capture and validation     *)
(* read the one that the index has.                                        *)
THEOREM FileIdStays == Spec => FileIdKept
<1>1. ASSUME TypeOK, TypeOK', [Next]_vars, text' # text, Exists', ~MarkerElsewhere
      PROVE  /\ Exists /\ FileId(text) # NoName => FileId(text') = FileId(text)
             /\ FileId(text') # NoName =>
                  /\ ExtractFileId(text') = FileId(text')
                  /\ IdOnce(text') => DrawerId(text') = FileId(text')
  <2>1. Next
    BY <1>1 DEF vars
  <2>2. Exists => KeepsId(text, text')
    BY <1>1, <2>1, StepKeepsId
  <2>3. text' \in Texts
    BY <1>1 DEF TypeOK, Texts
  <2>4. FileId(text') # NoName => ExtractFileId(text') = FileId(text') /\ (IdOnce(text') => DrawerId(text') = FileId(text'))
    BY <2>3, ReadersOfId
  <2> QED BY <2>2, <2>4 DEF KeepsId
<1>2. TypeOK /\ TypeOK' /\ [Next]_vars =>
        [Exists' /\ ~MarkerElsewhere =>
           /\ Exists /\ FileId(text) # NoName => FileId(text') = FileId(text)
           /\ FileId(text') # NoName =>
                /\ ExtractFileId(text') = FileId(text')
                /\ IdOnce(text') => DrawerId(text') = FileId(text')]_text
  BY <1>1
<1> QED BY <1>2, TextsStayTexts, PTL DEF Spec, FileIdKept

-----------------------------------------------------------------------------
(* The anchor that is found                                                *)

(* A line has a word. *)
Has(l, word) == word = l.key \/ Contains(l.val, word)

(* The line at p alone has the name, as a <<target>>. *)
OnlyMarker(t, p, name) ==
  /\ t \in Texts /\ p \in 1..Len(t)
  /\ t[p] = Of("target", name, <<>>)
  /\ \A j \in 1..Len(t) : j # p => ~Has(t[j], name)

(* The first line that has a word.                                         *)
LEMMA FirstWith ==
  ASSUME NEW t \in Texts, NEW word
  PROVE  /\ SearchText(t, word) = 0 => \A i \in 1..Len(t) : ~Has(t[i], word)
         /\ SearchText(t, word) # 0 => /\ SearchText(t, word) \in 1..Len(t)
                                       /\ Has(t[SearchText(t, word)], word)
<1>1. PICK n \in Nat : n = Len(t) /\ DOMAIN t = 1..n /\ 0 \notin 1..n
  BY PlacesIn
<1>2. PICK S : S = {i \in 1..Len(t) : word = t[i].key \/ Contains(t[i].val, word)}
  OBVIOUS
<1>3. SearchText(t, word) = IF S # {} THEN Min(S) ELSE 0
  BY <1>2 DEF SearchText, ByTextSearch, Found, SelectInSeq
<1>4. S \subseteq 1..Len(t)
  BY <1>2
<1>5. CASE S = {}
  <2>1. \A i \in 1..Len(t) : ~Has(t[i], word)
    BY <1>2, <1>5 DEF Has
  <2> QED BY <1>3, <1>5, <2>1
<1>6. CASE S # {}
  <2>1. Min(S) \in S /\ Min(S) \in 1..Len(t)
    BY <1>4, <1>6, FirstOfThose
  <2>2. Has(t[Min(S)], word)
    BY <1>2, <2>1 DEF Has
  <2> QED BY <1>1, <1>3, <1>6, <2>1, <2>2
<1> QED BY <1>5, <1>6

(* What is looked for by property, title or #+name: is not there.          *)
LEMMA OthersFindNothing ==
  ASSUME NEW t, NEW p, NEW name, name # NoName, OnlyMarker(t, p, name)
  PROVE  /\ ByCustomId(t, name).begin = 0 /\ ByHeadlineTitle(t, name).begin = 0
         /\ ByName(t, name).begin = 0
<1>1. /\ t \in Texts /\ p \in 1..Len(t) /\ t[p].kind = "target"
      /\ \A j \in 1..Len(t) : j # p => ~Has(t[j], name)
  BY DEF OnlyMarker, Of
<1>2. PICK n \in Nat : n = Len(t) /\ DOMAIN t = 1..n /\ Headlines(t) \subseteq 1..n
  BY <1>1, PlacesIn
<1>3. ASSUME NEW i \in 1..n, t[i].kind # "target" PROVE t[i].key # name /\ ~Contains(t[i].val, name)
  BY <1>1, <1>2, <1>3 DEF Has
<1>4. ASSUME NEW h \in Headlines(t) PROVE Property(t, h, "CUSTOM_ID") # name
  <2>1. SUFFICES ASSUME PropertyWords(t, h, "CUSTOM_ID") # <<>>, PropertyWords(t, h, "CUSTOM_ID")[1] = name
                 PROVE  FALSE
    BY DEF Property
  <2>2. PICK a : a = DrawerOf(t, h)
    OBVIOUS
  <2>3. h \in {0} \cup Headlines(t)
    OBVIOUS
  <2>4. /\ \A e, d : PropAt(t, DrawerOf(t, h), e, d, "CUSTOM_ID") =>
             /\ PropertyWords(t, h, "CUSTOM_ID") = t[d].val
             /\ t[d].val # <<>> /\ t[d].val \in Seq(Vocabulary)
        /\ PropertyWords(t, h, "CUSTOM_ID") # <<>> => \E e, d : PropAt(t, DrawerOf(t, h), e, d, "CUSTOM_ID")
    BY <1>1, <2>3, WordsOf
  <2>5. PICK e, d : PropAt(t, a, e, d, "CUSTOM_ID")
    BY <2>1, <2>2, <2>4
  <2>6. PropertyWords(t, h, "CUSTOM_ID") = t[d].val /\ t[d].val # <<>> /\ t[d].val \in Seq(Vocabulary)
    BY <2>2, <2>4, <2>5
  <2>7. d \in 1..n /\ t[d].kind = "prop"
    <3>1. a \in 1..n /\ e \in 1..n /\ d \in (a + 1)..(e - 1) /\ \A i \in (a + 1)..(e - 1) : t[i].kind = "prop"
      BY <1>2, <2>5 DEF PropAt
    <3> QED BY <3>1
  <2>8. Contains(t[d].val, name)
    <3>1. 1 \in 1..Len(t[d].val) /\ t[d].val[1] = name
      BY <2>1, <2>6
    <3> QED BY <3>1 DEF Contains
  <2> QED BY <1>3, <2>7, <2>8
<1>5. ByCustomId(t, name).begin = 0
  <2>1. PICK S : S = {h \in Headlines(t) : Property(t, h, "CUSTOM_ID") = name}
    OBVIOUS
  <2>2. S = {}
    BY <1>4, <2>1
  <2> QED BY <2>1, <2>2 DEF ByCustomId, ByHeadline, HeadlineWith, Least, Found
<1>6. ByHeadlineTitle(t, name).begin = 0
  <2>1. PICK S : S = {h \in Headlines(t) : t[h].key = name}
    OBVIOUS
  <2>2. S = {}
    <3> SUFFICES ASSUME NEW h \in Headlines(t), t[h].key = name PROVE FALSE
      BY <2>1
    <3>1. h \in 1..n /\ t[h].kind = "head"
      BY <1>2 DEF Headlines
    <3> QED BY <1>3, <3>1
  <2> QED BY <2>1, <2>2 DEF ByHeadlineTitle, ByHeadline, HeadlineTitled, Least, Found
<1>7. ByName(t, name).begin = 0
  <2>1. PICK S : S = {j \in 1..Len(t) : t[j].kind = "kw" /\ t[j].key = "name" /\ t[j].val = <<name>>}
    OBVIOUS
  <2>2. S = {}
    <3> SUFFICES ASSUME NEW j \in 1..n, t[j].kind = "kw", t[j].val = <<name>> PROVE FALSE
      BY <1>2, <2>1
    <3>1. 1 \in 1..Len(t[j].val) /\ t[j].val[1] = name
      OBVIOUS
    <3>2. Contains(t[j].val, name)
      BY <3>1 DEF Contains
    <3> QED BY <1>3, <3>2
  <2>3. ByName(t, name) = Found("name", 0, 0)
    BY <2>1, <2>2 DEF ByName, SelectInSeq
  <2> QED BY <2>3 DEF Found
<1> QED BY <1>5, <1>6, <1>7

(* So the marker is what the name stands for, up to the end of its         *)
(* paragraph.                                                              *)
LEMMA MarkerFound ==
  ASSUME NEW t, NEW p, NEW name, name # NoName, OnlyMarker(t, p, name)
  PROVE  Resolve(t, name) = Found("target", p, ParagraphEnd(t, p))
<1>1. t \in Texts /\ p \in 1..Len(t) /\ t[p].kind = "target" /\ t[p].key = name
  BY DEF OnlyMarker, Of
<1>2. PICK n \in Nat : n = Len(t) /\ DOMAIN t = 1..n /\ p # 0
  BY <1>1, PlacesIn
<1>3. ByMark(t, "target", name) = Found("target", p, ParagraphEnd(t, p))
  <2>1. PICK S : S = {j \in 1..Len(t) : t[j].kind = "target" /\ t[j].key = name}
    OBVIOUS
  <2>2. S \subseteq Nat /\ p \in S
    BY <1>1, <1>2, <2>1
  <2>3. ASSUME NEW j \in S PROVE j = p
    <3>1. j \in 1..Len(t) /\ Has(t[j], name)
      BY <2>1 DEF Has
    <3> QED BY <3>1 DEF OnlyMarker
  <2>4. Min(S) = p
    <3>1. \A j \in S : p <= j
      BY <1>1, <1>2, <2>3
    <3>2. PICK none : none = 0
      OBVIOUS
    <3> QED BY <2>2, <3>1, <3>2, LeastIs
  <2> QED BY <1>2, <2>1, <2>2, <2>4 DEF ByMark, SelectInSeq
<1>4. PICK r1, r2, r3, r4, r5, r6, r7, r8 :
        /\ r1 = ByCustomId(t, name) /\ r2 = ByHeadlineTitle(t, name) /\ r3 = ByName(t, name)
        /\ r4 = ByMark(t, "target", name) /\ r5 = ByMark(t, "radio", name)
        /\ r6 = ByMark(t, "coderef", name) /\ r7 = ByMark(t, "fn", name) /\ r8 = ByTextSearch(t, name)
  OBVIOUS
<1>5. r1.begin = 0 /\ r2.begin = 0 /\ r3.begin = 0 /\ r4.begin # 0
  <2>1. ByCustomId(t, name).begin = 0 /\ ByHeadlineTitle(t, name).begin = 0 /\ ByName(t, name).begin = 0
    BY OthersFindNothing
  <2>2. r4.begin = p
    BY <1>3, <1>4 DEF Found
  <2> QED BY <1>2, <1>4, <2>1, <2>2
<1>6. PICK tried : tried = <<r1, r2, r3, r4, r5, r6, r7, r8>>
  OBVIOUS
<1>7. /\ DOMAIN tried = 1..8 /\ tried[1] = r1 /\ tried[2] = r2 /\ tried[3] = r3 /\ tried[4] = r4
  BY <1>6
<1>8. PICK hits : hits = {k \in 1..8 : tried[k].begin # 0}
  OBVIOUS
<1>9. Resolve(t, name) = IF hits = {} THEN Found("none", 0, 0) ELSE tried[Min(hits)]
  BY <1>4, <1>6, <1>7, <1>8 DEF Resolve
<1>10. 1 \notin hits /\ 2 \notin hits /\ 3 \notin hits /\ 4 \in hits
  BY <1>5, <1>7, <1>8
<1>11. Min(hits) = 4
  <2>1. \A k \in hits : 4 <= k
    BY <1>8, <1>10
  <2>2. hits \subseteq Nat
    BY <1>8
  <2>3. PICK none : none = 0
    OBVIOUS
  <2>4. PICK four \in Nat : four = 4
    OBVIOUS
  <2>5. Min(hits) = four
    BY <1>10, <2>1, <2>2, <2>3, <2>4, LeastIs
  <2> QED BY <2>4, <2>5
<1> QED BY <1>3, <1>4, <1>7, <1>9, <1>10, <1>11

(* And the text below it is in there.                                      *)
LEMMA MarkerLeads ==
  ASSUME NEW t, NEW p, NEW name, name # NoName, OnlyMarker(t, p, name),
         p + 1 \in 1..Len(t), t[p + 1].kind = "text", NEW word, Has(t[p + 1], word)
  PROVE  /\ Resolve(t, name).kind = "target"
         /\ SearchText(Lines(t, Resolve(t, name)), word) # 0
<1>1. t \in Texts /\ p \in 1..Len(t)
  BY DEF OnlyMarker
<1>2. PICK n \in Nat : n = Len(t) /\ DOMAIN t = 1..n
  BY <1>1, PlacesIn
<1>3. PICK end \in (p + 2)..(n + 1) : end = ParagraphEnd(t, p)
  <2>1. PICK S : S = {j \in DOMAIN t : j > p /\ Breaks(t[j])}
    OBVIOUS
  <2>2. ~Breaks(t[p + 1])
    BY DEF Breaks
  <2>3. \A j \in S : j \in (p + 2)..(n + 1)
    <3> SUFFICES ASSUME NEW j \in S PROVE j \in (p + 2)..(n + 1)
      OBVIOUS
    <3>1. j \in 1..n /\ j > p /\ j # p + 1
      BY <1>2, <2>1, <2>2
    <3> QED BY <1>1, <1>2, <3>1
  <2>4. S \subseteq Nat
    BY <1>2, <2>1
  <2>5. PICK none : none = n + 1
    OBVIOUS
  <2>6. Least(S, none) = none \/ Least(S, none) \in S
    BY <2>4, LeastOf
  <2>7. ParagraphEnd(t, p) = Least(S, none)
    BY <1>2, <2>1, <2>5 DEF ParagraphEnd
  <2>8. none \in (p + 2)..(n + 1)
    BY <1>1, <1>2, <2>5
  <2> QED BY <2>3, <2>6, <2>7, <2>8
<1>4. PICK found : found = Resolve(t, name) /\ found.kind = "target" /\ found.begin = p /\ found.end = end
  BY <1>3, MarkerFound DEF Found
<1>5. PICK u : u = SubSeq(t, p, end - 1) /\ u \in Texts /\ Len(u) >= 2 /\ u[2] = t[p + 1]
  <2>1. PICK m \in Nat : m = end - 1
    BY <1>1, <1>2, <1>3
  <2>2. p \in 1..n /\ m \in 1..n /\ m >= p + 1
    BY <1>1, <1>2, <1>3, <2>1
  <2>3. PICK u : u = SubSeq(t, p, m)
    OBVIOUS
  <2>4. /\ u \in Seq(NoteLine) /\ Len(u) = m - p + 1
        /\ \A i \in 1..(m - p + 1) : u[i] = t[p + i - 1]
    BY <1>1, <1>2, <2>2, <2>3 DEF Texts
  <2>5. 2 \in 1..(m - p + 1) /\ p + 2 - 1 = p + 1
    BY <2>2
  <2>6. u[2] = t[p + 1]
    BY <2>4, <2>5
  <2>7. PICK l \in Nat : l = m - p + 1 /\ l >= 2
    BY <2>2
  <2>8. u \in Texts /\ Len(u) >= 2
    BY <2>4, <2>7 DEF Texts
  <2> QED BY <2>1, <2>3, <2>6, <2>8
<1>6. Lines(t, found) = u
  BY <1>4, <1>5 DEF Lines
<1>7. SearchText(u, word) # 0
  <2>1. 2 \in 1..Len(u)
    <3>1. Len(u) \in Nat /\ Len(u) >= 2
      BY <1>5, PlacesIn
    <3> QED BY <3>1
  <2> QED BY <1>5, <2>1, FirstWith
<1> QED BY <1>4, <1>6, <1>7

(* Two texts that are the same above a line which is no part of a drawer.  *)
Alike(t, u, s) ==
  /\ t \in Texts /\ u \in Texts /\ s \in 1..Len(t) /\ s \in 1..Len(u)
  /\ t[s].kind \in {"text", "target"} /\ u[s].kind \in {"text", "target"}
  /\ \A i \in 1..(s - 1) : t[i] = u[i]

(* The drawers of the headlines above are the same.                        *)
LEMMA DrawersAbove ==
  ASSUME NEW t, NEW u, NEW s, Alike(t, u, s), NEW g \in 1..(s - 1)
  PROVE  /\ DrawerOf(u, g) = DrawerOf(t, g)
         /\ \A e, d, key : PropAt(t, DrawerOf(t, g), e, d, key) =>
              PropAt(u, DrawerOf(u, g), e, d, key) /\ u[d] = t[d]
<1>1. /\ t \in Texts /\ u \in Texts
      /\ t[s].kind \in {"text", "target"} /\ u[s].kind \in {"text", "target"}
      /\ \A i \in 1..(s - 1) : t[i] = u[i]
  BY DEF Alike
<1>2. PICK n \in Nat : n = Len(t) /\ DOMAIN t = 1..n
  BY <1>1, PlacesIn
<1>3. PICK m \in Nat : m = Len(u) /\ DOMAIN u = 1..m
  BY <1>1, PlacesIn
<1>4. s \in 1..n /\ s \in 1..m /\ g # 0 /\ g < n /\ g < m
  BY <1>2, <1>3 DEF Alike
<1>5. t[g + 1].kind = "plan" <=> (u[g + 1].kind = "plan" /\ g + 1 # s)
  <2>1. g + 1 \in 1..(s - 1) \/ g + 1 = s
    BY <1>4
  <2>2. CASE g + 1 = s
    BY <1>1, <2>2
  <2>3. CASE g + 1 \in 1..(s - 1)
    BY <1>1, <1>4, <2>3
  <2> QED BY <2>1, <2>2, <2>3
<1>6. u[g + 1].kind = "plan" => g + 1 # s
  BY <1>1
<1>7. PICK a : a = DrawerOf(t, g) /\ a = DrawerOf(u, g)
  BY <1>2, <1>3, <1>4, <1>5, <1>6 DEF DrawerOf
<1>8. a \in 1..s
  <2>1. a = IF t[g + 1].kind = "plan" THEN g + 2 ELSE g + 1
    BY <1>2, <1>4, <1>7 DEF DrawerOf
  <2>2. g + 1 \in 1..s /\ (g + 1 # s => g + 2 \in 1..s)
    BY <1>4
  <2> QED BY <1>5, <2>1, <2>2
<1>9. ASSUME NEW e, NEW d, NEW key, PropAt(t, a, e, d, key)
      PROVE  PropAt(u, a, e, d, key) /\ u[d] = t[d]
  <2>1. /\ a \in 1..n /\ e \in 1..n /\ d \in (a + 1)..(e - 1)
        /\ t[a].kind = "open" /\ t[e].kind = "end"
        /\ \A i \in (a + 1)..(e - 1) : t[i].kind = "prop"
        /\ t[d].key = key
        /\ \A i \in (a + 1)..(d - 1) : t[i].key # key
    BY <1>2, <1>9 DEF PropAt
  <2>2. s # a /\ s # e /\ s \notin (a + 1)..(e - 1)
    BY <1>1, <2>1
  <2>3. s > e
    BY <1>4, <1>8, <2>1, <2>2
  <2>4. a \in 1..(s - 1) /\ e \in 1..(s - 1) /\ d \in 1..(s - 1)
    BY <1>4, <2>1, <2>3
  <2>5. \A i \in (a + 1)..(e - 1) : i \in 1..(s - 1)
    BY <1>4, <2>1, <2>3
  <2>6. \A i \in (a + 1)..(d - 1) : i \in (a + 1)..(e - 1)
    BY <2>1
  <2>7. u[a] = t[a] /\ u[e] = t[e] /\ u[d] = t[d] /\ \A i \in (a + 1)..(e - 1) : u[i] = t[i]
    BY <1>1, <2>4, <2>5
  <2>8. \A i \in (a + 1)..(d - 1) : u[i].key # key
    BY <2>1, <2>6, <2>7
  <2>9. \A i \in (a + 1)..(e - 1) : u[i].kind = "prop"
    BY <2>1, <2>7
  <2>10. a \in 1..Len(u) /\ e \in 1..Len(u)
    BY <1>3, <1>4, <2>1, <2>3
  <2> QED BY <2>1, <2>7, <2>8, <2>9, <2>10 DEF PropAt
<1> QED BY <1>7, <1>9

(* So are their properties.                                                *)
LEMMA WordsAbove ==
  ASSUME NEW t, NEW u, NEW s, Alike(t, u, s), NEW g \in Headlines(t), g < s, NEW key
  PROVE  g \in Headlines(u) /\ PropertyWords(u, g, key) = PropertyWords(t, g, key)
<1>1. t \in Texts /\ u \in Texts /\ \A i \in 1..(s - 1) : t[i] = u[i]
  BY DEF Alike
<1>2. PICK n \in Nat : n = Len(t) /\ DOMAIN t = 1..n /\ Headlines(t) \subseteq 1..n
  BY <1>1, PlacesIn
<1>3. PICK m \in Nat : m = Len(u) /\ DOMAIN u = 1..m
  BY <1>1, PlacesIn
<1>4. s \in 1..n /\ s \in 1..m
  BY <1>2, <1>3 DEF Alike
<1>5. g \in 1..(s - 1) /\ g \in 1..m
  BY <1>2, <1>4
<1>6. g \in Headlines(u)
  <2>1. t[g].kind = "head" /\ u[g] = t[g]
    BY <1>1, <1>5 DEF Headlines
  <2> QED BY <1>3, <1>5, <2>1 DEF Headlines
<1>7. Alike(u, t, s)
  BY DEF Alike
<1>8. PICK a : a = DrawerOf(t, g) /\ a = DrawerOf(u, g)
  BY <1>5, DrawersAbove
<1>9. /\ \A e, d : PropAt(t, a, e, d, key) => PropAt(u, a, e, d, key) /\ u[d] = t[d]
      /\ \A e, d : PropAt(u, a, e, d, key) => PropAt(t, a, e, d, key) /\ t[d] = u[d]
  BY <1>5, <1>7, <1>8, DrawersAbove
<1>10. /\ \A e, d : PropAt(t, a, e, d, key) => PropertyWords(t, g, key) = t[d].val
       /\ PropertyWords(t, g, key) # <<>> => \E e, d : PropAt(t, a, e, d, key)
  <2>1. g \in {0} \cup Headlines(t)
    OBVIOUS
  <2>2. /\ \A e, d : PropAt(t, DrawerOf(t, g), e, d, key) =>
             /\ PropertyWords(t, g, key) = t[d].val
             /\ t[d].val # <<>> /\ t[d].val \in Seq(Vocabulary)
        /\ PropertyWords(t, g, key) # <<>> => \E e, d : PropAt(t, DrawerOf(t, g), e, d, key)
    BY <1>1, <2>1, WordsOf
  <2> QED BY <2>2, <1>8
<1>11. /\ \A e, d : PropAt(u, a, e, d, key) => PropertyWords(u, g, key) = u[d].val
       /\ PropertyWords(u, g, key) # <<>> => \E e, d : PropAt(u, a, e, d, key)
  <2>1. g \in {0} \cup Headlines(u)
    BY <1>6
  <2>2. /\ \A e, d : PropAt(u, DrawerOf(u, g), e, d, key) =>
             /\ PropertyWords(u, g, key) = u[d].val
             /\ u[d].val # <<>> /\ u[d].val \in Seq(Vocabulary)
        /\ PropertyWords(u, g, key) # <<>> => \E e, d : PropAt(u, DrawerOf(u, g), e, d, key)
    BY <1>1, <2>1, WordsOf
  <2> QED BY <2>2, <1>8
<1>12. CASE \E e, d : PropAt(t, a, e, d, key)
  BY <1>6, <1>9, <1>10, <1>11, <1>12
<1>13. CASE ~ \E e, d : PropAt(t, a, e, d, key)
  <2>1. ~ \E e, d : PropAt(u, a, e, d, key)
    BY <1>9, <1>13
  <2> QED BY <1>6, <1>10, <1>11, <1>13, <2>1
<1> QED BY <1>12, <1>13

(* u is t with a marker put in above the text at s. *)
Marked(t, s, u, name) ==
  /\ t \in Texts /\ u \in Texts /\ s \in 1..Len(t) /\ Len(u) = Len(t) + 1
  /\ t[s].kind = "text" /\ u[s] = Of("target", name, <<>>)
  /\ \A i \in 1..(s - 1) : u[i] = t[i]
  /\ \A i \in s..Len(t) : u[i + 1] = t[i]

(* The drawers of the headlines below are one line further down.           *)
LEMMA WordsBelow ==
  ASSUME NEW t, NEW s, NEW u, NEW name, Marked(t, s, u, name), NEW g \in Headlines(t), s <= g, NEW key
  PROVE  g + 1 \in Headlines(u) /\ PropertyWords(u, g + 1, key) = PropertyWords(t, g, key)
<1>1. t \in Texts /\ u \in Texts
  BY DEF Marked
<1>2. PICK n \in Nat : n = Len(t) /\ DOMAIN t = 1..n /\ Headlines(t) \subseteq 1..n
  BY <1>1, PlacesIn
<1>3. Len(u) = n + 1 /\ DOMAIN u = 1..(n + 1)
  BY <1>1, <1>2, PlacesIn DEF Marked
<1>4. s \in 1..n /\ g \in s..n /\ \A i \in s..n : u[i + 1] = t[i]
  BY <1>2 DEF Marked
<1>5. g + 1 \in Headlines(u)
  <2>1. t[g].kind = "head" /\ u[g + 1] = t[g] /\ g + 1 \in 1..(n + 1)
    BY <1>4 DEF Headlines
  <2> QED BY <1>3, <2>1 DEF Headlines
<1>6. PICK a \in (s + 1)..(n + 1) : a = DrawerOf(t, g) /\ a + 1 = DrawerOf(u, g + 1)
  <2>1. g # 0 /\ g + 1 # 0
    BY <1>4
  <2>2. CASE g < n
    <3>1. g + 1 < n + 1 /\ u[(g + 1) + 1] = t[g + 1]
      BY <1>4, <2>2
    <3>2. DrawerOf(t, g) = IF t[g + 1].kind = "plan" THEN g + 2 ELSE g + 1
      BY <1>2, <2>1, <2>2 DEF DrawerOf
    <3>3. DrawerOf(u, g + 1) = IF t[g + 1].kind = "plan" THEN (g + 1) + 2 ELSE (g + 1) + 1
      BY <1>3, <2>1, <3>1 DEF DrawerOf
    <3>4. g + 2 \in (s + 1)..(n + 1) /\ g + 1 \in (s + 1)..(n + 1) /\ (g + 1) + 2 = (g + 2) + 1
      BY <1>4, <2>2
    <3> QED BY <3>2, <3>3, <3>4
  <2>3. CASE ~ g < n
    <3>1. ~ g + 1 < n + 1
      BY <1>4, <2>3
    <3>2. DrawerOf(t, g) = g + 1 /\ DrawerOf(u, g + 1) = (g + 1) + 1
      BY <1>2, <1>3, <2>1, <2>3, <3>1 DEF DrawerOf
    <3>3. g + 1 \in (s + 1)..(n + 1)
      BY <1>4
    <3> QED BY <3>2, <3>3
  <2> QED BY <2>2, <2>3
<1>7. ASSUME NEW e, NEW d, PropAt(t, a, e, d, key)
      PROVE  PropAt(u, a + 1, e + 1, d + 1, key) /\ u[d + 1] = t[d]
  <2>1. /\ a \in 1..n /\ e \in 1..n /\ d \in (a + 1)..(e - 1)
        /\ t[a].kind = "open" /\ t[e].kind = "end"
        /\ \A i \in (a + 1)..(e - 1) : t[i].kind = "prop"
        /\ t[d].key = key
        /\ \A i \in (a + 1)..(d - 1) : t[i].key # key
    BY <1>2, <1>7 DEF PropAt
  <2>2. a \in s..n /\ e \in s..n /\ d \in s..n
    BY <1>4, <1>6, <2>1
  <2>3. u[a + 1] = t[a] /\ u[e + 1] = t[e] /\ u[d + 1] = t[d]
    BY <1>4, <2>2
  <2>4. ASSUME NEW i \in ((a + 1) + 1)..((e + 1) - 1) PROVE u[i].kind = "prop"
    <3>1. i - 1 \in s..n /\ i - 1 \in (a + 1)..(e - 1) /\ (i - 1) + 1 = i
      BY <1>4, <1>6, <2>1
    <3>2. u[(i - 1) + 1] = t[i - 1]
      BY <1>4, <3>1
    <3> QED BY <2>1, <3>1, <3>2
  <2>5. ASSUME NEW i \in ((a + 1) + 1)..((d + 1) - 1) PROVE u[i].key # key
    <3>1. i - 1 \in s..n /\ i - 1 \in (a + 1)..(d - 1) /\ (i - 1) + 1 = i
      BY <1>4, <1>6, <2>1
    <3>2. u[(i - 1) + 1] = t[i - 1]
      BY <1>4, <3>1
    <3> QED BY <2>1, <3>1, <3>2
  <2>6. a + 1 \in 1..Len(u) /\ e + 1 \in 1..Len(u) /\ d + 1 \in ((a + 1) + 1)..((e + 1) - 1)
    BY <1>3, <2>1
  <2> QED BY <2>1, <2>3, <2>4, <2>5, <2>6 DEF PropAt
<1>8. ASSUME NEW e, NEW d, PropAt(u, a + 1, e, d, key)
      PROVE  PropAt(t, a, e - 1, d - 1, key)
  <2>1. /\ a + 1 \in 1..(n + 1) /\ e \in 1..(n + 1) /\ d \in ((a + 1) + 1)..(e - 1)
        /\ u[a + 1].kind = "open" /\ u[e].kind = "end"
        /\ \A i \in ((a + 1) + 1)..(e - 1) : u[i].kind = "prop"
        /\ u[d].key = key
        /\ \A i \in ((a + 1) + 1)..(d - 1) : u[i].key # key
    BY <1>3, <1>8 DEF PropAt
  <2>2. a \in s..n /\ e - 1 \in s..n /\ d - 1 \in s..n /\ (e - 1) + 1 = e /\ (d - 1) + 1 = d
    BY <1>4, <1>6, <2>1
  <2>3. u[a + 1] = t[a] /\ u[e] = t[e - 1] /\ u[d] = t[d - 1]
    BY <1>4, <2>2
  <2>4. ASSUME NEW i \in (a + 1)..((e - 1) - 1) PROVE t[i].kind = "prop"
    <3>1. i \in s..n /\ i + 1 \in ((a + 1) + 1)..(e - 1)
      BY <1>4, <1>6, <2>1
    <3> QED BY <1>4, <2>1, <3>1
  <2>5. ASSUME NEW i \in (a + 1)..((d - 1) - 1) PROVE t[i].key # key
    <3>1. i \in s..n /\ i + 1 \in ((a + 1) + 1)..(d - 1)
      BY <1>4, <1>6, <2>1
    <3> QED BY <1>4, <2>1, <3>1
  <2>6. a \in 1..Len(t) /\ e - 1 \in 1..Len(t) /\ d - 1 \in (a + 1)..((e - 1) - 1)
    BY <1>2, <1>4, <2>1, <2>2
  <2> QED BY <2>1, <2>3, <2>4, <2>5, <2>6 DEF PropAt
<1>9. /\ \A e, d : PropAt(t, a, e, d, key) => PropertyWords(t, g, key) = t[d].val
      /\ PropertyWords(t, g, key) # <<>> => \E e, d : PropAt(t, a, e, d, key)
  <2>1. g \in {0} \cup Headlines(t)
    OBVIOUS
  <2>2. /\ \A e, d : PropAt(t, DrawerOf(t, g), e, d, key) =>
             /\ PropertyWords(t, g, key) = t[d].val
             /\ t[d].val # <<>> /\ t[d].val \in Seq(Vocabulary)
        /\ PropertyWords(t, g, key) # <<>> => \E e, d : PropAt(t, DrawerOf(t, g), e, d, key)
    BY <1>1, <2>1, WordsOf
  <2> QED BY <2>2, <1>6
<1>10. PICK f \in {0} \cup Headlines(u) : f = g + 1
  BY <1>5
<1>11. PICK b : b = a + 1 /\ b = DrawerOf(u, f)
  BY <1>6, <1>10
<1>12. /\ \A e, d : PropAt(u, b, e, d, key) => PropertyWords(u, f, key) = u[d].val
       /\ PropertyWords(u, f, key) # <<>> => \E e, d : PropAt(u, b, e, d, key)
  <2>1. f \in {0} \cup Headlines(u)
    OBVIOUS
  <2>2. /\ \A e, d : PropAt(u, DrawerOf(u, f), e, d, key) =>
             /\ PropertyWords(u, f, key) = u[d].val
             /\ u[d].val # <<>> /\ u[d].val \in Seq(Vocabulary)
        /\ PropertyWords(u, f, key) # <<>> => \E e, d : PropAt(u, DrawerOf(u, f), e, d, key)
    BY <1>1, <2>1, WordsOf
  <2> QED BY <2>2, <1>11
<1>13. CASE \E e, d : PropAt(t, a, e, d, key)
  <2>1. PICK e, d : PropAt(t, a, e, d, key)
    BY <1>13
  <2>2. PropAt(u, b, e + 1, d + 1, key) /\ u[d + 1] = t[d]
    BY <1>7, <1>11, <2>1
  <2>3. PropertyWords(t, g, key) = t[d].val /\ PropertyWords(u, f, key) = u[d + 1].val
    BY <1>9, <1>12, <2>1, <2>2
  <2> QED BY <1>5, <1>10, <2>2, <2>3
<1>14. CASE ~ \E e, d : PropAt(t, a, e, d, key)
  <2>1. ~ \E e, d : PropAt(u, b, e, d, key)
    BY <1>8, <1>11, <1>14
  <2> QED BY <1>5, <1>9, <1>10, <1>12, <1>14, <2>1
<1> QED BY <1>13, <1>14

(* A marked text is like the one before, above the marker.                 *)
LEMMA MarkedAlike ==
  ASSUME NEW t, NEW s, NEW u, NEW name, Marked(t, s, u, name)
  PROVE  Alike(t, u, s)
<1>1. t \in Texts /\ u \in Texts
  BY DEF Marked
<1>2. PICK n \in Nat : n = Len(t)
  BY <1>1, PlacesIn
<1>3. s \in 1..n /\ Len(u) = n + 1
  BY <1>2 DEF Marked
<1>4. s \in 1..Len(u) /\ s \in 1..Len(t)
  BY <1>2, <1>3
<1>5. t[s].kind = "text" /\ u[s].kind = "target" /\ \A i \in 1..(s - 1) : t[i] = u[i]
  BY DEF Marked, Of
<1> QED BY <1>1, <1>4, <1>5 DEF Alike

(* The headlines of a marked text are those there were.                    *)
LEMMA HeadlinesMarked ==
  ASSUME NEW t, NEW s, NEW u, NEW name, Marked(t, s, u, name), NEW y \in Headlines(u)
  PROVE  /\ y \in Nat /\ y # s
         /\ y < s => y \in Headlines(t) /\ y \in 1..(s - 1)
         /\ y > s => y - 1 \in Headlines(t) /\ s <= y - 1
<1>1. t \in Texts /\ u \in Texts
  BY DEF Marked
<1>2. PICK n \in Nat : n = Len(t) /\ DOMAIN t = 1..n
  BY <1>1, PlacesIn
<1>3. Len(u) = n + 1 /\ DOMAIN u = 1..(n + 1)
  BY <1>1, <1>2, PlacesIn DEF Marked
<1>4. s \in 1..n /\ (\A i \in 1..(s - 1) : u[i] = t[i]) /\ \A i \in s..n : u[i + 1] = t[i]
  BY <1>2 DEF Marked
<1>5. y \in 1..(n + 1) /\ u[y].kind = "head"
  BY <1>3 DEF Headlines
<1>6. y # s
  <2>1. u[s].kind = "target"
    BY DEF Marked, Of
  <2> QED BY <1>5, <2>1
<1>7. ASSUME y < s PROVE y \in Headlines(t) /\ y \in 1..(s - 1)
  <2>1. y \in 1..(s - 1) /\ y \in 1..n
    BY <1>4, <1>5, <1>7
  <2> QED BY <1>2, <1>4, <1>5, <2>1 DEF Headlines
<1>8. ASSUME y > s PROVE y - 1 \in Headlines(t) /\ s <= y - 1
  <2>1. y - 1 \in s..n /\ (y - 1) + 1 = y /\ y - 1 \in 1..n /\ s <= y - 1
    BY <1>4, <1>5, <1>8
  <2>2. u[(y - 1) + 1] = t[y - 1]
    BY <1>4, <2>1
  <2> QED BY <1>2, <1>5, <2>1, <2>2 DEF Headlines
<1> QED BY <1>5, <1>6, <1>7, <1>8

(* An id has the headline it had, if that is above, or none as before.     *)
LEMMA NodeStays ==
  ASSUME NEW t, NEW s, NEW u, NEW name, Marked(t, s, u, name), NEW id
  PROVE  /\ HeadlineById(t, id) = 0 => HeadlineById(u, id) = 0
         /\ HeadlineById(t, id) # 0 /\ HeadlineById(t, id) < s =>
              /\ HeadlineById(t, id) \in Headlines(t)
              /\ HeadlineById(u, id) = HeadlineById(t, id)
<1>1. t \in Texts /\ u \in Texts /\ Alike(t, u, s)
  BY MarkedAlike DEF Marked
<1>2. PICK key : key = "ID"
  OBVIOUS
<1>3. PICK S : S = {h \in Headlines(t) : Property(t, h, key) = id}
  OBVIOUS
<1>4. PICK R : R = {h \in Headlines(u) : Property(u, h, key) = id}
  OBVIOUS
<1>5. HeadlineById(t, id) = Least(S, 0) /\ HeadlineById(u, id) = Least(R, 0)
  BY <1>2, <1>3, <1>4 DEF HeadlineById, HeadlineWith
<1>6. S \subseteq Nat /\ R \subseteq Nat /\ 0 \notin S /\ s \in Nat
  <2>1. Headlines(t) \subseteq 1..Len(t) /\ Headlines(u) \subseteq 1..Len(u) /\ Len(t) \in Nat /\ s \in 1..Len(t)
    BY <1>1, PlacesIn DEF Marked
  <2> QED BY <1>3, <1>4, <2>1
<1>7. ASSUME NEW y \in R
      PROVE  \/ y < s /\ y \in S
             \/ y > s /\ y - 1 \in S
  <2>1. y \in Headlines(u) /\ Property(u, y, key) = id
    BY <1>4
  <2>2. /\ y \in Nat /\ y # s
        /\ y < s => y \in Headlines(t) /\ y \in 1..(s - 1)
        /\ y > s => y - 1 \in Headlines(t) /\ s <= y - 1
    BY <2>1, HeadlinesMarked
  <2>3. CASE y < s
    <3>1. PropertyWords(u, y, key) = PropertyWords(t, y, key)
      BY <1>1, <2>2, <2>3, WordsAbove
    <3>2. Property(u, y, key) = Property(t, y, key)
      BY <3>1 DEF Property
    <3> QED BY <1>3, <2>1, <2>2, <2>3, <3>2
  <2>4. CASE y > s
    <3>1. PICK g \in Headlines(t) : g = y - 1 /\ g + 1 = y /\ s <= g
      BY <2>2, <2>4
    <3>2. PropertyWords(u, g + 1, key) = PropertyWords(t, g, key)
      BY <3>1, WordsBelow
    <3>3. Property(u, y, key) = Property(t, g, key)
      BY <3>1, <3>2 DEF Property
    <3> QED BY <1>3, <2>1, <2>4, <3>1, <3>3
  <2> QED BY <1>6, <2>2, <2>3, <2>4
<1>8. ASSUME Least(S, 0) = 0 PROVE Least(R, 0) = 0
  <2>1. S = {}
    BY <1>6, <1>8, LeastOf
  <2>2. R = {}
    BY <1>7, <2>1
  <2> QED BY <2>2 DEF Least
<1>9. ASSUME Least(S, 0) # 0, Least(S, 0) < s
      PROVE  Least(S, 0) \in Headlines(t) /\ Least(R, 0) = Least(S, 0)
  <2>1. PICK h : h = Least(S, 0)
    OBVIOUS
  <2>2. h \in S /\ \A x \in S : h <= x
    BY <1>6, <1>9, <2>1, LeastOf
  <2>3. h \in Headlines(t) /\ Property(t, h, key) = id /\ h < s
    BY <1>3, <1>9, <2>1, <2>2
  <2>4. h \in R
    <3>1. h \in Headlines(u) /\ PropertyWords(u, h, key) = PropertyWords(t, h, key)
      BY <1>1, <2>3, WordsAbove
    <3>2. Property(u, h, key) = Property(t, h, key)
      BY <3>1 DEF Property
    <3> QED BY <1>4, <2>3, <3>1, <3>2
  <2>5. ASSUME NEW y \in R PROVE h <= y
    BY <1>6, <1>7, <2>2, <2>3
  <2>6. PICK none : none = 0
    OBVIOUS
  <2>7. Least(R, none) = h
    BY <1>6, <2>4, <2>5, LeastIs
  <2> QED BY <2>1, <2>3, <2>6, <2>7
<1> QED BY <1>5, <1>8, <1>9

(* The headlines above keep their parents.                                 *)
LEMMA ParentAbove ==
  ASSUME NEW t, NEW u, NEW s, Alike(t, u, s), NEW g \in Headlines(t), g < s
  PROVE  Parent(u, g) = Parent(t, g)
<1>1. t \in Texts /\ u \in Texts /\ \A i \in 1..(s - 1) : t[i] = u[i]
  BY DEF Alike
<1>2. PICK n \in Nat : n = Len(t) /\ DOMAIN t = 1..n
  BY <1>1, PlacesIn
<1>3. PICK m \in Nat : m = Len(u) /\ DOMAIN u = 1..m
  BY <1>1, PlacesIn
<1>4. s \in 1..n /\ s \in 1..m /\ g \in 1..(s - 1)
  <2>1. g \in 1..n
    BY <1>2 DEF Headlines
  <2> QED BY <1>2, <1>3, <2>1 DEF Alike
<1>5. ASSUME NEW k \in 1..(g - 1) PROVE k \in Headlines(u) <=> k \in Headlines(t)
  <2>1. k \in 1..n /\ k \in 1..m /\ u[k] = t[k]
    BY <1>1, <1>4
  <2> QED BY <1>2, <1>3, <2>1 DEF Headlines
<1>6. u[g] = t[g] /\ \A k \in 1..(g - 1) : u[k] = t[k]
  BY <1>1, <1>4
<1>7. /\ \A k \in Headlines(t) : k < g => k \in 1..(g - 1)
      /\ \A k \in Headlines(u) : k < g => k \in 1..(g - 1)
  BY <1>2, <1>3, <1>4 DEF Headlines
<1>8. {k \in Headlines(u) : k < g /\ u[k].level < u[g].level}
        = {k \in Headlines(t) : k < g /\ t[k].level < t[g].level}
  BY <1>5, <1>6, <1>7
<1> QED BY <1>8 DEF Parent

(* A subtree that reaches to the text reaches past the marker and the text. *)
LEMMA SubtreeReaches ==
  ASSUME NEW t, NEW s, NEW u, NEW name, Marked(t, s, u, name), NEW h \in Headlines(t),
         h < s, s < SubtreeEnd(t, h)
  PROVE  SubtreeEnd(u, h) \in (s + 2)..(Len(u) + 1)
<1>1. t \in Texts /\ u \in Texts /\ Alike(t, u, s) /\ t[s].kind = "text"
  BY MarkedAlike DEF Marked
<1>2. PICK n \in Nat : n = Len(t) /\ DOMAIN t = 1..n /\ Headlines(t) \subseteq 1..n
  BY <1>1, PlacesIn
<1>3. Len(u) = n + 1 /\ s \in 1..n /\ Headlines(u) \subseteq 1..(n + 1)
  BY <1>1, <1>2, PlacesIn DEF Marked
<1>4. PICK S : S = {g \in Headlines(t) : g > h /\ Parent(t, g) = Parent(t, h)}
  OBVIOUS
<1>5. PICK R : R = {g \in Headlines(u) : g > h /\ Parent(u, g) = Parent(u, h)}
  OBVIOUS
<1>6. PICK none \in Nat : none = Len(u) + 1 /\ none \in (s + 2)..(Len(u) + 1)
  BY <1>3
<1>7. SubtreeEnd(t, h) = Least(S, Len(t) + 1) /\ SubtreeEnd(u, h) = Least(R, none)
  BY <1>4, <1>5, <1>6 DEF SubtreeEnd
<1>8. \A g \in S : s < g
  <2>1. S \subseteq Nat
    BY <1>2, <1>4
  <2>2. \A g \in S : Least(S, Len(t) + 1) <= g
    BY <2>1, LeastOf
  <2>3. SubtreeEnd(t, h) \in Nat
    <3>1. SubtreeEnd(t, h) \in 1..(Len(t) + 1) /\ Len(t) \in Nat
      BY <1>1, PlacesIn
    <3> QED BY <3>1
  <2> QED BY <1>3, <1>7, <2>1, <2>2, <2>3
<1>9. ASSUME NEW g \in R PROVE g \in (s + 2)..(Len(u) + 1)
  <2>1. g \in Headlines(u) /\ g > h /\ Parent(u, g) = Parent(u, h)
    BY <1>5
  <2>2. /\ g \in Nat /\ g # s
        /\ g < s => g \in Headlines(t) /\ g \in 1..(s - 1)
        /\ g > s => g - 1 \in Headlines(t) /\ s <= g - 1
    BY <2>1, HeadlinesMarked
  <2>3. ~ g < s
    <3>1. SUFFICES ASSUME g < s PROVE FALSE
      OBVIOUS
    <3>2. g \in Headlines(t)
      BY <2>2, <3>1
    <3>3. Parent(u, g) = Parent(t, g)
      BY <1>1, <3>1, <3>2, ParentAbove
    <3>4. Parent(u, h) = Parent(t, h)
      BY <1>1, ParentAbove
    <3>5. g \in S
      BY <1>4, <2>1, <3>2, <3>3, <3>4
    <3> QED BY <1>3, <1>8, <2>2, <3>1, <3>5
  <2>4. g > s
    BY <1>3, <2>2, <2>3
  <2>5. g - 1 # s
    <3>1. t[g - 1].kind = "head"
      BY <2>2, <2>4 DEF Headlines
    <3> QED BY <1>1, <3>1
  <2>6. g <= n + 1
    BY <1>3, <2>1
  <2> QED BY <1>3, <2>2, <2>4, <2>5, <2>6
<1>10. R \subseteq Nat
  BY <1>3, <1>5
<1>11. Least(R, none) = none \/ Least(R, none) \in R
  BY <1>10, LeastOf
<1> QED BY <1>6, <1>7, <1>9, <1>11

(* What insert_anchor makes of a text, if it finds a paragraph.            *)
LEMMA InsertMarks ==
  ASSUME NEW t \in Texts, NEW word, SearchText(t, word) # 0, t[SearchText(t, word)].kind = "text",
         NEW name \in Vocabulary
  PROVE  Marked(t, SearchText(t, word), MarkerInserted(t, word, name), name)
<1>1. PICK s : s = SearchText(t, word)
  OBVIOUS
<1>2. PICK n \in Nat : n = Len(t)
  BY PlacesIn
<1>3. s \in 1..n /\ s \in 1..(n + 1)
  BY <1>1, <1>2, FirstWith
<1>4. PICK lines : lines = <<Of("target", name, <<>>)>>
  OBVIOUS
<1>5. lines \in Texts /\ Len(lines) = 1 /\ lines[1] = Of("target", name, <<>>)
  <2>1. PICK l \in NoteLine : l = Of("target", name, <<>>)
    BY LinesTyped
  <2>2. lines = <<l>>
    BY <1>4, <2>1
  <2> QED BY <2>1, <2>2 DEF Texts
<1>6. PICK u : u = MarkerInserted(t, word, name) /\ u = Splice(t, s, lines)
  BY <1>1, <1>4 DEF MarkerInserted
<1>7. PutIn(Splice(t, s, lines), t, n, s, lines, 1)
  <2>1. PICK one \in Nat : one = 1 /\ one = Len(lines)
    BY <1>5
  <2>2. PutIn(Splice(t, s, lines), t, n, s, lines, one)
    BY <1>2, <1>3, <1>5, <2>1, SpliceIs
  <2> QED BY <2>1, <2>2
<1>8. /\ u \in Texts /\ Len(u) = n + 1 /\ (\A i \in 1..(s - 1) : u[i] = t[i])
      /\ (\A i \in 1..1 : u[s - 1 + i] = lines[i]) /\ \A i \in s..n : u[i + 1] = t[i]
  BY <1>6, <1>7 DEF PutIn
<1>9. u[s] = Of("target", name, <<>>)
  <2>1. 1 \in 1..1 /\ s - 1 + 1 = s
    BY <1>3
  <2> QED BY <1>5, <1>8, <2>1
<1> QED BY <1>1, <1>2, <1>3, <1>6, <1>8, <1>9 DEF Marked

(* Whatever part of it has the marker and the text leads there.            *)
LEMMA PartLeads ==
  ASSUME NEW t, NEW s, NEW u, NEW name, Marked(t, s, u, name), name # NoName,
         NEW word, Has(t[s], word), \A i \in 1..Len(t) : ~Has(t[i], name),
         NEW a \in 1..s, NEW b \in (s + 1)..Len(u)
  PROVE  /\ Resolve(SubSeq(u, a, b), name).kind = "target"
         /\ SearchText(Lines(SubSeq(u, a, b), Resolve(SubSeq(u, a, b), name)), word) # 0
<1>1. t \in Texts /\ u \in Texts
  BY DEF Marked
<1>2. PICK n \in Nat : n = Len(t) /\ DOMAIN t = 1..n
  BY <1>1, PlacesIn
<1>3. /\ Len(u) = n + 1 /\ s \in 1..n /\ t[s].kind = "text" /\ u[s] = Of("target", name, <<>>)
      /\ (\A i \in 1..(s - 1) : u[i] = t[i]) /\ \A i \in s..n : u[i + 1] = t[i]
  BY <1>2 DEF Marked
<1>4. PICK v : v = SubSeq(u, a, b)
  OBVIOUS
<1>5. PICK l \in Nat : l = b - a + 1
  BY <1>3
<1>6. v \in Texts /\ Len(v) = l /\ \A i \in 1..l : v[i] = u[a + i - 1]
  <2>1. a \in 1..(n + 1) /\ b \in 1..(n + 1) /\ a <= b /\ u \in Seq(NoteLine)
    BY <1>1, <1>3 DEF Texts
  <2>2. /\ v \in Seq(NoteLine) /\ Len(v) = b - a + 1
        /\ \A i \in 1..(b - a + 1) : v[i] = u[a + i - 1]
    BY <1>3, <1>4, <2>1
  <2> QED BY <1>5, <2>2 DEF Texts
<1>7. PICK p \in 1..l : p = s - a + 1 /\ p + 1 \in 1..l /\ a + p - 1 = s /\ a + (p + 1) - 1 = s + 1
  BY <1>3, <1>5
<1>8. v[p] = Of("target", name, <<>>) /\ v[p + 1] = t[s]
  <2>1. s \in s..n
    BY <1>3
  <2> QED BY <1>3, <1>6, <1>7, <2>1
<1>9. ASSUME NEW j \in 1..l, j # p PROVE ~Has(v[j], name)
  <2>1. PICK i \in 1..(n + 1) : i = a + j - 1 /\ i # s
    BY <1>3, <1>5, <1>7, <1>9
  <2>2. v[j] = u[i]
    BY <1>6, <2>1
  <2>3. \E k \in 1..n : u[i] = t[k]
    <3>1. CASE i < s
      <4>1. i \in 1..(s - 1) /\ i \in 1..n
        BY <1>3, <2>1, <3>1
      <4> QED BY <1>3, <4>1
    <3>2. CASE i > s
      <4>1. i - 1 \in s..n /\ i - 1 \in 1..n /\ (i - 1) + 1 = i
        BY <1>3, <2>1, <3>2
      <4>2. u[(i - 1) + 1] = t[i - 1]
        BY <1>3, <4>1
      <4> QED BY <4>1, <4>2
    <3> QED BY <1>3, <2>1, <3>1, <3>2
  <2> QED BY <1>2, <2>2, <2>3
<1>10. OnlyMarker(v, p, name)
  BY <1>6, <1>7, <1>8, <1>9 DEF OnlyMarker
<1>11. p + 1 \in 1..Len(v) /\ v[p + 1].kind = "text" /\ Has(v[p + 1], word)
  BY <1>3, <1>6, <1>7, <1>8
<1>12. /\ Resolve(v, name).kind = "target"
       /\ SearchText(Lines(v, Resolve(v, name)), word) # 0
  BY <1>10, <1>11, MarkerLeads
<1> QED BY <1>4, <1>12

(* An id stands for a headline, if it does for any.                        *)
LEMMA HeadlineIdIn ==
  ASSUME NEW t \in Texts, NEW id, HeadlineById(t, id) # 0
  PROVE  HeadlineById(t, id) \in Headlines(t)
<1>1. PICK S : S = {h \in Headlines(t) : Property(t, h, "ID") = id}
  OBVIOUS
<1>2. HeadlineById(t, id) = Least(S, 0)
  BY <1>1 DEF HeadlineById, HeadlineWith
<1>3. S \subseteq Nat
  BY <1>1, PlacesIn
<1> QED BY <1>1, <1>2, <1>3, LeastOf

(* So does the node.                                                       *)
LEMMA NodeLeads ==
  ASSUME NEW t, NEW s, NEW u, NEW name, Marked(t, s, u, name), name # NoName,
         NEW word, Has(t[s], word), \A i \in 1..Len(t) : ~Has(t[i], name),
         NEW id, known[id] = "file" \/ HeadlineById(t, id) = 0
                   \/ s \in HeadlineById(t, id)..(SubtreeEnd(t, HeadlineById(t, id)) - 1)
  PROVE  /\ Resolve(NodeBody(u, id), name).kind = "target"
         /\ SearchText(Lines(NodeBody(u, id), Resolve(NodeBody(u, id), name)), word) # 0
<1>1. t \in Texts /\ u \in Texts /\ t[s].kind = "text"
  BY DEF Marked
<1>2. PICK n \in Nat : n = Len(t) /\ DOMAIN t = 1..n /\ Headlines(t) \subseteq 1..n
  BY <1>1, PlacesIn
<1>3. Len(u) = n + 1 /\ s \in 1..n
  BY <1>2 DEF Marked
<1>4. \E a \in 1..s, b \in (s + 1)..Len(u) : NodeBody(u, id) = SubSeq(u, a, b)
  <2>1. CASE known[id] = "file" \/ HeadlineById(t, id) = 0
    <3>1. HeadlineById(t, id) = 0 => HeadlineById(u, id) = 0
      BY NodeStays
    <3>2. NodeBody(u, id) = u
      BY <2>1, <3>1 DEF NodeBody
    <3>3. u = SubSeq(u, 1, Len(u))
      BY <1>1 DEF Texts
    <3>4. 1 \in 1..s /\ Len(u) \in (s + 1)..Len(u)
      BY <1>3
    <3> QED BY <3>2, <3>3, <3>4
  <2>2. CASE ~(known[id] = "file" \/ HeadlineById(t, id) = 0)
    <3>1. PICK h : h = HeadlineById(t, id)
      OBVIOUS
    <3>2. h # 0 /\ known[id] # "file" /\ s \in h..(SubtreeEnd(t, h) - 1)
      BY <2>2, <3>1
    <3>3. h \in Headlines(t)
      BY <1>1, <2>2, <3>1, HeadlineIdIn
    <3>4. h \in 1..n /\ t[h].kind = "head" /\ h # s
      BY <1>1, <1>2, <3>3 DEF Headlines
    <3>5. PICK e \in Nat : e = SubtreeEnd(t, h)
      <4>1. SubtreeEnd(t, h) \in 1..(Len(t) + 1) /\ Len(t) \in Nat
        BY <1>1, PlacesIn
      <4> QED BY <4>1
    <3>6. h < s /\ s < SubtreeEnd(t, h)
      BY <1>3, <3>2, <3>4, <3>5
    <3>7. HeadlineById(u, id) = h
      <4>1. HeadlineById(t, id) # 0 /\ HeadlineById(t, id) < s
        BY <3>1, <3>2, <3>6
      <4> QED BY <3>1, <4>1, NodeStays
    <3>8. SubtreeEnd(u, h) \in (s + 2)..(Len(u) + 1)
      BY <3>3, <3>6, SubtreeReaches
    <3>9. NodeBody(u, id) = SubSeq(u, h, SubtreeEnd(u, h) - 1)
      BY <3>2, <3>7 DEF NodeBody
    <3>10. h \in 1..s /\ SubtreeEnd(u, h) - 1 \in (s + 1)..Len(u)
      BY <1>3, <3>4, <3>6, <3>8
    <3> QED BY <3>9, <3>10
  <2> QED BY <2>1, <2>2
<1>5. PICK a \in 1..s, b \in (s + 1)..Len(u) : NodeBody(u, id) = SubSeq(u, a, b)
  BY <1>4
<1>6. /\ Resolve(SubSeq(u, a, b), name).kind = "target"
      /\ SearchText(Lines(SubSeq(u, a, b), Resolve(SubSeq(u, a, b), name)), word) # 0
  BY PartLeads
<1> QED BY <1>5, <1>6

(* The link that insert_anchor answers leads to the text it was asked for. *)
THEOREM AnchorsLead == Spec => AnchorLeadsToText
<1>1. ASSUME TypeOK, NEW id \in DOMAIN known, NEW word \in Words, NEW name \in Names,
             SearchText(text, name) = 0, InsertAnchor(id, word, name),
             InParagraph(word), InNode(id, SearchText(text, word))
      PROVE  /\ Resolve(NodeBody(text', id), name).kind = "target"
             /\ SearchText(Lines(NodeBody(text', id), Resolve(NodeBody(text', id), name)), word) # 0
  <2>1. text \in Texts
    BY <1>1 DEF TypeOK, Texts
  <2>2. name \in Vocabulary /\ name # NoName
    BY <1>1, NoteTextAssumption
  <2>3. PICK s : s = SearchText(text, word)
    OBVIOUS
  <2>4. s # 0 /\ text[s].kind = "text" /\ text' = MarkerInserted(text, word, name)
    BY <1>1, <2>3 DEF InsertAnchor, InParagraph, Write
  <2>5. Marked(text, s, text', name)
    BY <2>1, <2>2, <2>3, <2>4, InsertMarks
  <2>6. Has(text[s], word) /\ \A i \in 1..Len(text) : ~Has(text[i], name)
    BY <1>1, <2>1, <2>3, <2>4, FirstWith
  <2>7. known[id] = "file" \/ HeadlineById(text, id) = 0
          \/ s \in HeadlineById(text, id)..(SubtreeEnd(text, HeadlineById(text, id)) - 1)
    BY <1>1, <2>3 DEF InNode
  <2>8. PICK u : u = text'
    OBVIOUS
  <2>9. Marked(text, s, u, name)
    BY <2>5, <2>8
  <2>10. /\ Resolve(NodeBody(u, id), name).kind = "target"
         /\ SearchText(Lines(NodeBody(u, id), Resolve(NodeBody(u, id), name)), word) # 0
    BY <2>2, <2>6, <2>7, <2>9, NodeLeads
  <2> QED BY <2>8, <2>10
<1>2. TypeOK => [\A id \in DOMAIN known, word \in Words, name \in Names :
       /\ SearchText(text, name) = 0 /\ InsertAnchor(id, word, name)
       /\ InParagraph(word) /\ InNode(id, SearchText(text, word))
       => LET found == Resolve(NodeBody(text', id), name) IN
          /\ found.kind = "target"
          /\ SearchText(Lines(NodeBody(text', id), found), word) # 0]_text
  BY <1>1
<1> QED BY <1>2, TextsStayTexts, PTL DEF AnchorLeadsToText
=============================================================================
