---------------------------- MODULE ListingProofs ----------------------------
(***************************************************************************)
(* Proofs about Listing, for every finite set of notes, every set of texts *)
(* they may hold, every set of listings and any number of changes.         *)
(***************************************************************************)
EXTENDS Listing, OrderLemmas, SequenceTheorems

-----------------------------------------------------------------------------
(* The order of strings                                                    *)

(* No string comes before itself. *)
LEMMA LessIrreflexive == \A s \in Text : ~ Less(s, s)
<1> SUFFICES ASSUME NEW s \in Text, NEW n \in 0..Len(s), n < Len(s),
                    n = Len(s) \/ s[n + 1] < s[n + 1]
             PROVE  FALSE
  BY DEF Less
<1>1. s[n + 1] \in Nat
  BY DEF Text
<1> QED BY <1>1

(* The first place where two strings differ, or where one of them ends,    *)
(* decides.                                                                *)
LEMMA LessTransitive ==
  ASSUME NEW s \in Text, NEW t \in Text, NEW u \in Text, Less(s, t), Less(t, u)
  PROVE  Less(s, u)
<1>1. PICK n \in 0..Len(s) :
        /\ n < Len(t) /\ \A i \in 1..n : s[i] = t[i]
        /\ n = Len(s) \/ s[n + 1] < t[n + 1]
  BY DEF Less
<1>2. PICK m \in 0..Len(t) :
        /\ m < Len(u) /\ \A i \in 1..m : t[i] = u[i]
        /\ m = Len(t) \/ t[m + 1] < u[m + 1]
  BY DEF Less
<1>3. /\ Len(s) \in Nat /\ Len(t) \in Nat /\ Len(u) \in Nat
      /\ \A i \in 1..Len(s) : s[i] \in Nat
      /\ \A i \in 1..Len(t) : t[i] \in Nat
      /\ \A i \in 1..Len(u) : u[i] \in Nat
  BY DEF Text
<1> DEFINE At(k) == /\ k < Len(u) /\ \A i \in 1..k : s[i] = u[i]
                    /\ k = Len(s) \/ s[k + 1] < u[k + 1]
<1>4. CASE n < m
  <2>1. n + 1 \in 1..m /\ t[n + 1] = u[n + 1]
    BY <1>2, <1>3, <1>4
  <2>2. \A i \in 1..n : s[i] = u[i]
    BY <1>1, <1>2, <1>3, <1>4
  <2>3. At(n)
    BY <1>1, <1>2, <1>3, <1>4, <2>1, <2>2
  <2> QED BY <2>3 DEF Less
<1>5. CASE n = m
  <2>1. \A i \in 1..n : s[i] = u[i]
    BY <1>1, <1>2, <1>3, <1>5
  <2>2. n < Len(t) /\ t[n + 1] < u[n + 1] /\ n < Len(u)
    BY <1>1, <1>2, <1>3, <1>5
  <2>3. n = Len(s) \/ s[n + 1] < u[n + 1]
    <3> SUFFICES ASSUME n # Len(s) PROVE s[n + 1] < u[n + 1]
      OBVIOUS
    <3>1. s[n + 1] \in Nat /\ t[n + 1] \in Nat /\ u[n + 1] \in Nat
      BY <1>1, <1>3, <2>2
    <3> QED BY <1>1, <2>2, <3>1
  <2>4. At(n)
    BY <2>1, <2>2, <2>3
  <2> QED BY <2>4 DEF Less
<1>6. CASE m < n
  <2>1. m + 1 \in 1..n /\ s[m + 1] = t[m + 1] /\ m \in 0..Len(s) /\ m # Len(t)
    BY <1>1, <1>2, <1>3, <1>6
  <2>2. \A i \in 1..m : s[i] = u[i]
    BY <1>1, <1>2, <1>3, <1>6
  <2>3. At(m)
    BY <1>2, <2>1, <2>2
  <2> QED BY <2>1, <2>3 DEF Less
<1> QED BY <1>1, <1>2, <1>3, <1>4, <1>5, <1>6

(* Of two different strings one comes before the other. *)
LEMMA LessTotal ==
  ASSUME NEW s \in Text, NEW t \in Text, s # t
  PROVE  Less(s, t) \/ Less(t, s)
<1>1. /\ Len(s) \in Nat /\ Len(t) \in Nat
      /\ \A i \in 1..Len(s) : s[i] \in Nat
      /\ \A i \in 1..Len(t) : t[i] \in Nat
  BY DEF Text
<1> DEFINE D == {n \in Nat : n = Len(s) \/ n = Len(t) \/ s[n + 1] # t[n + 1]}
<1>2. PICK n \in D : \A k \in D : n <= k
  BY <1>1, LeastExists
<1>3. n \in Nat /\ n <= Len(s) /\ n <= Len(t)
  BY <1>1, <1>2
<1>4. ASSUME NEW i \in 1..n PROVE s[i] = t[i]
  <2>1. PICK j \in Nat : j + 1 = i /\ j < n
    <3>1. i - 1 \in Nat /\ (i - 1) + 1 = i /\ i - 1 < n
      BY <1>3
    <3> QED BY <3>1
  <2>2. j \notin D
    <3> HIDE DEF D
    <3>1. ~ n <= j
      BY <1>3, <2>1
    <3> QED BY <1>2, <3>1
  <2>3. s[j + 1] = t[j + 1]
    BY <2>2
  <2> QED BY <2>1, <2>3
<1>5. CASE n = Len(s) /\ n = Len(t)
  <2>1. Len(s) = Len(t) /\ s \in Seq(Nat) /\ t \in Seq(Nat)
    BY <1>5 DEF Text
  <2>2. s = t
    BY <1>4, <1>5, <2>1
  <2> QED BY <2>2
<1>6. CASE n = Len(s) /\ n # Len(t)
  BY <1>1, <1>3, <1>4, <1>6 DEF Less
<1>7. CASE n # Len(s) /\ n = Len(t)
  BY <1>1, <1>3, <1>4, <1>7 DEF Less
<1>8. CASE n # Len(s) /\ n # Len(t)
  <2>1. s[n + 1] # t[n + 1] /\ s[n + 1] \in Nat /\ t[n + 1] \in Nat
    BY <1>1, <1>2, <1>3, <1>8
  <2>2. s[n + 1] < t[n + 1] \/ t[n + 1] < s[n + 1]
    BY <2>1
  <2> QED BY <1>1, <1>3, <1>4, <1>8, <2>2 DEF Less
<1> QED BY <1>5, <1>6, <1>7, <1>8

(* So strings are in a strict order. *)
LEMMA LessIsOrder ==
  ASSUME NEW s \in Text, NEW t \in Text, NEW u \in Text
  PROVE  /\ Less(s, t) => ~ Less(t, s)
         /\ Less(s, u) => Less(s, t) \/ Less(t, u)
<1>1. Less(s, t) => ~ Less(t, s)
  BY LessTransitive, LessIrreflexive
<1>2. ASSUME Less(s, u) PROVE Less(s, t) \/ Less(t, u)
  <2>1. CASE s = t
    BY <1>2, <2>1
  <2>2. CASE Less(t, s)
    BY <1>2, <2>2, LessTransitive
  <2> QED BY <2>1, <2>2, LessTotal
<1> QED BY <1>1, <1>2

(* Quotes and lower case leave a string a string. *)
LEMMA TextsOfText ==
  ASSUME NEW t \in Text
  PROVE  Append(t, Quote) \in Text /\ Lower(t) \in Text
<1>1. Append(t, Quote) \in Text
  BY DEF Text, Quote
<1>2. Lower(t) \in [1..Len(t) -> Nat]
  <2>1. DOMAIN t = 1..Len(t) /\ \A i \in 1..Len(t) : t[i] \in Nat
    BY DEF Text
  <2>2. \A n \in Nat : (IF n \in 65..90 THEN n + 32 ELSE n) \in Nat
    OBVIOUS
  <2> QED BY <2>1, <2>2 DEF Lower
<1>3. Lower(t) \in Seq(Nat)
  BY <1>2 DEF Text
<1> QED BY <1>1, <1>3 DEF Text

(* What listings are sorted by. *)
Orders == {"title", "title_desc", "db_title", "folded", "file", "priority"}

(* A row of an index: a scan's, or one that a statement has returned. *)
ARow == [id: Ids, note: Note]

(* Every order the listings are in is one of keys: no row comes before one *)
(* that comes before it, and what comes before another comes before or     *)
(* after each third.                                                       *)
LEMMA BeforeIsOrder ==
  ASSUME NEW o \in Orders, NEW a \in ARow, NEW b \in ARow, NEW c \in ARow
  PROVE  /\ Before(o, a, b) => ~ Before(o, b, a)
         /\ Before(o, a, c) => Before(o, a, b) \/ Before(o, b, c)
<1>1. \A r \in ARow : /\ r.note.title \in Text /\ r.note.priority \in Nat /\ r.id \in Nat
                      /\ Lower(r.note.title) \in Text
                      /\ Append(r.note.title, Quote) \in Text
  <2> SUFFICES ASSUME NEW r \in ARow
               PROVE  r.note.title \in Text /\ r.note.priority \in Nat /\ r.id \in Nat
    BY TextsOfText
  <2>1. r.id \in Ids /\ r.note \in Note
    BY DEF ARow
  <2>2. r.note.title \in Text /\ r.note.priority \in 1..4
    BY <2>1 DEF Note
  <2> QED BY <2>1, <2>2, ListingAssumption
<1>2. CASE o = "title"
  BY <1>1, <1>2, LessIsOrder DEF Before, Title
<1>3. CASE o = "title_desc"
  BY <1>1, <1>3, LessIsOrder DEF Before, TitleDesc
<1>4. CASE o = "db_title"
  BY <1>1, <1>4, LessIsOrder DEF Before, DbTitle, DbLess
<1>5. CASE o = "folded"
  BY <1>1, <1>5, LessIsOrder DEF Before, Folded
<1>6. CASE o = "file"
  <2>1. a.id \in Nat /\ b.id \in Nat /\ c.id \in Nat
    BY <1>1
  <2>2. \A r, s : Before(o, r, s) <=> r.id < s.id
    BY <1>6 DEF Before, FileName
  <2> HIDE DEF Before
  <2> QED BY <2>1, <2>2
<1>7. CASE o = "priority"
  <2>1. /\ a.note.priority \in Nat /\ b.note.priority \in Nat /\ c.note.priority \in Nat
        /\ a.note.title \in Text /\ b.note.title \in Text /\ c.note.title \in Text
    BY <1>1
  <2>2. /\ Less(a.note.title, b.note.title) => ~ Less(b.note.title, a.note.title)
        /\ Less(a.note.title, c.note.title) =>
             Less(a.note.title, b.note.title) \/ Less(b.note.title, c.note.title)
    BY <2>1, LessIsOrder
  <2>3. \A r, s : Before(o, r, s) <=>
           \/ r.note.priority < s.note.priority
           \/ r.note.priority = s.note.priority /\ Less(r.note.title, s.note.title)
    BY <1>7 DEF Before, Urgency, Title
  <2> HIDE DEF Before
  <2> QED BY <2>1, <2>2, <2>3
<1> QED BY <1>2, <1>3, <1>4, <1>5, <1>6, <1>7 DEF Orders

-----------------------------------------------------------------------------
(* Filters and sorts                                                       *)

(* A listing: rows of different notes. *)
IsListing(s) ==
  s \in Seq(ARow) /\ \A i, j \in DOMAIN s : s[i].id = s[j].id => i = j

(* No row is after one that it comes before. *)
InOrder(o, s) == \A i, j \in DOMAIN s : i < j => ~ Before(o, s[j], s[i])

(* The rows at the places in a set, in the order of p. *)
RowsAt(rows, at, p) == [k \in 1..Cardinality(at) |-> rows[p[k]]]

(* The rows at some of a listing's places are a listing, in whichever order. *)
LEMMA PlacesAreListing ==
  ASSUME NEW rows, IsListing(rows), NEW at, at \subseteq DOMAIN rows, IsFiniteSet(at),
         NEW p, Enumerates(p, at)
  PROVE  /\ IsListing(RowsAt(rows, at, p)) /\ DOMAIN RowsAt(rows, at, p) = 1..Cardinality(at)
         /\ ToSet(RowsAt(rows, at, p)) = {rows[i] : i \in at}
<1> DEFINE n == Cardinality(at)
           s == RowsAt(rows, at, p)
<1>1. n \in Nat /\ p \in [1..n -> at]
  BY FS_CardinalityType DEF Enumerates
<1>2. DOMAIN s = 1..n /\ \A k \in 1..n : s[k] = rows[p[k]]
  BY DEF RowsAt
<1>3. s \in Seq(ARow)
  <2>1. \A i \in at : rows[i] \in ARow
    BY DEF IsListing
  <2>2. s \in [1..n -> ARow]
    BY <1>1, <2>1 DEF RowsAt
  <2> QED BY <1>1, <2>2
<1> HIDE DEF s
<1>4. ASSUME NEW k \in 1..n, NEW l \in 1..n, s[k].id = s[l].id PROVE k = l
  <2>1. p[k] \in DOMAIN rows /\ p[l] \in DOMAIN rows /\ rows[p[k]].id = rows[p[l]].id
    BY <1>1, <1>2, <1>4
  <2>2. p[k] = p[l]
    BY <2>1 DEF IsListing
  <2> QED BY <2>2 DEF Enumerates
<1>5. ToSet(s) = {rows[i] : i \in at}
  <2>1. ASSUME NEW r \in ToSet(s) PROVE r \in {rows[i] : i \in at}
    BY <1>1, <1>2 DEF ToSet
  <2>2. ASSUME NEW i \in at PROVE rows[i] \in ToSet(s)
    BY <1>1, <1>2 DEF ToSet, Enumerates
  <2> QED BY <2>1, <2>2
<1> QED BY <1>2, <1>3, <1>4, <1>5 DEF IsListing, s

(* A filter returns the rows that are wanted. *)
LEMMA OnlyKeeps ==
  ASSUME NEW rows, IsListing(rows), NEW wanted
  PROVE  /\ IsListing(Only(rows, wanted))
         /\ ToSet(Only(rows, wanted)) = ToSet(rows) \cap wanted
<1>1. DOMAIN rows = 1..Len(rows) /\ Len(rows) \in Nat
  BY DEF IsListing
<1>2. PICK at : at = {i \in DOMAIN rows : rows[i] \in wanted}
  OBVIOUS
<1>3. PICK R : R = {x \in at \X at : x[1] < x[2]}
  OBVIOUS
<1> DEFINE n == Cardinality(at)
           Upto(i) == Cardinality({j \in at : j = i \/ j < i})
<1>4. PICK p : p = [k \in 1..n |-> CHOOSE i \in at : Upto(i) = k]
  OBVIOUS
<1>5. Only(rows, wanted) = RowsAt(rows, at, p)
  BY <1>2, <1>4 DEF Only, Arranged, RowsAt
<1>6. IsFiniteSet(at) /\ at \subseteq Nat /\ at \subseteq DOMAIN rows
  <2>1. at \in SUBSET (1..Len(rows)) /\ at \subseteq DOMAIN rows /\ at \subseteq Nat
    BY <1>1, <1>2
  <2>2. IsFiniteSet(1..Len(rows))
    BY <1>1, FS_Interval
  <2> QED BY <2>1, <2>2, FS_Subset
<1>7. \A i, j \in at : <<i, j>> \in R <=> i < j
  BY <1>3
<1>8. \A i \in at : Upto(i) = Place(R, at)[i]
  <2> SUFFICES ASSUME NEW i \in at
               PROVE  {j \in at : j = i \/ j < i} = UpTo(R, at, i)
    BY DEF Place
  <2> QED BY <1>7 DEF UpTo
<1> HIDE DEF Upto
<1>9. StrictOrder(R, at)
  BY <1>6, <1>7 DEF StrictOrder
<1>10. \A k \in 1..n : \E i \in at : Place(R, at)[i] = k
  <2>1. IsFiniteSet(at) /\ StrictOrder(R, at)
    BY <1>6, <1>9
  <2> QED BY <2>1, Placement
<1>11. Places(p, R, at)
  <2>1. \A k \in 1..n : p[k] \in at /\ Upto(p[k]) = k
    BY <1>4, <1>8, <1>10
  <2> QED BY <1>4, <1>8, <2>1 DEF Places
<1>12. Enumerates(p, at)
  BY <1>6, <1>9, <1>11, ArrangementInOrder
<1>13. /\ IsListing(RowsAt(rows, at, p))
       /\ ToSet(RowsAt(rows, at, p)) = {rows[i] : i \in at}
  BY <1>6, <1>12, PlacesAreListing
<1>14. {rows[i] : i \in at} = ToSet(rows) \cap wanted
  BY <1>2 DEF ToSet
<1> QED BY <1>5, <1>13, <1>14

(* A stable sort returns all rows, in order. *)
LEMMA SortedKeeps ==
  ASSUME NEW rows, IsListing(rows), NEW o \in Orders
  PROVE  /\ IsListing(Sorted(rows, o))
         /\ ToSet(Sorted(rows, o)) = ToSet(rows)
         /\ InOrder(o, Sorted(rows, o))
<1> DEFINE at == DOMAIN rows
           n == Cardinality(at)
           Ahead(i, j) == \/ Before(o, rows[i], rows[j])
                          \/ i < j /\ ~ Before(o, rows[j], rows[i])
           Upto(i) == Cardinality({j \in at : j = i \/ Ahead(j, i)})
<1>1. at = 1..Len(rows) /\ Len(rows) \in Nat /\ IsFiniteSet(at) /\ at \subseteq Nat
  <2>1. at = 1..Len(rows) /\ Len(rows) \in Nat
    BY DEF IsListing
  <2> QED BY <2>1, FS_Interval
<1>2. PICK R : R = {x \in at \X at : Ahead(x[1], x[2])}
  OBVIOUS
<1>3. PICK p : p = [k \in 1..n |-> CHOOSE i \in at : Upto(i) = k]
  OBVIOUS
<1>4. Sorted(rows, o) = RowsAt(rows, at, p)
  BY <1>3 DEF Sorted, SortedBy, Arranged, RowsAt
<1>5. \A i, j \in at : <<i, j>> \in R <=> Ahead(i, j)
  BY <1>2
<1>6. \A i \in at : Upto(i) = Place(R, at)[i]
  <2> SUFFICES ASSUME NEW i \in at
               PROVE  {j \in at : j = i \/ Ahead(j, i)} = UpTo(R, at, i)
    BY DEF Place
  <2> QED BY <1>5 DEF UpTo
<1>7. \A i \in at : rows[i] \in ARow
  BY DEF IsListing
<1>8. \A i, j, k \in at :
        /\ Before(o, rows[i], rows[j]) => ~ Before(o, rows[j], rows[i])
        /\ Before(o, rows[i], rows[k]) =>
             Before(o, rows[i], rows[j]) \/ Before(o, rows[j], rows[k])
  BY <1>7, BeforeIsOrder
<1>9. /\ \A i \in at : ~ Ahead(i, i)
      /\ \A i, j \in at : i = j \/ Ahead(i, j) \/ Ahead(j, i)
  BY <1>1, <1>8
<1>10. ASSUME NEW i \in at, NEW j \in at, NEW k \in at, Ahead(i, j), Ahead(j, k)
       PROVE  Ahead(i, k)
  <2>1. ~ Before(o, rows[j], rows[i]) /\ ~ Before(o, rows[k], rows[j])
    BY <1>8, <1>10
  <2>2. ~ Before(o, rows[k], rows[i])
    BY <1>8, <2>1
  <2>3. CASE Before(o, rows[i], rows[j]) \/ Before(o, rows[j], rows[k])
    BY <1>8, <2>1, <2>3
  <2>4. CASE i < j /\ j < k
    <3>1. i < k
      BY <1>1, <2>4
    <3> QED BY <2>2, <3>1
  <2> QED BY <1>10, <2>3, <2>4
<1> HIDE DEF Upto, Ahead
<1>11. StrictOrder(R, at)
  BY <1>5, <1>9, <1>10 DEF StrictOrder
<1>12. \A k \in 1..n : \E i \in at : Place(R, at)[i] = k
  <2>1. IsFiniteSet(at) /\ StrictOrder(R, at)
    BY <1>1, <1>11
  <2> QED BY <2>1, Placement
<1>13. Places(p, R, at)
  <2>1. \A k \in 1..n : p[k] \in at /\ Upto(p[k]) = k
    BY <1>3, <1>6, <1>12
  <2> QED BY <1>3, <1>6, <2>1 DEF Places
<1>14. /\ Enumerates(p, at)
       /\ \A k, l \in DOMAIN p : k < l => <<p[k], p[l]>> \in R
  BY <1>1, <1>11, <1>13, ArrangementInOrder
<1>15. PICK s : s = Sorted(rows, o)
  OBVIOUS
<1>16. /\ IsListing(s) /\ DOMAIN s = 1..n
       /\ ToSet(s) = {rows[i] : i \in at}
  BY <1>1, <1>4, <1>14, <1>15, PlacesAreListing
<1>17. ASSUME NEW k \in DOMAIN s, NEW l \in DOMAIN s, k < l
       PROVE  ~ Before(o, s[l], s[k])
  <2>1. DOMAIN p = 1..n /\ p[k] \in at /\ p[l] \in at
    BY <1>14, <1>16 DEF Enumerates
  <2>2. s[k] = rows[p[k]] /\ s[l] = rows[p[l]]
    BY <1>4, <1>15, <1>16 DEF RowsAt
  <2>3. Ahead(p[k], p[l])
    BY <1>5, <1>14, <1>16, <1>17, <2>1
  <2> QED BY <1>8, <2>1, <2>2, <2>3 DEF Ahead
<1>18. ToSet(rows) = {rows[i] : i \in at}
  BY DEF ToSet
<1> QED BY <1>15, <1>16, <1>17, <1>18 DEF InOrder

-----------------------------------------------------------------------------
(* What the tools list                                                     *)

(* What is known of an index and of the listings answered from it. *)
TypeInv ==
  /\ vault \in [Ids -> Shapes \cup {NoNote}]
  /\ changes \in 0..MaxChanges
  /\ IsListing(db) /\ \A i \in DOMAIN db : db[i].note \in Shapes
  /\ cell.kind \in {"scan", "sql"} /\ IsListing(cell.rows)
  /\ \A i \in DOMAIN cell.rows : cell.rows[i].note \in Shapes
  /\ walk \in Walks
  /\ call.at \in {"idle", "links", "attach"} /\ IsListing(call.rows)
  /\ got \in Seq(Ids) /\ IsListing(first) /\ IsListing(latest)
  /\ over \in BOOLEAN /\ grown \in BOOLEAN
  /\ kinds \subseteq {"scan", "sql"}

(* The order of a listing is that of the tool, but for orphans by title,   *)
(* which are in the index's.                                               *)
AsReturned == walk.tool = "list_orphans" /\ walk.sort # "title_desc"

TitleOrder(kind) == IF kind = "scan" THEN "title" ELSE "db_title"

OrderOf(kind) ==
  IF AsReturned THEN TitleOrder(kind)
  ELSE CASE walk.tool = "list_files" -> "file"
         [] walk.tool = "search_by_tag" -> "folded"
         [] walk.tool = "list_tasks" /\ walk.sort = "priority" -> "priority"
         [] /\ walk.tool \in {"list_nodes", "list_tasks", "list_orphans"}
            /\ walk.sort = "title_desc" -> "title_desc"
         [] OTHER -> "title"

(* Rows that a tool returns as it got them are in order already. *)
Presorted(kind, rows) ==
  /\ walk.tool = "list_orphans" => InOrder(TitleOrder(kind), rows)
  /\ walk.tool = "list_external_links" => InOrder("title", rows)

(* The rows of the vault are a note each. *)
LEMMA RowsOfVault ==
  ASSUME vault \in [Ids -> Shapes \cup {NoNote}]
  PROVE  /\ IsFiniteSet(Rows) /\ Rows \subseteq ARow
         /\ \A r, s \in Rows : r.id = s.id => r = s
         /\ \A r \in Rows : r.note \in Shapes
<1> DEFINE There == {i \in Ids : vault[i] # NoNote}
<1>1. IsFiniteSet(There)
  <2>1. There \in SUBSET Ids
    OBVIOUS
  <2> QED BY <2>1, ListingAssumption, FS_Subset
<1>2. [i \in There |-> Row(i)] \in Surjection(There, Rows)
  BY DEF Surjection, Rows
<1>3. IsFiniteSet(Rows)
  BY <1>1, <1>2, FS_Surjection
<1>4. ASSUME NEW i \in There
      PROVE  Row(i) \in ARow /\ Row(i).id = i /\ Row(i).note \in Shapes
  <2>1. vault[i] \in Shapes /\ vault[i] \in Note
    BY ListingAssumption
  <2> QED BY <2>1 DEF Row, ARow
<1>5. Rows = {Row(i) : i \in There}
  BY DEF Rows
<1> HIDE DEF There
<1> QED BY <1>3, <1>4, <1>5

(* A snapshot lists them all, in some order. *)
LEMMA SnapshotIsListing ==
  ASSUME vault \in [Ids -> Shapes \cup {NoNote}],
         NEW s \in [1..Cardinality(Rows) -> Rows],
         \A i, j \in 1..Cardinality(Rows) : i # j => s[i] # s[j]
  PROVE  /\ IsListing(s)
         /\ \A i \in DOMAIN s : s[i].note \in Shapes
<1>1. /\ IsFiniteSet(Rows) /\ Rows \subseteq ARow
      /\ \A r, t \in Rows : r.id = t.id => r = t
      /\ \A r \in Rows : r.note \in Shapes
  BY RowsOfVault
<1>2. Cardinality(Rows) \in Nat
  BY <1>1, FS_CardinalityType
<1>3. s \in [1..Cardinality(Rows) -> ARow]
  BY <1>1
<1>4. s \in Seq(ARow)
  BY <1>2, <1>3
<1> QED BY <1>1, <1>4 DEF IsListing

(* So does the walk of the disk. *)
LEMMA FilesAreListed ==
  ASSUME vault \in [Ids -> Shapes \cup {NoNote}]
  PROVE  IsListing(SetToSeq(Rows))
<1> DEFINE n == Cardinality(Rows)
<1>1. IsFiniteSet(Rows)
  BY RowsOfVault
<1>2. \E f \in [1..n -> Rows] : IsInjective(f)
  BY <1>1, FS_CardinalityType DEF ExistsBijection, Bijection, Injection
<1>3. SetToSeq(Rows) \in [1..n -> Rows] /\ IsInjective(SetToSeq(Rows))
  BY <1>2 DEF SetToSeq
<1>4. PICK s : s = SetToSeq(Rows)
  OBVIOUS
<1>5. s \in [1..n -> Rows] /\ \A i, j \in 1..n : i # j => s[i] # s[j]
  BY <1>3, <1>4 DEF IsInjective
<1> QED BY <1>4, <1>5, SnapshotIsListing

(* Where a row is in a listing depends on its id, title and priority only. *)
LEMMA BeforeOfKeys ==
  ASSUME NEW o \in Orders, NEW a, NEW b, NEW c, NEW d,
         a.id = c.id, a.note.title = c.note.title, a.note.priority = c.note.priority,
         b.id = d.id, b.note.title = d.note.title, b.note.priority = d.note.priority
  PROVE  Before(o, a, b) <=> Before(o, c, d)
<1>1. CASE o = "title"
  BY <1>1 DEF Before, Title
<1>2. CASE o = "title_desc"
  BY <1>2 DEF Before, TitleDesc
<1>3. CASE o = "db_title"
  BY <1>3 DEF Before, DbTitle
<1>4. CASE o = "folded"
  BY <1>4 DEF Before, Folded
<1>5. CASE o = "file"
  BY <1>5 DEF Before, FileName
<1>6. CASE o = "priority"
  BY <1>6 DEF Before, Urgency, Title
<1> QED BY <1>1, <1>2, <1>3, <1>4, <1>5, <1>6 DEF Orders

(* A listing asked for is by one of the tools, in one of its orders. *)
LEMMA WalkIsKnown ==
  ASSUME walk \in Walks
  PROVE  /\ walk.tool \in {"list_nodes", "list_orphans", "list_tasks", "list_files",
                           "list_external_links", "search_by_tag"}
         /\ walk.sort \in {"title", "title_desc", "priority"}
         /\ walk.limit \in Nat \ {0}
<1>1. walk \in Walk
  BY ListingAssumption
<1> QED BY <1>1 DEF Walk

(* The orders are known. *)
LEMMA OrdersAreKnown == \A kind : OrderOf(kind) \in Orders /\ TitleOrder(kind) \in Orders
<1> SUFFICES ASSUME NEW kind PROVE OrderOf(kind) \in Orders /\ TitleOrder(kind) \in Orders
  OBVIOUS
<1>1. TitleOrder(kind) \in Orders
  BY DEF TitleOrder, Orders
<1>2. OrderOf(kind) \in Orders
  <2>1. CASE AsReturned
    BY <1>1, <2>1 DEF OrderOf
  <2>2. CASE ~ AsReturned
    BY <2>2 DEF OrderOf, Orders
  <2> QED BY <2>1, <2>2
<1> QED BY <1>1, <1>2

(* What a query selects is of the index, and is in order if it has to be.  *)
LEMMA SelectedIsListing ==
  ASSUME walk \in Walks, NEW kind, NEW rows, IsListing(rows)
  PROVE  /\ IsListing(Selected(kind, rows))
         /\ ToSet(Selected(kind, rows)) \subseteq ToSet(rows)
         /\ Presorted(kind, Selected(kind, rows))
<1> DEFINE Of(wanted, o) == Sorted(Only(rows, wanted), o)
<1>1. ASSUME NEW wanted, NEW o \in Orders
      PROVE  /\ IsListing(Of(wanted, o)) /\ ToSet(Of(wanted, o)) \subseteq ToSet(rows)
             /\ InOrder(o, Of(wanted, o))
  <2>1. PICK some : some = Only(rows, wanted)
    OBVIOUS
  <2>2. IsListing(some) /\ ToSet(some) \subseteq ToSet(rows)
    BY <2>1, OnlyKeeps
  <2> QED BY <2>1, <2>2, SortedKeeps
<1>2. TitleOrder(kind) \in Orders /\ "title" \in Orders
  BY OrdersAreKnown DEF Orders
<1>3. CASE walk.tool = "list_orphans"
  <2>1. Selected(kind, rows) =
          Of({row \in ToSet(rows) : row.note.alone}, TitleOrder(kind))
    BY <1>3 DEF Selected, Orphans, ByTitle, TitleOrder
  <2> HIDE DEF Of
  <2> QED BY <1>1, <1>2, <1>3, <2>1 DEF Presorted
<1>4. CASE walk.tool = "list_external_links"
  <2>1. Selected(kind, rows) =
          Of({row \in ToSet(rows) : row.note.external}, "title")
    BY <1>4 DEF Selected, NodesWithExternalLinks
  <2> HIDE DEF Of
  <2> QED BY <1>1, <1>2, <1>4, <2>1 DEF Presorted
<1>5. CASE walk.tool \notin {"list_orphans", "list_external_links"}
  <2>1. Selected(kind, rows) =
          Of({row \in ToSet(rows) : Tagged(kind, row)}, TitleOrder(kind))
    BY <1>5 DEF Selected, FindNodes, ByTitle, TitleOrder
  <2> HIDE DEF Of
  <2> QED BY <1>1, <1>2, <1>5, <2>1 DEF Presorted
<1> QED BY <1>3, <1>4, <1>5

(* Attaching tags changes nothing but tags. *)
LEMMA AttachedIsListing ==
  ASSUME IsListing(db), NEW rows, IsListing(rows)
  PROVE  /\ IsListing(Attached(rows)) /\ DOMAIN Attached(rows) = DOMAIN rows
         /\ \A i \in DOMAIN rows :
              /\ Attached(rows)[i].id = rows[i].id
              /\ Attached(rows)[i].note.title = rows[i].note.title
              /\ Attached(rows)[i].note.priority = rows[i].note.priority
              /\ Attached(rows)[i].note.tags =
                   UNION {db[j].note.tags : j \in {k \in DOMAIN db : db[k].id = rows[i].id}}
<1> DEFINE Now(id) == UNION {db[j].note.tags : j \in {k \in DOMAIN db : db[k].id = id}}
<1>1. \A j \in DOMAIN db : db[j] \in ARow
  BY DEF IsListing
<1>2. \A id : Now(id) \in SUBSET Text
  <2> SUFFICES ASSUME NEW j \in DOMAIN db PROVE db[j].note.tags \in SUBSET Text
    OBVIOUS
  <2> QED BY <1>1 DEF ARow, Note
<1>3. PICK n \in Nat : rows \in [1..n -> ARow] /\ DOMAIN rows = 1..n
  BY DEF IsListing
<1>4. PICK s : s = Attached(rows)
  OBVIOUS
<1>5. s = [i \in DOMAIN rows |-> [rows[i] EXCEPT !.note.tags = Now(rows[i].id)]]
  BY <1>4 DEF Attached
<1> HIDE DEF Now
<1>6. ASSUME NEW i \in DOMAIN rows
      PROVE  /\ s[i] \in ARow /\ s[i].id = rows[i].id
             /\ s[i].note.title = rows[i].note.title
             /\ s[i].note.priority = rows[i].note.priority
             /\ s[i].note.tags = Now(rows[i].id)
  <2>1. s[i] = [rows[i] EXCEPT !.note.tags = Now(rows[i].id)]
    BY <1>5
  <2>2. rows[i] \in ARow /\ rows[i].note \in Note
    BY <1>3 DEF ARow
  <2>3. PICK tags \in SUBSET Text : tags = Now(rows[i].id)
    BY <1>2
  <2> QED BY <2>1, <2>2, <2>3 DEF ARow, Note
<1>7. s \in [1..n -> ARow] /\ DOMAIN s = DOMAIN rows
  BY <1>3, <1>5, <1>6
<1>8. s \in Seq(ARow)
  BY <1>7
<1>9. IsListing(s)
  BY <1>6, <1>7, <1>8 DEF IsListing
<1> QED BY <1>4, <1>6, <1>7, <1>9 DEF Now

(* So what was in order still is. *)
LEMMA AttachedInOrder ==
  ASSUME IsListing(db), NEW rows, IsListing(rows), NEW o \in Orders, InOrder(o, rows)
  PROVE  InOrder(o, Attached(rows))
<1>1. PICK s : s = Attached(rows)
  OBVIOUS
<1>2. /\ DOMAIN s = DOMAIN rows
      /\ \A i \in DOMAIN rows :
           /\ s[i].id = rows[i].id
           /\ s[i].note.title = rows[i].note.title
           /\ s[i].note.priority = rows[i].note.priority
  BY <1>1, AttachedIsListing
<1>3. ASSUME NEW i \in DOMAIN rows, NEW j \in DOMAIN rows
      PROVE  Before(o, s[j], s[i]) <=> Before(o, rows[j], rows[i])
  BY <1>2, BeforeOfKeys
<1> QED BY <1>1, <1>2, <1>3 DEF InOrder

(* What the tool makes of what was selected is a listing in its order. *)
LEMMA ListedInOrder ==
  ASSUME walk \in Walks, vault \in [Ids -> Shapes \cup {NoNote}],
         NEW kind, NEW rows, IsListing(rows), Presorted(kind, rows)
  PROVE  IsListing(Listed(rows)) /\ InOrder(OrderOf(kind), Listed(rows))
<1>1. \A wanted : IsListing(Only(rows, wanted))
  BY OnlyKeeps
<1>2. "title" \in Orders /\ "title_desc" \in Orders /\ "priority" \in Orders
      /\ "folded" \in Orders /\ "file" \in Orders
  BY DEF Orders
<1>3. \A o \in Orders : \A s : IsListing(s) => IsListing(Sorted(s, o)) /\ InOrder(o, Sorted(s, o))
  BY SortedKeeps
<1>4. CASE walk.tool = "list_nodes"
  <2>1. Listed(rows) = Sorted(rows, OrderOf(kind)) /\ OrderOf(kind) \in Orders
    BY <1>2, <1>4 DEF Listed, ListNodes, OrderOf, AsReturned
  <2> QED BY <1>3, <2>1
<1>5. CASE walk.tool = "list_orphans" /\ walk.sort = "title_desc"
  <2>1. Listed(rows) = Sorted(rows, "title_desc") /\ OrderOf(kind) = "title_desc"
    BY <1>5 DEF Listed, ListOrphans, OrderOf, AsReturned
  <2> QED BY <1>2, <1>3, <2>1
<1>6. CASE walk.tool = "list_orphans" /\ walk.sort # "title_desc"
  <2>1. Listed(rows) = rows /\ OrderOf(kind) = TitleOrder(kind)
    BY <1>6 DEF Listed, ListOrphans, OrderOf, AsReturned
  <2> QED BY <1>6, <2>1 DEF Presorted
<1>7. CASE walk.tool = "list_tasks"
  <2>1. PICK tasks : tasks = Only(rows, {row \in ToSet(rows) : row.note.todo})
    OBVIOUS
  <2>2. Listed(rows) = Sorted(tasks, OrderOf(kind)) /\ OrderOf(kind) \in Orders
    BY <1>2, <1>7, <2>1 DEF Listed, ListTasks, ListNodes, OrderOf, AsReturned
  <2> QED BY <1>1, <1>3, <2>1, <2>2
<1>8. CASE walk.tool = "search_by_tag"
  <2>1. PICK hits : hits = Only(rows, {row \in ToSet(rows) : walk.tag \in row.note.tags})
    OBVIOUS
  <2>2. Listed(rows) = Sorted(hits, "folded") /\ OrderOf(kind) = "folded"
    BY <1>8, <2>1 DEF Listed, SearchByTag, OrderOf, AsReturned
  <2> QED BY <1>1, <1>2, <1>3, <2>1, <2>2
<1>9. CASE walk.tool = "list_files"
  <2>1. Listed(rows) = Sorted(SetToSeq(Rows), "file") /\ OrderOf(kind) = "file"
    BY <1>9 DEF Listed, ListFiles, OrderOf, AsReturned
  <2> QED BY <1>2, <1>3, <2>1, FilesAreListed
<1>10. CASE walk.tool = "list_external_links"
  <2>1. Listed(rows) = rows /\ OrderOf(kind) = "title"
    BY <1>10 DEF Listed, OrderOf, AsReturned
  <2> QED BY <1>10, <2>1 DEF Presorted
<1> QED BY <1>4, <1>5, <1>6, <1>7, <1>8, <1>9, <1>10, WalkIsKnown

-----------------------------------------------------------------------------
(* Pages                                                                   *)

(* A page is the next rows of a listing, as many as there are or are asked *)
(* for.                                                                    *)
LEMMA PageOf ==
  ASSUME NEW s, IsListing(s), NEW g \in Nat, NEW n \in Nat
  PROVE  /\ Slice(s, g, n) \in Seq(ARow)
         /\ g < Len(s) => g + Len(Slice(s, g, n)) <= Len(s)
         /\ g >= Len(s) => Len(Slice(s, g, n)) = 0
         /\ \A i \in 1..Len(Slice(s, g, n)) : Slice(s, g, n)[i] = s[g + i]
<1> DEFINE page == Slice(s, g, n)
<1>0. s \in Seq(ARow)
  BY DEF IsListing
<1>1. Len(s) \in Nat /\ g + n \in Nat
  BY <1>0
<1>2. PICK e : e = Min({Len(s), g + n})
  OBVIOUS
<1>3. \E x \in {Len(s), g + n} : \A y \in {Len(s), g + n} : x <= y
  BY <1>1
<1>4. e \in {Len(s), g + n} /\ \A y \in {Len(s), g + n} : e <= y
  BY <1>2, <1>3 DEF Min
<1>5. e \in Nat /\ e <= Len(s) /\ (g < Len(s) => e >= g)
  BY <1>1, <1>4
<1>6. page = SubSeq(s, g + 1, e)
  BY <1>2 DEF Slice
<1>7. CASE g < e
  <2>1. page \in Seq(ARow) /\ Len(page) = e - g
    BY <1>0, <1>5, <1>6, <1>7
  <2>2. \A i \in 1..(e - g) : page[i] = s[g + i]
    BY <1>0, <1>5, <1>6, <1>7
  <2> QED BY <1>1, <1>5, <1>7, <2>1, <2>2
<1>8. CASE ~ g < e
  <2>1. page = << >>
    BY <1>0, <1>5, <1>6, <1>8
  <2> QED BY <1>1, <1>5, <2>1
<1> QED BY <1>7, <1>8

(* What a call gives: the ids from where the client was, of a listing that *)
(* goes on there.                                                          *)
LEMMA AnswerGives ==
  ASSUME TypeInv, NEW kind, NEW rows, NEW listed, IsListing(listed), listed = Listed(rows),
         Answer(kind, rows)
  PROVE  /\ got' \in Seq(Ids) /\ Len(got) <= Len(got')
         /\ Len(got') <= Len(listed) \/ Len(got') = Len(got)
         /\ \A i \in 1..Len(got) : got'[i] = got[i]
         /\ \A i \in (Len(got) + 1)..Len(got') :
              i \in DOMAIN listed /\ got'[i] = listed[i].id
<1>1. walk.limit \in Nat /\ got \in Seq(Ids) /\ listed \in Seq(ARow)
  BY WalkIsKnown DEF TypeInv, IsListing
<1>2. PICK g \in Nat : g = Len(got)
  BY <1>1
<1>3. PICK page : page = Slice(listed, g, walk.limit)
  OBVIOUS
<1>4. /\ page \in Seq(ARow)
      /\ g < Len(listed) => g + Len(page) <= Len(listed)
      /\ g >= Len(listed) => Len(page) = 0
      /\ \A i \in 1..Len(page) : page[i] = listed[g + i]
  <2>1. walk.limit \in Nat /\ IsListing(listed)
    BY <1>1
  <2> QED BY <1>3, <2>1, PageOf
<1>5. PICK m \in Nat : m = Len(page) /\ DOMAIN page = 1..m
  BY <1>4
<1>6. PICK ids : ids = IdsOf(page)
  OBVIOUS
<1>7. ids \in Seq(Ids) /\ Len(ids) = m /\ \A i \in 1..m : ids[i] = page[i].id
  <2>1. \A i \in 1..m : page[i].id \in Ids
    <3>1. \A i \in 1..m : page[i] \in ARow
      BY <1>4, <1>5
    <3> QED BY <3>1 DEF ARow
  <2>2. ids = [i \in 1..m |-> page[i].id]
    BY <1>5, <1>6 DEF IdsOf
  <2>3. ids \in [1..m -> Ids]
    BY <2>1, <2>2
  <2> QED BY <2>2, <2>3
<1>8. got' = got \o ids
  BY <1>2, <1>3, <1>6 DEF Answer
<1>9. /\ got' \in Seq(Ids) /\ Len(got') = g + m
      /\ \A i \in 1..g : got'[i] = got[i]
      /\ \A i \in 1..m : got'[g + i] = ids[i]
  <2>1. got \in Seq(Ids) /\ ids \in Seq(Ids)
    BY <1>1, <1>7
  <2>2. Len(got \o ids) = g + m /\ got \o ids \in Seq(Ids)
    BY <1>2, <1>7, <2>1
  <2>3. \A i \in 1..g : (got \o ids)[i] = got[i]
    BY <1>2, <2>1
  <2>4. ASSUME NEW i \in 1..m PROVE (got \o ids)[g + i] = ids[i]
    <3>1. g + i \in 1..(Len(got) + Len(ids)) /\ g + i > Len(got) /\ (g + i) - Len(got) = i
      BY <1>2, <1>7
    <3> QED BY <2>1, <3>1
  <2> QED BY <1>8, <2>2, <2>3, <2>4
<1>10. ASSUME NEW i \in (g + 1)..(g + m)
       PROVE  i \in DOMAIN listed /\ got'[i] = listed[i].id
  <2>1. PICK j \in 1..m : i = g + j
    <3>1. i - g \in 1..m /\ i = g + (i - g)
      OBVIOUS
    <3> QED BY <3>1
  <2>2. got'[i] = listed[i].id
    BY <1>4, <1>5, <1>7, <1>9, <2>1
  <2>3. Len(listed) \in Nat /\ DOMAIN listed = 1..Len(listed)
    BY <1>1
  <2>4. g < Len(listed) /\ g + m <= Len(listed)
    BY <1>4, <1>5, <2>3
  <2> QED BY <2>2, <2>3, <2>4
<1>11. Len(got') <= Len(listed) \/ Len(got') = Len(got)
  <2>1. Len(listed) \in Nat
    BY <1>1
  <2> QED BY <1>2, <1>4, <1>5, <1>9, <2>1
<1> QED BY <1>2, <1>9, <1>10, <1>11

(* What a listing is sorted by, when that tells the rows apart. *)
KeyOf(row) ==
  CASE walk.tool = "list_files" -> <<row.id>>
    [] walk.tool = "search_by_tag" -> Lower(row.note.title)
    [] OTHER -> row.note.title

Apart(s) == \A i, j \in DOMAIN s : KeyOf(s[i]) = KeyOf(s[j]) => i = j

(* Of two rows one comes before the other. *)
Distinct(o, s) ==
  \A i, j \in DOMAIN s : i # j => Before(o, s[i], s[j]) \/ Before(o, s[j], s[i])

(* A row of one listing is in the other as far as its place goes. *)
SameKey(a, b) ==
  a.id = b.id /\ a.note.title = b.note.title /\ a.note.priority = b.note.priority

(* What keys are of another listing's, the rows are. *)
LEMMA KeysOfRows ==
  ASSUME NEW s, NEW t, Keys(s) \subseteq Keys(t), NEW i \in DOMAIN s
  PROVE  \E j \in DOMAIN t : SameKey(s[i], t[j])
<1>1. <<s[i].id, s[i].note.title, s[i].note.priority>> \in Keys(t)
  BY DEF Keys, ToSet
<1>2. PICK row \in ToSet(t) :
        <<s[i].id, s[i].note.title, s[i].note.priority>>
          = <<row.id, row.note.title, row.note.priority>>
  BY <1>1 DEF Keys
<1> QED BY <1>2 DEF ToSet, SameKey

(* Rows that differ in what a listing is sorted by have an order in it. *)
LEMMA ApartIsDistinct ==
  ASSUME walk \in Walks, NEW kind, NEW s, IsListing(s), Apart(s)
  PROVE  Distinct(OrderOf(kind), s)
<1> SUFFICES ASSUME NEW i \in DOMAIN s, NEW j \in DOMAIN s, i # j
             PROVE  Before(OrderOf(kind), s[i], s[j]) \/ Before(OrderOf(kind), s[j], s[i])
  BY DEF Distinct
<1>1. PICK a \in ARow, b \in ARow : a = s[i] /\ b = s[j]
  BY DEF IsListing
<1>2. KeyOf(a) # KeyOf(b)
  BY <1>1 DEF Apart
<1>3. PICK o \in Orders : o = OrderOf(kind)
  BY OrdersAreKnown
<1>4. /\ a.note.title \in Text /\ b.note.title \in Text
      /\ a.note.priority \in Nat /\ b.note.priority \in Nat
      /\ a.id \in Nat /\ b.id \in Nat
  <2>1. a.id \in Ids /\ b.id \in Ids /\ a.note \in Note /\ b.note \in Note
    BY DEF ARow
  <2>2. a.note.priority \in 1..4 /\ b.note.priority \in 1..4
    BY <2>1 DEF Note
  <2>3. a.note.title \in Text /\ b.note.title \in Text
    BY <2>1 DEF Note
  <2>4. \A n \in 1..4 : n \in Nat
    OBVIOUS
  <2>5. Ids \subseteq Nat
    BY ListingAssumption
  <2> QED BY <2>1, <2>2, <2>3, <2>4, <2>5
<1>5. CASE walk.tool = "list_files"
  <2>1. o = "file"
    BY <1>3, <1>5 DEF OrderOf, AsReturned
  <2>2. a.id # b.id
    BY <1>2, <1>5 DEF KeyOf
  <2>3. a.id < b.id \/ b.id < a.id
    BY <1>4, <2>2
  <2> QED BY <1>1, <1>3, <2>1, <2>3 DEF Before, FileName
<1>6. CASE walk.tool = "search_by_tag"
  <2>1. o = "folded"
    BY <1>3, <1>6 DEF OrderOf, AsReturned
  <2>2. Lower(a.note.title) # Lower(b.note.title)
    BY <1>2, <1>6 DEF KeyOf
  <2>3. \/ Less(Lower(a.note.title), Lower(b.note.title))
        \/ Less(Lower(b.note.title), Lower(a.note.title))
    BY <1>4, <2>2, TextsOfText, LessTotal
  <2> QED BY <1>1, <1>3, <2>1, <2>3 DEF Before, Folded
<1>7. CASE walk.tool \notin {"list_files", "search_by_tag"}
  <2>1. o \in {"title", "title_desc", "db_title", "priority"}
    BY <1>3, <1>7, OrdersAreKnown DEF OrderOf, AsReturned, TitleOrder
  <2>2. a.note.title # b.note.title
    BY <1>2, <1>7 DEF KeyOf
  <2>3. Less(a.note.title, b.note.title) \/ Less(b.note.title, a.note.title)
    BY <1>4, <2>2, LessTotal
  <2>4. DbLess(a.note.title, b.note.title) \/ DbLess(b.note.title, a.note.title)
    <3>1. Append(a.note.title, Quote) # Append(b.note.title, Quote)
      <4>1. a.note.title \in Seq(Nat) /\ b.note.title \in Seq(Nat) /\ Quote \in Nat
        BY <1>4 DEF Text, Quote
      <4>2. PICK s1 \in Seq(Nat), s2 \in Seq(Nat), q \in Nat :
              s1 = a.note.title /\ s2 = b.note.title /\ q = Quote
        BY <4>1
      <4>3. Append(s1, q) = Append(s2, q) => s1 = s2
        BY AppendInjective
      <4> QED BY <2>2, <4>2, <4>3
    <3> QED BY <1>4, <3>1, TextsOfText, LessTotal DEF DbLess
  <2>5. Urgency(a, b) \/ Urgency(b, a)
    <3>1. \/ a.note.priority < b.note.priority \/ b.note.priority < a.note.priority
          \/ a.note.priority = b.note.priority
      BY <1>4
    <3> QED BY <2>3, <3>1 DEF Urgency, Title
  <2>6. Before(o, a, b) \/ Before(o, b, a)
    <3>1. CASE o = "title"
      BY <2>3, <3>1 DEF Before, Title
    <3>2. CASE o = "title_desc"
      BY <2>3, <3>2 DEF Before, TitleDesc
    <3>3. CASE o = "db_title"
      BY <2>4, <3>3 DEF Before, DbTitle
    <3>4. CASE o = "priority"
      BY <2>5, <3>4 DEF Before
    <3> QED BY <2>1, <3>1, <3>2, <3>3, <3>4
  <2> QED BY <1>1, <1>3, <2>6
<1> QED BY <1>5, <1>6, <1>7

-----------------------------------------------------------------------------
(* The invariant                                                           *)

(* A call on a database that is going to be answered has rows in order.    *)
CallInv ==
  /\ call.at = "idle" => call = Idle
  /\ call.at = "links" => walk.tool = "list_external_links"
  /\ call.at = "attach" => Presorted("sql", call.rows)

OneKind == \A k, l \in kinds : k = l

(* The latest listing is in the order of the index it was answered from. *)
LatestInOrder ==
  (AsReturned => OneKind) => \A k \in kinds : InOrder(OrderOf(k), latest)

(* Nothing of the listings so far has gone, and their order is one.        *)
Steady == grown /\ Apart(latest) /\ (AsReturned => OneKind)

(* A note that was there at first has been given, or is still to come: it  *)
(* has never moved up.  The client is at the end when it has as many as    *)
(* there are.                                                              *)
NothingHidden ==
  /\ kinds = {} => first = << >> /\ latest = << >> /\ got = << >> /\ ~ over
  /\ kinds # {} => over = (Len(got) >= Len(latest))
  /\ kinds # {} /\ Steady =>
       /\ Keys(first) \subseteq Keys(latest)
       /\ \A i \in DOMAIN first, j \in DOMAIN latest :
            first[i].id = latest[j].id => j > Len(got) \/ first[i].id \in ToSet(got)
       /\ Keys(latest) = Keys(first) =>
            /\ IdsOf(latest) = IdsOf(first)
            /\ \A j \in DOMAIN got : j \in DOMAIN latest /\ got[j] = latest[j].id

Inv == TypeInv /\ CallInv /\ LatestInOrder /\ NothingHidden

(* As long as no row goes, and rows are told apart by their order, no row   *)
(* is further up in the later of two listings: those before it still are.  *)
LEMMA NoRowMovesUp ==
  ASSUME NEW o \in Orders, NEW s, NEW t, IsListing(s), IsListing(t),
         InOrder(o, s), InOrder(o, t), Distinct(o, s), Keys(s) \subseteq Keys(t),
         NEW p \in DOMAIN s, NEW q \in DOMAIN t, s[p].id = t[q].id
  PROVE  p <= q
<1>1. /\ DOMAIN s = 1..Len(s) /\ Len(s) \in Nat /\ p \in Nat
      /\ DOMAIN t = 1..Len(t) /\ Len(t) \in Nat /\ q \in Nat
  BY DEF IsListing
<1>2. \A i \in DOMAIN s : \E j \in DOMAIN t : SameKey(s[i], t[j])
  BY KeysOfRows
<1>3. PICK f : f = [i \in 1..p |-> CHOOSE j \in DOMAIN t : SameKey(s[i], t[j])]
  OBVIOUS
<1>4. \A i \in 1..p : f[i] \in DOMAIN t /\ SameKey(s[i], t[f[i]])
  BY <1>1, <1>2, <1>3
<1>5. SameKey(s[p], t[q])
  <2>1. p \in 1..p /\ f[p] \in DOMAIN t /\ SameKey(s[p], t[f[p]])
    BY <1>1, <1>4
  <2>2. f[p] = q
    BY <2>1 DEF SameKey, IsListing
  <2> QED BY <2>1, <2>2
<1>6. ASSUME NEW i \in 1..p PROVE f[i] \in 1..q
  <2>1. i \in DOMAIN s /\ f[i] \in DOMAIN t /\ SameKey(s[i], t[f[i]])
    BY <1>1, <1>4
  <2>2. CASE i = p
    <3>1. t[f[i]].id = t[q].id
      BY <1>5, <2>1, <2>2 DEF SameKey
    <3>2. f[i] = q
      BY <2>1, <3>1 DEF IsListing
    <3> QED BY <1>1, <3>2
  <2>3. CASE i # p
    <3>1. i < p
      BY <1>1, <2>3
    <3>2. Before(o, s[i], s[p])
      BY <2>1, <3>1 DEF InOrder, Distinct
    <3>3. Before(o, t[f[i]], t[q])
      BY <1>5, <2>1, <3>2, BeforeOfKeys DEF SameKey
    <3>4. ~ q < f[i]
      BY <2>1, <3>3 DEF InOrder
    <3> QED BY <1>1, <2>1, <3>4
  <2> QED BY <2>2, <2>3
<1>7. ASSUME NEW i \in 1..p, NEW j \in 1..p, f[i] = f[j] PROVE i = j
  <2>1. i \in DOMAIN s /\ j \in DOMAIN s /\ s[i].id = s[j].id
    BY <1>1, <1>4, <1>7 DEF SameKey
  <2> QED BY <2>1 DEF IsListing
<1>8. f \in Injection(1..p, 1..q)
  <2>1. f \in [1..p -> 1..q]
    BY <1>3, <1>6
  <2> QED BY <1>7, <2>1 DEF Injection, IsInjective
<1>9. /\ IsFiniteSet(1..q) /\ Cardinality(1..q) = q
      /\ Cardinality(1..p) = p
  BY <1>1, FS_Interval
<1>10. Cardinality(1..p) <= Cardinality(1..q)
  BY <1>8, <1>9, FS_Injection
<1> QED BY <1>9, <1>10

(* What a listing is sorted by tells apart the rows of an earlier one too. *)
LEMMA ApartBefore ==
  ASSUME NEW s, NEW t, IsListing(s), IsListing(t), Keys(s) \subseteq Keys(t), Apart(t)
  PROVE  Apart(s)
<1> SUFFICES ASSUME NEW i \in DOMAIN s, NEW j \in DOMAIN s, KeyOf(s[i]) = KeyOf(s[j])
             PROVE  i = j
  BY DEF Apart
<1>1. PICK k \in DOMAIN t, l \in DOMAIN t : SameKey(s[i], t[k]) /\ SameKey(s[j], t[l])
  BY KeysOfRows
<1>2. KeyOf(t[k]) = KeyOf(s[i]) /\ KeyOf(t[l]) = KeyOf(s[j])
  BY <1>1 DEF KeyOf, SameKey
<1>3. k = l
  BY <1>2 DEF Apart
<1>4. s[i].id = s[j].id
  BY <1>1, <1>3 DEF SameKey
<1> QED BY <1>4 DEF IsListing

(* Two listings of the same rows, in one order, are the same. *)
LEMMA SameListing ==
  ASSUME NEW o \in Orders, NEW s, NEW t, IsListing(s), IsListing(t),
         InOrder(o, s), InOrder(o, t), Distinct(o, s), Distinct(o, t), Keys(s) = Keys(t)
  PROVE  DOMAIN s = DOMAIN t /\ \A i \in DOMAIN s : s[i].id = t[i].id
<1>1. ASSUME NEW a, NEW b, IsListing(a), IsListing(b), InOrder(o, a), InOrder(o, b),
             Distinct(o, a), Distinct(o, b), Keys(a) = Keys(b), NEW i \in DOMAIN a
      PROVE  i \in DOMAIN b /\ a[i].id = b[i].id
  <2>1. PICK j \in DOMAIN b : a[i].id = b[j].id
    BY <1>1, KeysOfRows DEF SameKey
  <2>2. Keys(a) \subseteq Keys(b) /\ Keys(b) \subseteq Keys(a)
    BY <1>1
  <2>3. i <= j
    BY <1>1, <2>1, <2>2, NoRowMovesUp
  <2>4. j <= i
    BY <1>1, <2>1, <2>2, NoRowMovesUp
  <2>5. i \in Nat /\ j \in Nat
    BY <1>1, <2>1 DEF IsListing
  <2>6. i = j
    BY <2>3, <2>4, <2>5
  <2> QED BY <2>1, <2>6
<1>2. \A i \in DOMAIN s : i \in DOMAIN t /\ s[i].id = t[i].id
  BY <1>1
<1>3. \A i \in DOMAIN t : i \in DOMAIN s
  BY <1>1
<1> QED BY <1>2, <1>3

(* In a listing that is in the order of one kind of index only, or whose   *)
(* order is the tool's, all answers are in one order.                      *)
LEMMA OneOrder ==
  ASSUME NEW some, AsReturned => \A k, l \in some : k = l, NEW k \in some, NEW l \in some
  PROVE  OrderOf(k) = OrderOf(l)
<1>1. CASE AsReturned
  BY <1>1
<1>2. CASE ~ AsReturned
  BY <1>2 DEF OrderOf
<1> QED BY <1>1, <1>2

(* An answer keeps what is known of a walk. *)
LEMMA AnswerKeeps ==
  ASSUME Inv, NEW kind \in {"scan", "sql"}, NEW rows, IsListing(rows), Presorted(kind, rows),
         Answer(kind, rows), walk' = walk
  PROVE  /\ got' \in Seq(Ids) /\ IsListing(first') /\ IsListing(latest')
         /\ over' \in BOOLEAN /\ grown' \in BOOLEAN /\ kinds' \subseteq {"scan", "sql"}
         /\ LatestInOrder' /\ NothingHidden'
<1>1. TypeInv /\ LatestInOrder /\ NothingHidden
  BY DEF Inv
<1>2. /\ walk \in Walks /\ got \in Seq(Ids) /\ IsListing(first) /\ IsListing(latest)
      /\ grown \in BOOLEAN /\ kinds \subseteq {"scan", "sql"}
      /\ vault \in [Ids -> Shapes \cup {NoNote}]
  BY <1>1 DEF TypeInv
<1>3. PICK listed : listed = Listed(rows)
  OBVIOUS
<1>4. IsListing(listed) /\ InOrder(OrderOf(kind), listed)
  BY <1>2, <1>3, ListedInOrder
<1>5. /\ latest' = listed
      /\ over' = (Len(got') >= Len(listed))
      /\ first' = IF kinds = {} THEN listed ELSE first
      /\ grown' = (grown /\ Keys(latest) \subseteq Keys(listed))
      /\ kinds' = kinds \cup {kind}
  BY <1>3 DEF Answer
<1>6. /\ got' \in Seq(Ids) /\ Len(got) <= Len(got')
      /\ \A i \in 1..Len(got) : got'[i] = got[i]
      /\ \A i \in (Len(got) + 1)..Len(got') :
           i \in DOMAIN listed /\ got'[i] = listed[i].id
  BY <1>1, <1>3, <1>4, AnswerGives
<1>7. /\ DOMAIN got = 1..Len(got) /\ Len(got) \in Nat
      /\ DOMAIN got' = 1..Len(got') /\ Len(got') \in Nat
      /\ DOMAIN listed \subseteq Nat /\ DOMAIN latest \subseteq Nat
  BY <1>2, <1>4, <1>6 DEF IsListing
<1>8. /\ IsListing(first') /\ IsListing(latest')
      /\ over' \in BOOLEAN /\ grown' \in BOOLEAN /\ kinds' \subseteq {"scan", "sql"}
  <2>1. over' \in BOOLEAN
    BY <1>5
  <2>2. grown' \in BOOLEAN
    BY <1>5
  <2>3. IsListing(first') /\ IsListing(latest')
    BY <1>2, <1>4, <1>5
  <2> QED BY <1>2, <1>5, <2>1, <2>2, <2>3
<1>9. /\ AsReturned' = AsReturned /\ \A k : OrderOf(k)' = OrderOf(k)
      /\ \A s : Apart(s)' = Apart(s)
  <2>1. AsReturned' = AsReturned
    BY DEF AsReturned
  <2>2. \A k : TitleOrder(k)' = TitleOrder(k)
    BY DEF TitleOrder
  <2>3. \A r : KeyOf(r)' = KeyOf(r)
    BY DEF KeyOf
  <2> QED BY <2>1, <2>2, <2>3 DEF OrderOf, Apart
<1>10. LatestInOrder'
  <2>1. ASSUME AsReturned => OneKind', NEW k \in kinds'
        PROVE  InOrder(OrderOf(k), listed)
    <3>1. kind \in kinds' /\ (AsReturned => \A m, l \in kinds' : m = l)
      BY <1>5, <2>1 DEF OneKind
    <3>2. OrderOf(k) = OrderOf(kind)
      BY <2>1, <3>1, OneOrder
    <3> QED BY <1>4, <3>2
  <2> QED BY <1>5, <1>9, <2>1 DEF LatestInOrder
<1>11. ASSUME kinds = {}, Apart(listed)
       PROVE  /\ Keys(first') \subseteq Keys(listed)
              /\ \A i \in DOMAIN first', j \in DOMAIN listed :
                   first'[i].id = listed[j].id => j > Len(got') \/ first'[i].id \in ToSet(got')
              /\ IdsOf(listed) = IdsOf(first')
              /\ \A j \in DOMAIN got' : j \in DOMAIN listed /\ got'[j] = listed[j].id
  <2>1. first' = listed /\ Len(got) = 0
    BY <1>1, <1>5, <1>11 DEF NothingHidden
  <2>2. \A j \in DOMAIN got' : j \in DOMAIN listed /\ got'[j] = listed[j].id
    BY <1>6, <1>7, <2>1
  <2>3. ASSUME NEW j \in DOMAIN listed, ~ j > Len(got') PROVE listed[j].id \in ToSet(got')
    <3>1. j \in DOMAIN got'
      <4>1. j >= 1
        BY <1>4 DEF IsListing
      <4> QED BY <1>7, <2>3, <4>1
    <3> QED BY <2>2, <3>1 DEF ToSet
  <2> QED BY <2>1, <2>2, <2>3
<1>12. ASSUME kinds # {}, grown', Apart(listed), AsReturned => OneKind'
       PROVE  /\ Keys(first) \subseteq Keys(listed)
              /\ \A i \in DOMAIN first, j \in DOMAIN listed :
                   first[i].id = listed[j].id => j > Len(got') \/ first[i].id \in ToSet(got')
              /\ Keys(listed) = Keys(first) =>
                   /\ IdsOf(listed) = IdsOf(first)
                   /\ \A j \in DOMAIN got' : j \in DOMAIN listed /\ got'[j] = listed[j].id
  <2>1. grown /\ Keys(latest) \subseteq Keys(listed)
    BY <1>5, <1>12
  <2>2. Apart(latest)
    BY <1>2, <1>4, <1>12, <2>1, ApartBefore
  <2>3. AsReturned => OneKind /\ \A k \in kinds' : k = kind
    BY <1>5, <1>12 DEF OneKind
  <2>4. /\ Keys(first) \subseteq Keys(latest)
        /\ \A i \in DOMAIN first, j \in DOMAIN latest :
             first[i].id = latest[j].id => j > Len(got) \/ first[i].id \in ToSet(got)
        /\ Keys(latest) = Keys(first) =>
             /\ IdsOf(latest) = IdsOf(first)
             /\ \A j \in DOMAIN got : j \in DOMAIN latest /\ got[j] = latest[j].id
    BY <1>1, <1>12, <2>1, <2>2, <2>3 DEF NothingHidden, Steady
  <2>5. PICK o \in Orders : o = OrderOf(kind)
    BY OrdersAreKnown
  <2>6. InOrder(o, latest) /\ InOrder(o, listed)
    <3>1. PICK k \in kinds : InOrder(OrderOf(k), latest)
      BY <1>1, <1>12, <2>3 DEF LatestInOrder
    <3>2. k \in kinds' /\ kind \in kinds' /\ (AsReturned => \A m, l \in kinds' : m = l)
      BY <1>5, <2>3
    <3>3. OrderOf(k) = OrderOf(kind)
      BY <3>2, OneOrder
    <3> QED BY <1>4, <2>5, <3>1, <3>3
  <2>7. Distinct(o, latest) /\ Distinct(o, listed)
    BY <1>2, <1>4, <1>12, <2>2, <2>5, ApartIsDistinct
  <2>8. \A i \in 1..Len(got) : got[i] \in ToSet(got')
    BY <1>6, <1>7 DEF ToSet
  <2>9. ToSet(got) \subseteq ToSet(got')
    BY <1>7, <2>8 DEF ToSet
  <2>10. ASSUME NEW i \in DOMAIN first, NEW j \in DOMAIN listed, first[i].id = listed[j].id
         PROVE  j > Len(got') \/ first[i].id \in ToSet(got')
    <3>1. PICK q \in DOMAIN latest : first[i].id = latest[q].id
      BY <2>4, KeysOfRows DEF SameKey
    <3>2. q <= j
      <4>1. latest[q].id = listed[j].id
        BY <2>10, <3>1
      <4> QED BY <1>2, <1>4, <2>1, <2>6, <2>7, <4>1, NoRowMovesUp
    <3>3. CASE first[i].id \in ToSet(got)
      BY <2>9, <3>3
    <3>4. CASE q > Len(got) /\ ~ j > Len(got')
      <4>1. j \in (Len(got) + 1)..Len(got')
        BY <1>7, <3>2, <3>4
      <4>2. got'[j] = listed[j].id /\ j \in DOMAIN got'
        BY <1>6, <1>7, <4>1
      <4> QED BY <2>10, <4>2 DEF ToSet
    <3> QED BY <2>4, <3>1, <3>3, <3>4
  <2>11. ASSUME Keys(listed) = Keys(first)
         PROVE  /\ IdsOf(listed) = IdsOf(first)
                /\ \A j \in DOMAIN got' : j \in DOMAIN listed /\ got'[j] = listed[j].id
    <3>1. Keys(latest) = Keys(first) /\ Keys(latest) = Keys(listed)
      BY <2>1, <2>4, <2>11
    <3>2. DOMAIN latest = DOMAIN listed /\ \A i \in DOMAIN latest : latest[i].id = listed[i].id
      BY <1>2, <1>4, <2>6, <2>7, <3>1, SameListing
    <3>3. IdsOf(listed) = IdsOf(latest)
      BY <3>2 DEF IdsOf
    <3>4. ASSUME NEW j \in DOMAIN got' PROVE j \in DOMAIN listed /\ got'[j] = listed[j].id
      <4>1. j \in 1..Len(got) \/ j \in (Len(got) + 1)..Len(got')
        BY <1>7
      <4> QED BY <1>6, <1>7, <2>4, <3>1, <3>2, <4>1
    <3> QED BY <2>4, <3>1, <3>3, <3>4
  <2> QED BY <2>1, <2>4, <2>10, <2>11
<1>13. NothingHidden'
  <2>1. kinds' # {}
    BY <1>5
  <2>2. ASSUME Steady'
        PROVE  /\ Keys(first') \subseteq Keys(listed)
               /\ \A i \in DOMAIN first', j \in DOMAIN listed :
                    first'[i].id = listed[j].id => j > Len(got') \/ first'[i].id \in ToSet(got')
               /\ Keys(listed) = Keys(first') =>
                    /\ IdsOf(listed) = IdsOf(first')
                    /\ \A j \in DOMAIN got' : j \in DOMAIN listed /\ got'[j] = listed[j].id
    <3>1. grown' /\ Apart(listed) /\ (AsReturned => OneKind')
      <4>1. Apart(latest)' <=> Apart(listed)
        BY <1>5, <1>9 DEF Apart
      <4> QED BY <1>9, <2>2, <4>1 DEF Steady
    <3>2. CASE kinds = {}
      BY <1>11, <3>1, <3>2
    <3>3. CASE kinds # {}
      <4>1. first' = first
        BY <1>5, <3>3
      <4> QED BY <1>12, <3>1, <3>3, <4>1
    <3> QED BY <3>2, <3>3
  <2> QED BY <1>5, <2>1, <2>2 DEF NothingHidden
<1> QED BY <1>6, <1>8, <1>10, <1>13

(* It says nothing of the vault, the database and the index in the cell. *)
LEMMA WalkUntouched ==
  ASSUME LatestInOrder, NothingHidden, UNCHANGED <<walk, pageVars>>
  PROVE  LatestInOrder' /\ NothingHidden'
<1>1. /\ walk' = walk /\ got' = got /\ over' = over /\ first' = first /\ latest' = latest
      /\ grown' = grown /\ kinds' = kinds
  BY DEF pageVars
<1>2. AsReturned' = AsReturned /\ (\A k : OrderOf(k)' = OrderOf(k)) /\ OneKind' = OneKind
  <2>1. AsReturned' = AsReturned
    BY <1>1 DEF AsReturned
  <2>2. \A k : TitleOrder(k)' = TitleOrder(k)
    BY <1>1 DEF TitleOrder
  <2> QED BY <1>1, <2>1, <2>2 DEF OrderOf, OneKind
<1>3. Steady' = Steady
  <2>1. \A r : KeyOf(r)' = KeyOf(r)
    BY <1>1 DEF KeyOf
  <2>2. Apart(latest)' = Apart(latest)
    BY <1>1, <2>1 DEF Apart
  <2> QED BY <1>1, <1>2, <2>2 DEF Steady
<1>4. LatestInOrder'
  BY <1>1, <1>2 DEF LatestInOrder
<1>5. NothingHidden'
  BY <1>1, <1>3 DEF NothingHidden
<1> QED BY <1>4, <1>5

(* An index that is loaded lists different notes. *)
LEMMA LoadedIsListing ==
  ASSUME vault \in [Ids -> Shapes \cup {NoNote}],
         NEW c \in {Sql} \cup {Scan(s) : s \in SetToSeqs(Rows)}
  PROVE  /\ c.kind \in {"scan", "sql"} /\ IsListing(c.rows)
         /\ \A i \in DOMAIN c.rows : c.rows[i].note \in Shapes
<1>1. CASE c = Sql
  BY <1>1 DEF Sql, IsListing
<1>2. CASE c \in {Scan(s) : s \in SetToSeqs(Rows)}
  <2>1. PICK s \in SetToSeqs(Rows) : c = Scan(s)
    BY <1>2
  <2>2. /\ s \in [1..Cardinality(Rows) -> Rows]
        /\ \A i, j \in 1..Cardinality(Rows) : i # j => s[i] # s[j]
    BY DEF SetToSeqs
  <2> QED BY <2>1, <2>2, SnapshotIsListing DEF Scan
<1> QED BY <1>1, <1>2

(* The initial states satisfy the invariant. *)
LEMMA InvInit == Init => Inv
<1> SUFFICES ASSUME Init PROVE Inv
  OBVIOUS
<1>1. vault \in [Ids -> Shapes \cup {NoNote}]
  BY ListingAssumption DEF Init
<1>2. IsListing(<< >>)
  BY DEF IsListing
<1>3. IsListing(db) /\ \A i \in DOMAIN db : db[i].note \in Shapes
  <2>1. /\ db \in [1..Cardinality(Rows) -> Rows]
        /\ \A i, j \in 1..Cardinality(Rows) : i # j => db[i] # db[j]
    BY DEF Init, SetToSeqs
  <2> QED BY <1>1, <2>1, SnapshotIsListing
<1>4. /\ cell.kind \in {"scan", "sql"} /\ IsListing(cell.rows)
      /\ \A i \in DOMAIN cell.rows : cell.rows[i].note \in Shapes
  <2>1. cell \in {Sql} \cup {Scan(s) : s \in SetToSeqs(Rows)}
    BY DEF Init
  <2> QED BY <1>1, <2>1, LoadedIsListing
<1>5. changes \in 0..MaxChanges /\ got \in Seq(Ids)
  BY ListingAssumption DEF Init
<1>6. TypeInv
  BY <1>1, <1>2, <1>3, <1>4, <1>5 DEF Init, TypeInv, Idle
<1>7. CallInv
  BY DEF Init, CallInv, Idle
<1>8. LatestInOrder /\ NothingHidden
  BY DEF Init, LatestInOrder, NothingHidden
<1> QED BY <1>6, <1>7, <1>8 DEF Inv

(* A change to the vault. *)
LEMMA SaveKeeps ==
  ASSUME Inv, NEW id \in Ids, NEW note \in Shapes \cup {NoNote}, Save(id, note)
  PROVE  Inv'
<1>1. TypeInv'
  <2>1. vault' \in [Ids -> Shapes \cup {NoNote}]
    BY DEF Inv, TypeInv, Save
  <2>2. changes' \in 0..MaxChanges
    BY ListingAssumption DEF Inv, TypeInv, Save
  <2> QED BY <2>1, <2>2 DEF Inv, TypeInv, Save, pageVars
<1>2. CallInv'
  BY DEF Inv, CallInv, Save, Presorted, TitleOrder, InOrder
<1>3. LatestInOrder' /\ NothingHidden'
  BY WalkUntouched DEF Inv, Save
<1> QED BY <1>1, <1>2, <1>3 DEF Inv

(* Emacs replaces the rows of a note: there is one at most. *)
LEMMA CommitKeeps ==
  ASSUME Inv, NEW id \in Ids, Commit(id)
  PROVE  Inv'
<1>1. IsListing(db') /\ \A i \in DOMAIN db' : db'[i].note \in Shapes
  <2>1. IsListing(db) /\ vault \in [Ids -> Shapes \cup {NoNote}]
    BY DEF Inv, TypeInv
  <2>2. PICK others : others = Only(db, {row \in ToSet(db) : row.id # id})
    OBVIOUS
  <2>3. /\ IsListing(others)
        /\ ToSet(others) = ToSet(db) \cap {row \in ToSet(db) : row.id # id}
    BY <2>1, <2>2, OnlyKeeps
  <2>4. \A i \in DOMAIN others : others[i].id # id /\ others[i].note \in Shapes
    <3>1. \A row \in ToSet(db) : row.note \in Shapes
      BY DEF Inv, TypeInv, ToSet
    <3>2. \A i \in DOMAIN others : others[i] \in ToSet(others)
      BY DEF ToSet
    <3> QED BY <2>3, <3>1, <3>2
  <2>5. CASE vault[id] = NoNote
    BY <2>2, <2>3, <2>4, <2>5 DEF Commit
  <2>6. CASE vault[id] # NoNote
    <3>1. PICK row \in ARow : row = Row(id)
      <4>1. vault[id] \in Note
        BY <2>1, <2>6, ListingAssumption
      <4> QED BY <4>1 DEF Row, ARow
    <3>2. row.id = id /\ row.note \in Shapes
      BY <2>1, <2>6, <3>1 DEF Row
    <3>3. db' = Append(others, row)
      BY <2>2, <2>6, <3>1 DEF Commit
    <3>4. others \in Seq(ARow)
      BY <2>3 DEF IsListing
    <3>5. /\ db' \in Seq(ARow) /\ DOMAIN db' = 1..(Len(others) + 1)
          /\ DOMAIN others = 1..Len(others) /\ Len(others) \in Nat
          /\ \A i \in 1..Len(others) : db'[i] = others[i]
          /\ db'[Len(others) + 1] = row
      BY <3>3, <3>4
    <3>6. \A i \in DOMAIN db' : i \in DOMAIN others \/ i = Len(others) + 1
      BY <3>5
    <3>7. ASSUME NEW i \in DOMAIN db', NEW j \in DOMAIN db', db'[i].id = db'[j].id
          PROVE  i = j
      BY <2>3, <2>4, <3>2, <3>5, <3>6, <3>7 DEF IsListing
    <3> QED BY <2>4, <3>2, <3>5, <3>6, <3>7 DEF IsListing
  <2> QED BY <2>5, <2>6
<1>2. TypeInv'
  BY <1>1 DEF Inv, TypeInv, Commit, pageVars
<1>3. CallInv'
  BY DEF Inv, CallInv, Commit, Presorted, TitleOrder, InOrder
<1>4. LatestInOrder' /\ NothingHidden'
  BY WalkUntouched DEF Inv, Commit
<1> QED BY <1>2, <1>3, <1>4 DEF Inv

(* The index in the cell is replaced. *)
LEMMA ReloadKeeps == ASSUME Inv, Reload PROVE Inv'
<1>1. /\ cell'.kind \in {"scan", "sql"} /\ IsListing(cell'.rows)
      /\ \A i \in DOMAIN cell'.rows : cell'.rows[i].note \in Shapes
  <2>1. vault \in [Ids -> Shapes \cup {NoNote}]
    BY DEF Inv, TypeInv
  <2>2. cell' \in {Sql} \cup {Scan(s) : s \in SetToSeqs(Rows)}
    BY DEF Reload
  <2> QED BY <2>1, <2>2, LoadedIsListing
<1>2. TypeInv'
  BY <1>1 DEF Inv, TypeInv, Reload, fileVars, pageVars
<1>3. CallInv'
  BY DEF Inv, CallInv, Reload, Presorted, TitleOrder, InOrder
<1>4. LatestInOrder' /\ NothingHidden'
  BY WalkUntouched DEF Inv, Reload
<1> QED BY <1>2, <1>3, <1>4 DEF Inv

(* A call on a scan is answered at once. *)
LEMMA ListScanKeeps == ASSUME Inv, ListScan PROVE Inv'
<1>1. PICK rows : rows = Selected("scan", cell.rows)
  OBVIOUS
<1>2. IsListing(rows) /\ Presorted("scan", rows)
  <2>1. walk \in Walks /\ IsListing(cell.rows)
    BY DEF Inv, TypeInv
  <2> QED BY <1>1, <2>1, SelectedIsListing
<1>3. Answer("scan", rows) /\ UNCHANGED <<fileVars, cell, walk, call>>
  BY <1>1 DEF ListScan
<1>4. /\ got' \in Seq(Ids) /\ IsListing(first') /\ IsListing(latest')
      /\ over' \in BOOLEAN /\ grown' \in BOOLEAN /\ kinds' \subseteq {"scan", "sql"}
      /\ LatestInOrder' /\ NothingHidden'
  <2>1. "scan" \in {"scan", "sql"} /\ walk' = walk
    BY <1>3
  <2> QED BY <1>2, <1>3, <2>1, AnswerKeeps
<1>5. TypeInv'
  BY <1>3, <1>4 DEF Inv, TypeInv, fileVars
<1>6. CallInv'
  BY <1>3 DEF Inv, CallInv, Presorted, TitleOrder, InOrder
<1> QED BY <1>4, <1>5, <1>6 DEF Inv

(* One on a database first reads which notes have external links, *)
LEMMA ReadLinksKeeps == ASSUME Inv, ReadLinks PROVE Inv'
<1>1. IsListing(call'.rows) /\ call'.at = "links"
  <2>1. PICK rows : rows = Selected("sql", db)
    OBVIOUS
  <2>2. walk \in Walks /\ IsListing(db)
    BY DEF Inv, TypeInv
  <2>3. IsListing(rows)
    BY <2>1, <2>2, SelectedIsListing
  <2> QED BY <2>1, <2>3 DEF ReadLinks
<1>2. TypeInv'
  BY <1>1 DEF Inv, TypeInv, ReadLinks, fileVars, pageVars
<1>3. CallInv'
  BY <1>1 DEF Inv, CallInv, ReadLinks
<1>4. LatestInOrder' /\ NothingHidden'
  BY WalkUntouched DEF Inv, ReadLinks
<1> QED BY <1>2, <1>3, <1>4 DEF Inv

(* then selects nodes, in the order the tool relies on, *)
LEMMA SelectNodesKeeps == ASSUME Inv, SelectNodes PROVE Inv'
<1>1. walk \in Walks /\ IsListing(db) /\ UNCHANGED <<fileVars, cell, walk, pageVars>>
  BY DEF Inv, TypeInv, SelectNodes
<1>2. IsListing(call'.rows) /\ call'.at = "attach" /\ Presorted("sql", call'.rows)
  <2>1. CASE call' = [at |-> "attach", rows |-> Selected("sql", db)]
    <3>1. PICK rows : rows = Selected("sql", db)
      OBVIOUS
    <3>2. IsListing(rows) /\ Presorted("sql", rows)
      BY <1>1, <3>1, SelectedIsListing
    <3> QED BY <2>1, <3>1, <3>2
  <2>2. CASE /\ call.at = "links"
             /\ call' = [at |-> "attach",
                         rows |-> Sorted(Only(db, {row \in ToSet(db) :
                                     row.id \in ToSet(IdsOf(call.rows))}), "title")]
    <3>1. PICK some : some = Only(db, {row \in ToSet(db) : row.id \in ToSet(IdsOf(call.rows))})
      OBVIOUS
    <3>2. PICK rows : rows = Sorted(some, "title")
      OBVIOUS
    <3>3. IsListing(some) /\ "title" \in Orders
      BY <1>1, <3>1, OnlyKeeps DEF Orders
    <3>4. IsListing(rows) /\ InOrder("title", rows)
      BY <3>2, <3>3, SortedKeeps
    <3>5. call' = [at |-> "attach", rows |-> rows]
      BY <2>2, <3>1, <3>2
    <3>6. walk.tool = "list_external_links"
      BY <2>2 DEF Inv, CallInv
    <3> QED BY <3>4, <3>5, <3>6 DEF Presorted
  <2> QED BY <2>1, <2>2 DEF SelectNodes
<1>3. TypeInv'
  BY <1>1, <1>2 DEF Inv, TypeInv, fileVars, pageVars
<1>4. CallInv'
  BY <1>1, <1>2 DEF CallInv, Presorted, TitleOrder, InOrder
<1>5. LatestInOrder' /\ NothingHidden'
  BY <1>1, WalkUntouched DEF Inv
<1> QED BY <1>3, <1>4, <1>5 DEF Inv

(* and answers when their tags are attached. *)
LEMMA AttachKeeps == ASSUME Inv, Attach PROVE Inv'
<1>1. PICK rows : rows = Attached(call.rows)
  OBVIOUS
<1>2. /\ IsListing(db) /\ IsListing(call.rows) /\ Presorted("sql", call.rows)
  BY DEF Inv, TypeInv, CallInv, Attach
<1>3. IsListing(rows) /\ Presorted("sql", rows)
  <2>1. IsListing(rows)
    BY <1>1, <1>2, AttachedIsListing
  <2>2. \A o \in Orders : InOrder(o, call.rows) => InOrder(o, rows)
    BY <1>1, <1>2, AttachedInOrder
  <2>3. TitleOrder("sql") \in Orders /\ "title" \in Orders
    BY OrdersAreKnown DEF Orders
  <2> QED BY <1>2, <2>1, <2>2, <2>3 DEF Presorted
<1>4. Answer("sql", rows) /\ call' = Idle /\ UNCHANGED <<fileVars, cell, walk>>
  BY <1>1 DEF Attach
<1>5. /\ got' \in Seq(Ids) /\ IsListing(first') /\ IsListing(latest')
      /\ over' \in BOOLEAN /\ grown' \in BOOLEAN /\ kinds' \subseteq {"scan", "sql"}
      /\ LatestInOrder' /\ NothingHidden'
  <2>1. "sql" \in {"scan", "sql"} /\ walk' = walk
    BY <1>4
  <2> QED BY <1>3, <1>4, <2>1, AnswerKeeps
<1>6. IsListing(call'.rows) /\ call'.at = "idle"
  BY <1>4 DEF Idle, IsListing
<1>7. TypeInv'
  BY <1>4, <1>5, <1>6 DEF Inv, TypeInv, fileVars
<1>8. CallInv'
  BY <1>4, <1>6 DEF CallInv
<1> QED BY <1>5, <1>7, <1>8 DEF Inv

(* So it is an invariant. *)
LEMMA InvHolds == Spec => []Inv
<1>1. ASSUME Inv, [Next]_vars PROVE Inv'
  <2>1. CASE UNCHANGED vars
    <3>1. UNCHANGED <<walk, pageVars>>
      BY <2>1 DEF vars
    <3>2. LatestInOrder' /\ NothingHidden'
      BY <1>1, <3>1, WalkUntouched DEF Inv
    <3>3. TypeInv'
      BY <1>1, <2>1 DEF Inv, TypeInv, vars, fileVars, pageVars
    <3>4. CallInv'
      BY <1>1, <2>1 DEF Inv, CallInv, Presorted, TitleOrder, InOrder, vars
    <3> QED BY <3>2, <3>3, <3>4 DEF Inv
  <2>2. CASE \E id \in Ids, note \in Shapes \cup {NoNote} : Save(id, note)
    BY <1>1, <2>2, SaveKeeps
  <2>3. CASE \E id \in Ids : Commit(id)
    BY <1>1, <2>3, CommitKeeps
  <2>4. CASE Reload
    BY <1>1, <2>4, ReloadKeeps
  <2>5. CASE ListScan
    BY <1>1, <2>5, ListScanKeeps
  <2>6. CASE ReadLinks
    BY <1>1, <2>6, ReadLinksKeeps
  <2>7. CASE SelectNodes
    BY <1>1, <2>7, SelectNodesKeeps
  <2>8. CASE Attach
    BY <1>1, <2>8, AttachKeeps
  <2> QED BY <1>1, <2>1, <2>2, <2>3, <2>4, <2>5, <2>6, <2>7, <2>8 DEF Next
<1> QED BY <1>1, InvInit, PTL DEF Spec

-----------------------------------------------------------------------------
(* Letters in their order                                                  *)

(* The counter of letters found, after each letter of the text. *)
Counts(q, t, h) ==
  /\ h \in [0..Len(t) -> 0..Len(q)] /\ h[0] = 0
  /\ \A k \in 1..Len(t) :
       h[k] = IF h[k - 1] < Len(q) /\ q[h[k - 1] + 1] = t[k] THEN h[k - 1] + 1 ELSE h[k - 1]

(* That is what is counted. *)
LEMMA FoundIsCounted ==
  ASSUME NEW q \in Text, NEW t \in Text
  PROVE  \E h : Counts(q, t, h) /\ Found(q, t) = h[Len(t)]
<1>1. PICK m \in Nat, n \in Nat : m = Len(q) /\ n = Len(t) /\ DOMAIN t = 1..n
  BY DEF Text
<1>2. PICK F : F = [x \in (0..m) \X (1..n) |->
                      IF x[1] < m /\ q[x[1] + 1] = t[x[2]] THEN x[1] + 1 ELSE x[1]]
  OBVIOUS
<1>3. F \in [(0..m) \X (1..n) -> 0..m] /\ 0 \in 0..m
  BY <1>2
<1> DEFINE Runs(g) ==
      g = [s \in SUBSET (1..n) |->
             IF s = {} THEN 0
             ELSE IF g[s \ {Max(s)}] < m /\ q[g[s \ {Max(s)}] + 1] = t[Max(s)]
                  THEN g[s \ {Max(s)}] + 1 ELSE g[s \ {Max(s)}]]
<1>4. \E g : Runs(g)
  <2>1. PICK g \in [SUBSET (1..n) -> 0..m] : Folds(g, n, 0, F)
    BY <1>3, FoldExists
  <2>2. ASSUME NEW s \in SUBSET (1..n), s # {}
        PROVE  g[s] = IF g[s \ {Max(s)}] < m /\ q[g[s \ {Max(s)}] + 1] = t[Max(s)]
                      THEN g[s \ {Max(s)}] + 1 ELSE g[s \ {Max(s)}]
    <3>1. PICK x \in 1..n : x = Max(s)
      <4>1. s \subseteq 0..n
        OBVIOUS
      <4> QED BY <2>2, <4>1, GreatestExists
    <3>2. g[s] = F[<<g[s \ {x}], x>>] /\ g[s \ {x}] \in 0..m
      BY <2>1, <2>2, <3>1 DEF Folds
    <3>3. PICK c \in 0..m : c = g[s \ {x}]
      BY <3>2
    <3>4. F[<<c, x>>] = IF c < m /\ q[c + 1] = t[x] THEN c + 1 ELSE c
      BY <1>2
    <3> QED BY <3>1, <3>2, <3>3, <3>4
  <2>3. g = [s \in SUBSET (1..n) |-> g[s]]
    BY <2>1
  <2>4. g[{}] = 0
    BY <2>1 DEF Folds
  <2>5. \A s \in SUBSET (1..n) :
          g[s] = IF s = {} THEN 0
                 ELSE IF g[s \ {Max(s)}] < m /\ q[g[s \ {Max(s)}] + 1] = t[Max(s)]
                      THEN g[s \ {Max(s)}] + 1 ELSE g[s \ {Max(s)}]
    BY <2>2, <2>4
  <2> DEFINE G(s) == IF s = {} THEN 0
                     ELSE IF g[s \ {Max(s)}] < m /\ q[g[s \ {Max(s)}] + 1] = t[Max(s)]
                          THEN g[s \ {Max(s)}] + 1 ELSE g[s \ {Max(s)}]
  <2>6. \A s \in SUBSET (1..n) : g[s] = G(s)
    BY <2>5
  <2>7. g = [s \in SUBSET (1..n) |-> G(s)]
    <3> HIDE DEF G
    <3> QED BY <2>3, <2>6
  <2> QED BY <2>7
<1>5. PICK it : it = (CHOOSE g : Runs(g))
  OBVIOUS
<1>6. Found(q, t) = it[1..n]
  BY <1>1, <1>5 DEF Found, FoldLeft, MapThenFoldSet
<1>7. Runs(it)
  <2> HIDE DEF Runs
  <2> QED BY <1>4, <1>5
<1> DEFINE G(s) == IF s = {} THEN 0
                   ELSE IF it[s \ {Max(s)}] < m /\ q[it[s \ {Max(s)}] + 1] = t[Max(s)]
                        THEN it[s \ {Max(s)}] + 1 ELSE it[s \ {Max(s)}]
<1>20. it = [s \in SUBSET (1..n) |-> G(s)]
  BY <1>7
<1>21. \A s \in SUBSET (1..n) : it[s] = G(s)
  <2> HIDE DEF G
  <2> QED BY <1>20
<1> HIDE DEF Runs
<1>8. PICK h : h = [k \in 0..n |-> it[1..k]]
  OBVIOUS
<1>9. h[0] = 0 /\ h[n] = it[1..n]
  <2>1. 1..0 = {} /\ {} \in SUBSET (1..n)
    OBVIOUS
  <2>2. it[{}] = 0
    BY <1>21, <2>1
  <2> QED BY <1>8, <2>1, <2>2
<1>10. ASSUME NEW k \in 1..n
       PROVE  h[k] = IF h[k - 1] < m /\ q[h[k - 1] + 1] = t[k] THEN h[k - 1] + 1 ELSE h[k - 1]
  <2>1. 1..k \in SUBSET (1..n) /\ 1..k # {} /\ k - 1 \in 0..n /\ (1..k) \ {k} = 1..(k - 1)
    OBVIOUS
  <2>2. Max(1..k) = k
    <3>1. 1..k \subseteq 0..k /\ k \in Nat /\ k \in 1..k
      OBVIOUS
    <3>2. Max(1..k) \in 1..k /\ k <= Max(1..k)
      BY <2>1, <3>1, GreatestExists
    <3> QED BY <3>2
  <2>3. PICK s \in SUBSET (1..n) : s = 1..k /\ k = Max(s) /\ s # {} /\ s \ {k} = 1..(k - 1)
    BY <2>1, <2>2
  <2>4. it[s] = IF it[s \ {k}] < m /\ q[it[s \ {k}] + 1] = t[k]
                THEN it[s \ {k}] + 1 ELSE it[s \ {k}]
    BY <1>21, <2>3
  <2>5. it[s] = h[k] /\ it[s \ {k}] = h[k - 1]
    <3>1. h[k] = it[1..k]
      BY <1>8, <2>1
    <3>2. h[k - 1] = it[1..(k - 1)]
      BY <1>8, <2>1
    <3> QED BY <2>3, <3>1, <3>2
  <2> QED BY <2>4, <2>5
<1>11. ASSUME NEW i \in 0..n PROVE h[i] \in 0..m
  <2> DEFINE Bad == {k \in 0..n : h[k] \notin 0..m}
  <2> SUFFICES ASSUME Bad # {} PROVE FALSE
    OBVIOUS
  <2>1. PICK k \in Bad : \A j \in Bad : k <= j
    <3>1. Bad \subseteq Nat
      OBVIOUS
    <3> HIDE DEF Bad
    <3> QED BY <3>1, LeastExists
  <2>2. k \in 1..n /\ k - 1 \in 0..n /\ ~ k <= k - 1
    BY <1>9, <2>1
  <2>3. h[k - 1] \in 0..m
    BY <2>1, <2>2
  <2>4. PICK c \in 0..m : c = h[k - 1]
    BY <2>3
  <2>5. h[k] = IF c < m /\ q[c + 1] = t[k] THEN c + 1 ELSE c
    BY <1>10, <2>2, <2>4
  <2> QED BY <2>1, <2>5
<1>12. h \in [0..n -> 0..m]
  BY <1>8, <1>11
<1> QED BY <1>1, <1>6, <1>9, <1>10, <1>12 DEF Counts

(* The counter never falls, and is never ahead of the text.                *)
LEMMA CounterGrows ==
  ASSUME NEW q \in Text, NEW t \in Text, NEW h, Counts(q, t, h)
  PROVE  /\ \A k \in 0..Len(t) : h[k] <= k
         /\ \A j, k \in 0..Len(t) : j <= k => h[j] <= h[k]
<1>1. PICK m \in Nat, n \in Nat : m = Len(q) /\ n = Len(t)
  BY DEF Text
<1>2. /\ h \in [0..n -> 0..m] /\ h[0] = 0
      /\ \A k \in 1..n : h[k - 1] \in 0..m /\ h[k] \in {h[k - 1], h[k - 1] + 1}
  <2>1. h \in [0..n -> 0..m] /\ h[0] = 0
    BY <1>1 DEF Counts
  <2>2. ASSUME NEW k \in 1..n PROVE h[k - 1] \in 0..m /\ h[k] \in {h[k - 1], h[k - 1] + 1}
    <3>1. k - 1 \in 0..n
      OBVIOUS
    <3>2. h[k] = IF h[k - 1] < m /\ q[h[k - 1] + 1] = t[k] THEN h[k - 1] + 1 ELSE h[k - 1]
      BY <1>1 DEF Counts
    <3> QED BY <2>1, <3>1, <3>2
  <2> QED BY <2>1, <2>2
<1>3. ASSUME NEW i \in 0..n PROVE h[i] <= i
  <2> DEFINE Bad == {k \in 0..n : ~ h[k] <= k}
  <2> SUFFICES ASSUME Bad # {} PROVE FALSE
    OBVIOUS
  <2>1. PICK k \in Bad : \A j \in Bad : k <= j
    <3>1. Bad \subseteq Nat
      OBVIOUS
    <3> HIDE DEF Bad
    <3> QED BY <3>1, LeastExists
  <2>2. k \in 1..n /\ k - 1 \in 0..n /\ ~ k <= k - 1
    BY <1>2, <2>1
  <2>3. h[k - 1] <= k - 1
    BY <2>1, <2>2
  <2>4. PICK c \in 0..m : c = h[k - 1]
    BY <1>2, <2>2
  <2>5. h[k] \in {c, c + 1} /\ ~ h[k] <= k
    BY <1>2, <2>1, <2>2, <2>4
  <2> QED BY <2>2, <2>3, <2>4, <2>5
<1>4. ASSUME NEW j \in 0..n, NEW i \in 0..n, j <= i PROVE h[j] <= h[i]
  <2> DEFINE Bad == {k \in 0..n : j <= k /\ ~ h[j] <= h[k]}
  <2> SUFFICES ASSUME Bad # {} PROVE FALSE
    BY <1>4
  <2>1. PICK k \in Bad : \A l \in Bad : k <= l
    <3>1. Bad \subseteq Nat
      OBVIOUS
    <3> HIDE DEF Bad
    <3> QED BY <3>1, LeastExists
  <2>2. PICK b \in 0..m : b = h[j]
    BY <1>2
  <2>3. k # j
    BY <2>1, <2>2
  <2>4. k \in 1..n /\ k - 1 \in 0..n /\ ~ k <= k - 1 /\ j <= k - 1
    BY <2>1, <2>3
  <2>5. h[j] <= h[k - 1]
    BY <2>1, <2>4
  <2>6. PICK c \in 0..m : c = h[k - 1]
    BY <1>2, <2>4
  <2>7. h[k] \in {c, c + 1}
    BY <1>2, <2>4, <2>6
  <2> QED BY <2>1, <2>2, <2>5, <2>6, <2>7
<1> QED BY <1>1, <1>3, <1>4

(* f leads from the letters of a query to letters of a text, in order.     *)
Embeds(q, t, f) ==
  /\ f \in [1..Len(q) -> 1..Len(t)]
  /\ \A n \in 1..Len(q) : t[f[n]] = q[n] /\ \A m \in 1..(n - 1) : f[m] < f[n]

(* Taking each letter as soon as it comes, the counter finds them all if   *)
(* they can be found at all; and then the text is no shorter.              *)
LEMMA FoundIffEmbedded ==
  ASSUME NEW q \in Text, NEW t \in Text
  PROVE  /\ Found(q, t) = Len(q) <=> \E f : Embeds(q, t, f)
         /\ Found(q, t) = Len(q) => Len(q) <= Len(t)
<1>1. PICK m \in Nat, n \in Nat : m = Len(q) /\ n = Len(t)
  BY DEF Text
<1>2. PICK h : Counts(q, t, h) /\ Found(q, t) = h[Len(t)]
  BY FoundIsCounted
<1>3. /\ h \in [0..n -> 0..m] /\ h[0] = 0 /\ Found(q, t) = h[n]
      /\ \A k \in 1..n : h[k] = IF h[k - 1] < m /\ q[h[k - 1] + 1] = t[k]
                                THEN h[k - 1] + 1 ELSE h[k - 1]
  BY <1>1, <1>2 DEF Counts
<1>4. /\ \A k \in 0..n : h[k] <= k
      /\ \A j, k \in 0..n : j <= k => h[j] <= h[k]
  BY <1>1, <1>2, CounterGrows
<1>5. ASSUME NEW f, Embeds(q, t, f) PROVE h[n] = m
  <2>1. /\ f \in [1..m -> 1..n]
        /\ \A i \in 1..m : t[f[i]] = q[i] /\ \A j \in 1..(i - 1) : f[j] < f[i]
    BY <1>1, <1>5 DEF Embeds
  <2>2. ASSUME NEW i \in 1..m PROVE i <= h[f[i]]
    <3> DEFINE Bad == {k \in 1..m : ~ k <= h[f[k]]}
    <3> SUFFICES ASSUME Bad # {} PROVE FALSE
      OBVIOUS
    <3>1. PICK k \in Bad : \A l \in Bad : k <= l
      <4>1. Bad \subseteq Nat
        OBVIOUS
      <4> HIDE DEF Bad
      <4> QED BY <4>1, LeastExists
    <3>2. PICK p \in 1..n : p = f[k] /\ p - 1 \in 0..n /\ p \in 0..n
      BY <2>1, <3>1
    <3>3. k - 1 <= h[p - 1]
      <4>1. CASE k = 1
        BY <1>3, <3>2, <4>1
      <4>2. CASE k # 1
        <5>1. k - 1 \in 1..m /\ k - 1 \in 1..(k - 1) /\ ~ k <= k - 1
          BY <3>1, <4>2
        <5>2. PICK r \in 1..n : r = f[k - 1] /\ r < p
          BY <2>1, <3>1, <3>2, <5>1
        <5>3. k - 1 <= h[r]
          BY <3>1, <5>1, <5>2
        <5>4. r \in 0..n /\ r <= p - 1
          BY <3>2, <5>2
        <5>5. h[r] <= h[p - 1]
          BY <1>4, <3>2, <5>4
        <5> QED BY <1>3, <3>2, <5>3, <5>4, <5>5
      <4> QED BY <4>1, <4>2
    <3>4. PICK c \in 0..m : c = h[p - 1]
      BY <1>3, <3>2
    <3>5. h[p] = IF c < m /\ q[c + 1] = t[p] THEN c + 1 ELSE c
      BY <1>3, <3>2, <3>4
    <3>6. t[p] = q[k] /\ k \in 1..m
      BY <2>1, <3>1, <3>2
    <3>7. ~ k <= h[p]
      BY <3>1, <3>2
    <3>8. CASE c >= k
      <4>1. h[p] >= c
        BY <3>5
      <4> QED BY <3>4, <3>5, <3>6, <3>7, <3>8, <4>1
    <3>9. CASE ~ c >= k
      <4>1. c + 1 = k /\ c < m
        BY <3>3, <3>4, <3>6, <3>9
      <4>2. h[p] = k
        BY <3>5, <3>6, <4>1
      <4> QED BY <3>6, <3>7, <4>2
    <3> QED BY <3>8, <3>9
  <2>3. CASE m = 0
    BY <1>3, <2>3
  <2>4. CASE m # 0
    <3>1. PICK p \in 1..n : p = f[m] /\ p \in 0..n /\ n \in 0..n /\ p <= n /\ m \in 1..m
      BY <2>1, <2>4
    <3>2. m <= h[p] /\ h[p] <= h[n]
      BY <1>4, <2>2, <3>1
    <3>3. h[p] \in 0..m /\ h[n] \in 0..m
      BY <1>3, <3>1
    <3> QED BY <3>2, <3>3
  <2> QED BY <2>3, <2>4
<1>6. ASSUME h[n] = m PROVE \E f : Embeds(q, t, f)
  <2>1. ASSUME NEW i \in 1..m
        PROVE  \E k \in 1..n : /\ i <= h[k] /\ t[k] = q[i] /\ h[k - 1] = i - 1
                               /\ \A j \in 0..n : i <= h[j] => k <= j
    <3> DEFINE Far == {k \in 0..n : i <= h[k]}
    <3>1. Far \subseteq Nat /\ n \in Far
      BY <1>6
    <3>2. PICK k \in Far : \A l \in Far : k <= l
      <4> HIDE DEF Far
      <4> QED BY <3>1, LeastExists
    <3>3. k \in 1..n /\ k - 1 \in 0..n /\ ~ k <= k - 1
      BY <1>3, <3>2
    <3>4. PICK c \in 0..m : c = h[k - 1] /\ ~ i <= c
      BY <1>3, <3>2, <3>3
    <3>5. h[k] = IF c < m /\ q[c + 1] = t[k] THEN c + 1 ELSE c
      BY <1>3, <3>3, <3>4
    <3>6. i <= h[k]
      BY <3>2
    <3>7. c + 1 = i /\ q[c + 1] = t[k]
      BY <3>4, <3>5, <3>6
    <3>8. t[k] = q[i] /\ h[k - 1] = i - 1
      BY <3>4, <3>7
    <3>9. \A j \in 0..n : i <= h[j] => k <= j
      BY <3>2
    <3> QED BY <3>3, <3>6, <3>8, <3>9
  <2> DEFINE First(i, k) == /\ i <= h[k] /\ t[k] = q[i] /\ h[k - 1] = i - 1
                            /\ \A j \in 0..n : i <= h[j] => k <= j
  <2>2. PICK f : f = [i \in 1..m |-> CHOOSE k \in 1..n : First(i, k)]
    OBVIOUS
  <2>3. ASSUME NEW i \in 1..m PROVE f[i] \in 1..n /\ First(i, f[i])
    <3>1. \E k \in 1..n : First(i, k)
      BY <2>1
    <3> HIDE DEF First
    <3> QED BY <2>2, <3>1
  <2>4. f \in [1..m -> 1..n]
    <3> HIDE DEF First
    <3> QED BY <2>2, <2>3
  <2>5. ASSUME NEW i \in 1..m, NEW j \in 1..(i - 1) PROVE f[j] < f[i]
    <3>1. j \in 1..m /\ j <= i - 1
      OBVIOUS
    <3>2. PICK k \in 1..n : k = f[i] /\ h[k - 1] = i - 1 /\ k - 1 \in 0..n
      BY <2>3
    <3>3. PICK l \in 1..n : l = f[j] /\ \A p \in 0..n : j <= h[p] => l <= p
      BY <2>3, <3>1
    <3>4. l <= k - 1
      BY <3>1, <3>2, <3>3
    <3> QED BY <3>2, <3>3, <3>4
  <2>6. \A i \in 1..m : t[f[i]] = q[i]
    BY <2>3
  <2> QED BY <1>1, <2>4, <2>5, <2>6 DEF Embeds
<1>7. h[n] = m => m <= n
  BY <1>4
<1> QED BY <1>1, <1>3, <1>5, <1>6, <1>7

-----------------------------------------------------------------------------
(* Scores and grades                                                       *)

(* The query stands in the text, after the first n letters. *)
StandsAt(q, t, n) == n + Len(q) <= Len(t) /\ \A i \in 1..Len(q) : t[n + i] = q[i]

(* Two ways to say so. *)
LEMMA StandsBySlice ==
  ASSUME NEW q \in Text, NEW t \in Text, NEW n \in 0..Len(t)
  PROVE  Slice(t, n, Len(q)) = q <=> StandsAt(q, t, n)
<1>1. PICK m \in Nat, l \in Nat : m = Len(q) /\ l = Len(t) /\ DOMAIN t = 1..l /\ DOMAIN q = 1..m
  BY DEF Text
<1>2. PICK e \in Nat : e = Min({l, n + m}) /\ e = IF n + m <= l THEN n + m ELSE l
  <2>1. PICK b \in Nat : b = n + m
    BY <1>1
  <2>2. l <= b => Min({l, b}) = l
    BY DEF Min
  <2>3. b <= l => Min({l, b}) = b
    BY DEF Min
  <2> QED BY <2>1, <2>2, <2>3
<1>3. PICK s : s = Slice(t, n, Len(q))
  OBVIOUS
<1>4. s = SubSeq(t, n + 1, e)
  BY <1>1, <1>2, <1>3 DEF Slice
<1>5. t \in Seq(Nat) /\ q \in Seq(Nat) /\ n \in 0..l
  BY <1>1 DEF Text
<1>6. s \in Seq(Nat) /\ Len(s) = e - n /\ \A i \in 1..(e - n) : s[i] = t[n + i]
  <2>0. n \in Nat /\ n <= e /\ e <= l
    BY <1>2, <1>5
  <2>1. CASE n < e
    <3>1. s \in Seq(Nat) /\ Len(s) = e - n
      BY <1>1, <1>4, <1>5, <2>0, <2>1
    <3>2. \A i \in 1..(e - n) : s[i] = t[n + i]
      BY <1>1, <1>4, <1>5, <2>0, <2>1
    <3> QED BY <3>1, <3>2
  <2>2. CASE n = e
    <3>1. s = << >>
      BY <1>1, <1>4, <1>5, <2>0, <2>2
    <3> QED BY <2>0, <2>2, <3>1
  <2> QED BY <2>0, <2>1, <2>2
<1>7. ASSUME s = q PROVE StandsAt(q, t, n)
  <2>1. e - n = m
    BY <1>1, <1>6, <1>7
  <2>2. n + m <= l
    BY <1>1, <1>2, <1>5, <2>1
  <2> QED BY <1>1, <1>6, <1>7, <2>1, <2>2 DEF StandsAt
<1>8. ASSUME StandsAt(q, t, n) PROVE s = q
  <2>1. n + m <= l /\ \A i \in 1..m : t[n + i] = q[i]
    BY <1>1, <1>8 DEF StandsAt
  <2>2. e - n = m
    BY <1>1, <1>2, <1>5, <2>1
  <2>3. Len(s) = Len(q) /\ \A i \in 1..Len(q) : s[i] = q[i]
    BY <1>1, <1>6, <2>1, <2>2
  <2> QED BY <1>5, <1>6, <2>3
<1> QED BY <1>3, <1>7, <1>8

(* The other one. *)
LEMMA StandsByPrefix ==
  ASSUME NEW q \in Text, NEW t \in Text, NEW n \in 0..Len(t)
  PROVE  IsPrefix(q, SubSeq(t, n + 1, Len(t))) <=> StandsAt(q, t, n)
<1>1. PICK m \in Nat, l \in Nat : m = Len(q) /\ l = Len(t) /\ DOMAIN t = 1..l /\ DOMAIN q = 1..m
  BY DEF Text
<1>2. t \in Seq(Nat) /\ q \in Seq(Nat) /\ n \in 0..l
  BY <1>1 DEF Text
<1>3. PICK u : u = SubSeq(t, n + 1, l)
  OBVIOUS
<1>4. u \in Seq(Nat) /\ Len(u) = l - n /\ \A i \in 1..(l - n) : u[i] = t[n + i]
  BY <1>1, <1>2, <1>3
<1>5. PICK a, b : a = SubSeq(q, 1, m) /\ b = SubSeq(u, 1, m)
  OBVIOUS
<1>6. a \in Seq(Nat) /\ Len(a) = m /\ \A i \in 1..m : a[i] = q[i]
  BY <1>1, <1>2, <1>5
<1>7. m <= l - n => b \in Seq(Nat) /\ Len(b) = m /\ \A i \in 1..m : b[i] = t[n + i]
  <2> SUFFICES ASSUME m <= l - n PROVE b \in Seq(Nat) /\ Len(b) = m /\ \A i \in 1..m : b[i] = t[n + i]
    OBVIOUS
  <2>1. b \in Seq(Nat) /\ Len(b) = m /\ \A i \in 1..m : b[i] = u[i]
    BY <1>2, <1>4, <1>5
  <2> QED BY <1>4, <1>2, <2>1
<1>8. m <= l - n => (a = b <=> \A i \in 1..m : t[n + i] = q[i])
  <2> SUFFICES ASSUME m <= l - n PROVE a = b <=> \A i \in 1..m : t[n + i] = q[i]
    OBVIOUS
  <2>1. b \in Seq(Nat) /\ Len(b) = m /\ \A i \in 1..m : b[i] = t[n + i]
    BY <1>7
  <2>2. a = b => \A i \in 1..m : t[n + i] = q[i]
    BY <1>6, <2>1
  <2>3. ASSUME \A i \in 1..m : t[n + i] = q[i] PROVE a = b
    <3>1. a \in Seq(Nat) /\ b \in Seq(Nat) /\ Len(a) = Len(b) /\ \A i \in 1..Len(a) : a[i] = b[i]
      BY <1>6, <2>1, <2>3
    <3> QED BY <3>1
  <2> QED BY <2>2, <2>3
<1>9. IsPrefix(q, u) <=> m <= l - n /\ a = b
  BY <1>1, <1>4, <1>5 DEF IsPrefix
<1>10. m <= l - n <=> n + m <= l
  BY <1>2
<1> QED BY <1>1, <1>3, <1>8, <1>9, <1>10 DEF StandsAt

(* How good a match is: the whole text, its start, somewhere in it, or     *)
(* letter by letter.                                                       *)
Rank(q, t) ==
  IF q = t /\ q # <<>> THEN 4
  ELSE IF StandsAt(q, t, 0) THEN 3
  ELSE IF \E n \in 0..Len(t) : StandsAt(q, t, n) THEN 2
  ELSE IF \E f : Embeds(q, t, f) THEN 1
  ELSE 0

(* That is its grade. *)
LEMMA GradeIsRank ==
  ASSUME NEW q \in Text, NEW t \in Text
  PROVE  Grade(q, t) = Rank(q, t)
<1> DEFINE at(n) == Slice(t, n, Len(q)) = q
           reaches(g) == CASE g = 4 -> t = q /\ q # <<>>
                           [] g = 3 -> at(0)
                           [] g = 2 -> \E n \in 0..Len(t) : at(n)
                           [] g = 1 -> \E f \in [1..Len(q) -> 1..Len(t)] :
                                \A n \in 1..Len(q) :
                                  /\ t[f[n]] = q[n]
                                  /\ \A m \in 1..(n - 1) : f[m] < f[n]
           S == {0} \cup {g \in 1..4 : reaches(g)}
<1>1. Grade(q, t) = Max(S)
  BY DEF Grade
<1>2. Len(t) \in Nat
  BY DEF Text
<1>3. \A n \in 0..Len(t) : at(n) <=> StandsAt(q, t, n)
  BY StandsBySlice
<1>4. reaches(4) <=> q = t /\ q # <<>>
  OBVIOUS
<1>5. reaches(3) <=> StandsAt(q, t, 0)
  <2>1. 0 \in 0..Len(t)
    BY <1>2
  <2>2. reaches(3) <=> at(0)
    OBVIOUS
  <2> HIDE DEF at, reaches
  <2> QED BY <1>3, <2>1, <2>2
<1>6. reaches(2) <=> \E n \in 0..Len(t) : StandsAt(q, t, n)
  <2>1. reaches(2) <=> \E n \in 0..Len(t) : at(n)
    OBVIOUS
  <2> HIDE DEF at, reaches
  <2> QED BY <1>3, <2>1
<1>7. reaches(1) <=> \E f : Embeds(q, t, f)
  <2>1. reaches(1) <=> \E f \in [1..Len(q) -> 1..Len(t)] :
                         \A n \in 1..Len(q) :
                           /\ t[f[n]] = q[n]
                           /\ \A m \in 1..(n - 1) : f[m] < f[n]
    OBVIOUS
  <2> HIDE DEF at, reaches
  <2> QED BY <2>1 DEF Embeds
<1> HIDE DEF reaches
<1>8. S \subseteq 0..4 /\ S # {}
  OBVIOUS
<1>9. Max(S) \in S /\ \A x \in S : x <= Max(S)
  <2> HIDE DEF S
  <2> QED BY <1>8, GreatestExists
<1>10. PICK g : g = Max(S)
  OBVIOUS
<1>11. /\ g \in 0..4 /\ (g # 0 => reaches(g))
       /\ \A x \in 1..4 : reaches(x) => x <= g
  <2>1. g \in 0..4
    BY <1>8, <1>9, <1>10
  <2>2. \A x \in 1..4 : reaches(x) => x <= g
    BY <1>9, <1>10
  <2>3. g # 0 => reaches(g)
    BY <1>9, <1>10
  <2> QED BY <2>1, <2>2, <2>3
<1>12. /\ g = 4 \/ ~ reaches(4)
       /\ g >= 3 \/ ~ reaches(3)
       /\ g >= 2 \/ ~ reaches(2)
       /\ g >= 1 \/ ~ reaches(1)
       /\ (g = 4 => reaches(4)) /\ (g = 3 => reaches(3))
       /\ (g = 2 => reaches(2)) /\ (g = 1 => reaches(1))
  BY <1>11
<1>13. g = Rank(q, t)
  <2>1. PICK a \in BOOLEAN, b \in BOOLEAN, c \in BOOLEAN, d \in BOOLEAN :
          /\ a = (q = t /\ q # <<>>) /\ b = StandsAt(q, t, 0)
          /\ c = (\E n \in 0..Len(t) : StandsAt(q, t, n)) /\ d = (\E f : Embeds(q, t, f))
    BY DEF StandsAt
  <2>2. Rank(q, t) = IF a THEN 4 ELSE IF b THEN 3 ELSE IF c THEN 2 ELSE IF d THEN 1 ELSE 0
    BY <2>1 DEF Rank
  <2>3. /\ g = 4 \/ ~ a
        /\ g >= 3 \/ ~ b
        /\ g >= 2 \/ ~ c
        /\ g >= 1 \/ ~ d
        /\ (g = 4 => a) /\ (g = 3 => b) /\ (g = 2 => c) /\ (g = 1 => d)
    BY <1>4, <1>5, <1>6, <1>7, <1>12, <2>1
  <2> QED BY <1>11, <2>2, <2>3
<1> QED BY <1>1, <1>10, <1>13

(* The score of a match of each rank: only the empty query, which matches  *)
(* all texts alike, has one of its own.                                    *)
LEMMA ScoreOfRank ==
  ASSUME NEW q \in Text, NEW t \in Text
  PROVE  /\ Rank(q, t) \in 0..4
         /\ q = <<>> => Score(q, t) = 50 /\ Rank(q, t) = 3
         /\ q # <<>> => /\ Rank(q, t) = 4 => Score(q, t) = 1000
                        /\ Rank(q, t) = 3 => Score(q, t) = 900
                        /\ Rank(q, t) = 2 => Score(q, t) = 700
                        /\ Rank(q, t) = 1 => Score(q, t) \in 1..50
                        /\ Rank(q, t) = 0 => Score(q, t) = 0
<1>1. PICK m \in Nat, l \in Nat : m = Len(q) /\ l = Len(t)
  BY DEF Text
<1>2. PICK a \in BOOLEAN, b \in BOOLEAN, c \in BOOLEAN, d \in BOOLEAN :
        /\ a = (q = t) /\ b = StandsAt(q, t, 0)
        /\ c = (\E n \in 0..Len(t) : StandsAt(q, t, n)) /\ d = (\E f : Embeds(q, t, f))
  BY DEF StandsAt
<1>3. Rank(q, t) = IF a /\ q # <<>> THEN 4 ELSE IF b THEN 3 ELSE IF c THEN 2 ELSE IF d THEN 1 ELSE 0
  BY <1>2 DEF Rank
<1>4. a => b
  <2>1. q = t => StandsAt(q, t, 0)
    BY <1>1 DEF StandsAt
  <2> QED BY <1>2, <2>1
<1>5. b => c
  BY <1>1, <1>2
<1>6. q = <<>> => b
  <2> SUFFICES ASSUME q = <<>> PROVE StandsAt(q, t, 0)
    BY <1>2
  <2>1. Len(q) = 0 /\ 1..0 = {}
    OBVIOUS
  <2>2. 1..Len(q) = {}
    BY <2>1
  <2>3. 0 + Len(q) <= Len(t)
    BY <1>1, <2>1
  <2> QED BY <2>2, <2>3 DEF StandsAt
<1>7. IsPrefix(q, t) <=> b
  <2>1. IsPrefix(q, SubSeq(t, 0 + 1, Len(t))) <=> StandsAt(q, t, 0)
    BY <1>1, StandsByPrefix
  <2>2. SubSeq(t, 0 + 1, Len(t)) = t
    BY DEF Text
  <2> QED BY <1>2, <2>1, <2>2
<1>8. (\E n \in 0..Len(t) : IsPrefix(q, SubSeq(t, n + 1, Len(t)))) <=> c
  BY <1>2, StandsByPrefix
<1>9. Found(q, t) = Len(q) <=> d
  BY <1>2, FoundIffEmbedded
<1>10. PICK x : x = Max({1, (Len(q) * 50) \div Len(t)})
  OBVIOUS
<1>11. q # <<>> => Score(q, t) = CASE a -> 1000 [] ~ a /\ b -> 900 [] ~ b /\ c -> 700
                                   [] ~ c /\ d -> x [] OTHER -> 0
  <2> SUFFICES ASSUME q # <<>>
               PROVE  Score(q, t) = CASE a -> 1000 [] ~ a /\ b -> 900 [] ~ b /\ c -> 700
                                      [] ~ c /\ d -> x [] OTHER -> 0
    OBVIOUS
  <2>1. Score(q, t) =
          CASE q = t -> 1000
            [] q # t /\ IsPrefix(q, t) -> 900
            [] ~ IsPrefix(q, t) /\ (\E n \in 0..Len(t) : IsPrefix(q, SubSeq(t, n + 1, Len(t)))) -> 700
            [] ~ (\E n \in 0..Len(t) : IsPrefix(q, SubSeq(t, n + 1, Len(t)))) /\ Found(q, t) = Len(q) -> x
            [] OTHER -> 0
    BY <1>10 DEF Score
  <2>2. PICK p \in BOOLEAN, w \in BOOLEAN, v \in BOOLEAN, o \in BOOLEAN :
          /\ p = IsPrefix(q, t) /\ v = (Found(q, t) = Len(q)) /\ o = (q = t)
          /\ w = (\E n \in 0..Len(t) : IsPrefix(q, SubSeq(t, n + 1, Len(t))))
          /\ p = b /\ w = c /\ v = d /\ o = a
    <3>1. (IsPrefix(q, t)) = b
      BY <1>7 DEF IsPrefix
    <3>2. (\E n \in 0..Len(t) : IsPrefix(q, SubSeq(t, n + 1, Len(t)))) = c
      BY <1>8
    <3>3. (Found(q, t) = Len(q)) = d
      BY <1>9
    <3> QED BY <1>2, <3>1, <3>2, <3>3
  <2>3. Score(q, t) = CASE o -> 1000 [] ~ o /\ p -> 900 [] ~ p /\ w -> 700
                        [] ~ w /\ v -> x [] OTHER -> 0
    BY <2>1, <2>2
  <2> QED BY <2>2, <2>3
<1>12. q = <<>> => Score(q, t) = 50
  BY DEF Score
<1>13. d /\ q # <<>> => x \in 1..50
  <2> SUFFICES ASSUME d, q # <<>> PROVE x \in 1..50
    OBVIOUS
  <2>1. m <= l /\ m # 0
    BY <1>1, <1>9, FoundIffEmbedded DEF Text
  <2>2. PICK y : y = (m * 50) \div l
    OBVIOUS
  <2>3. y \in 0..50
    <3>1. l \in Nat \ {0} /\ m * 50 \in Nat /\ m * 50 <= l * 50
      BY <2>1
    <3>2. y \in Nat /\ l * y <= m * 50
      BY <2>2, <3>1
    <3>3. y <= 50
      <4> SUFFICES ASSUME y >= 51 PROVE FALSE
        BY <3>2
      <4>1. l * 51 <= l * y
        BY <3>1, <3>2
      <4> QED BY <3>1, <3>2, <4>1
    <3> QED BY <3>2, <3>3
  <2>4. {1, y} \subseteq 0..50 /\ {1, y} # {}
    BY <2>3
  <2>5. Max({1, y}) \in {1, y} /\ \A z \in {1, y} : z <= Max({1, y})
    BY <2>4, GreatestExists
  <2>6. x \in {1, y} /\ 1 <= x
    BY <1>1, <1>10, <2>2, <2>5
  <2> QED BY <2>3, <2>6
<1>14. Rank(q, t) \in 0..4
  BY <1>3
<1>15. ASSUME q # <<>>
       PROVE  /\ Rank(q, t) = 4 => Score(q, t) = 1000
              /\ Rank(q, t) = 3 => Score(q, t) = 900
              /\ Rank(q, t) = 2 => Score(q, t) = 700
              /\ Rank(q, t) = 1 => Score(q, t) \in 1..50
              /\ Rank(q, t) = 0 => Score(q, t) = 0
  <2>1. CASE a
    BY <1>3, <1>4, <1>5, <1>11, <1>15, <2>1
  <2>2. CASE ~ a /\ b
    BY <1>3, <1>4, <1>5, <1>11, <1>15, <2>2
  <2>3. CASE ~ a /\ ~ b /\ c
    BY <1>3, <1>4, <1>5, <1>11, <1>15, <2>3
  <2>4. CASE ~ a /\ ~ b /\ ~ c /\ d
    BY <1>3, <1>4, <1>5, <1>11, <1>13, <1>15, <2>4
  <2>5. CASE ~ a /\ ~ b /\ ~ c /\ ~ d
    BY <1>3, <1>4, <1>5, <1>11, <1>15, <2>5
  <2> QED BY <2>1, <2>2, <2>3, <2>4, <2>5
<1>16. q = <<>> => Rank(q, t) = 3
  BY <1>3, <1>6
<1> QED BY <1>12, <1>14, <1>15, <1>16

(* So scores put matches in the order of their grades, and no text that    *)
(* matches has score 0.                                                    *)
LEMMA ScoresFollowGrades ==
  ASSUME NEW q \in Text, NEW t \in Text
  PROVE  /\ Score(q, t) \in 0..1000 /\ Grade(q, t) \in 0..4
         /\ Score(q, t) > 0 <=> Grade(q, t) > 0
         /\ \A u \in Text : Grade(q, t) > Grade(q, u) => Score(q, t) > Score(q, u)
<1> SUFFICES ASSUME NEW u \in Text
             PROVE  /\ Score(q, t) \in 0..1000 /\ Grade(q, t) \in 0..4
                    /\ Score(q, t) > 0 <=> Grade(q, t) > 0
                    /\ Grade(q, t) > Grade(q, u) => Score(q, t) > Score(q, u)
  <2>1. q \in Text
    OBVIOUS
  <2> QED BY <2>1
<1>1. PICK a, b, x, y : /\ a = Rank(q, t) /\ b = Rank(q, u)
                        /\ x = Score(q, t) /\ y = Score(q, u)
  OBVIOUS
<1>2. Grade(q, t) = a /\ Grade(q, u) = b
  BY <1>1, GradeIsRank
<1>3. a \in 0..4 /\ b \in 0..4
  BY <1>1, ScoreOfRank
<1>4. CASE q = <<>>
  <2>1. x = 50 /\ y = 50 /\ a = 3 /\ b = 3
    BY <1>1, <1>4, ScoreOfRank
  <2> QED BY <1>1, <1>2, <2>1
<1>5. CASE q # <<>>
  <2>1. /\ a = 4 => x = 1000
        /\ a = 3 => x = 900
        /\ a = 2 => x = 700
        /\ a = 1 => x \in 1..50
        /\ a = 0 => x = 0
    BY <1>1, <1>5, ScoreOfRank
  <2>2. /\ b = 4 => y = 1000
        /\ b = 3 => y = 900
        /\ b = 2 => y = 700
        /\ b = 1 => y \in 1..50
        /\ b = 0 => y = 0
    BY <1>1, <1>5, ScoreOfRank
  <2>3. x \in 0..1000 /\ y \in 0..1000
    BY <1>3, <2>1, <2>2
  <2>4. x > 0 <=> a > 0
    BY <1>3, <2>1
  <2>5. a > b => x > y
    BY <1>3, <2>1, <2>2
  <2> QED BY <1>1, <1>2, <1>3, <2>3, <2>4, <2>5
<1> QED BY <1>4, <1>5

-----------------------------------------------------------------------------
(* search_nodes                                                            *)

(* The best match among a note's texts is as good by score as by grade.    *)
LEMMA BestFollow ==
  ASSUME NEW query \in Queries, NEW a \in Shapes, NEW b \in Shapes
  PROVE  /\ BestScores[query][a] \in 0..1000 /\ BestGrades[query][a] \in 0..4
         /\ BestScores[query][a] > 0 <=> BestGrades[query][a] > 0
         /\ BestGrades[query][a] > BestGrades[query][b] =>
              BestScores[query][a] > BestScores[query][b]
<1>1. PICK q \in Text : q = Lower(query)
  BY ListingAssumption, TextsOfText
<1>2. ASSUME NEW note \in Shapes
      PROVE  /\ TextsOf(note) \subseteq Text /\ TextsOf(note) # {}
             /\ \E t \in TextsOf(note) :
                  /\ BestScores[query][note] = Score(q, t)
                  /\ \A u \in TextsOf(note) : Score(q, u) <= Score(q, t)
             /\ \E t \in TextsOf(note) :
                  /\ BestGrades[query][note] = Grade(q, t)
                  /\ \A u \in TextsOf(note) : Grade(q, u) <= Grade(q, t)
  <2>1. TextsOf(note) \subseteq Text /\ TextsOf(note) # {}
    <3>1. note \in Note
      BY ListingAssumption
    <3>2. \A t \in {note.title} \cup note.tags : Lower(t) \in Text
      BY <3>1, TextsOfText DEF Note
    <3> QED BY <3>2 DEF TextsOf
  <2>2. PICK S : S = {Score(q, t) : t \in TextsOf(note)}
    OBVIOUS
  <2>3. PICK G : G = {Grade(q, t) : t \in TextsOf(note)}
    OBVIOUS
  <2>4. S \subseteq 0..1000 /\ S # {} /\ G \subseteq 0..4 /\ G # {}
    BY <2>1, <2>2, <2>3, ScoresFollowGrades
  <2>5. /\ Max(S) \in S /\ \A x \in S : x <= Max(S)
        /\ Max(G) \in G /\ \A x \in G : x <= Max(G)
    <3>1. PICK m \in Nat, n \in Nat : m = 1000 /\ n = 4
      OBVIOUS
    <3>4. S \subseteq 0..m /\ G \subseteq 0..n
      BY <2>4, <3>1, Zenon
    <3>5. S # {} /\ G # {}
      BY <2>4
    <3>2. Max(S) \in S /\ \A x \in S : x <= Max(S)
      BY <3>4, <3>5, GreatestExists, Zenon
    <3>3. Max(G) \in G /\ \A x \in G : x <= Max(G)
      BY <3>4, <3>5, GreatestExists, Zenon
    <3> QED BY <3>2, <3>3
  <2>6. BestScores[query][note] = Max(S) /\ BestGrades[query][note] = Max(G)
    BY <1>1, <2>2, <2>3 DEF BestScores, BestGrades
  <2>7. PICK t \in TextsOf(note) : Max(S) = Score(q, t)
    BY <2>2, <2>5
  <2>8. PICK t1 \in TextsOf(note) : Max(G) = Grade(q, t1)
    BY <2>3, <2>5
  <2> QED BY <2>1, <2>2, <2>3, <2>5, <2>6, <2>7, <2>8
<1>3. PICK t \in Text : /\ t \in TextsOf(a) /\ BestScores[query][a] = Score(q, t)
                        /\ \A u \in TextsOf(a) : Score(q, u) <= Score(q, t)
  BY <1>2
<1>4. PICK u \in Text : /\ u \in TextsOf(a) /\ BestGrades[query][a] = Grade(q, u)
                        /\ \A v \in TextsOf(a) : Grade(q, v) <= Grade(q, u)
  BY <1>2
<1>5. PICK v \in Text : /\ v \in TextsOf(b) /\ BestScores[query][b] = Score(q, v)
  BY <1>2
<1>6. PICK w \in Text : /\ BestGrades[query][b] = Grade(q, w)
                        /\ \A x \in TextsOf(b) : Grade(q, x) <= Grade(q, w)
  BY <1>2
<1>7. /\ Score(q, t) \in 0..1000 /\ Score(q, u) \in 0..1000 /\ Score(q, v) \in 0..1000
      /\ Grade(q, t) \in 0..4 /\ Grade(q, u) \in 0..4 /\ Grade(q, v) \in 0..4 /\ Grade(q, w) \in 0..4
      /\ Score(q, t) > 0 <=> Grade(q, t) > 0
      /\ Score(q, u) > 0 <=> Grade(q, u) > 0
      /\ Grade(q, u) > Grade(q, v) => Score(q, u) > Score(q, v)
  BY ScoresFollowGrades
<1>8. Score(q, u) <= Score(q, t) /\ Grade(q, t) <= Grade(q, u) /\ Grade(q, v) <= Grade(q, w)
  BY <1>3, <1>4, <1>5, <1>6
<1>9. PICK st \in Nat, su \in Nat, sv \in Nat, gt \in Nat, gu \in Nat, gv \in Nat, gw \in Nat :
        /\ st = Score(q, t) /\ su = Score(q, u) /\ sv = Score(q, v)
        /\ gt = Grade(q, t) /\ gu = Grade(q, u) /\ gv = Grade(q, v) /\ gw = Grade(q, w)
  <2>1. /\ \A x \in 0..1000 : x \in Nat
        /\ \A x \in 0..4 : x \in Nat
    OBVIOUS
  <2>2. Score(q, t) \in Nat /\ Score(q, u) \in Nat /\ Score(q, v) \in Nat
    BY <1>7, <2>1, Zenon
  <2>3. Grade(q, t) \in Nat /\ Grade(q, u) \in Nat /\ Grade(q, v) \in Nat /\ Grade(q, w) \in Nat
    <3>1. \A x \in 0..4 : x \in Nat
      OBVIOUS
    <3> QED BY <1>7, <3>1, Zenon
  <2> QED BY <2>2, <2>3, Zenon
<1>10. /\ st > 0 <=> gu > 0
       /\ gu > gw => st > sv
  <2>1. st > 0 <=> gt > 0
    BY <1>7, <1>9
  <2>2. su > 0 <=> gu > 0
    BY <1>7, <1>9
  <2>3. gu > gv => su > sv
    BY <1>7, <1>9
  <2>4. su <= st /\ gt <= gu /\ gv <= gw
    BY <1>8, <1>9
  <2> QED BY <2>1, <2>2, <2>3, <2>4
<1> QED BY <1>3, <1>4, <1>5, <1>6, <1>7, <1>9, <1>10

(* search_nodes ranks all rows that match, the better before the worse.    *)
LEMMA RankedKeeps ==
  ASSUME NEW query \in Queries, NEW rows, IsListing(rows),
         \A i \in DOMAIN rows : rows[i].note \in Shapes
  PROVE  /\ IsListing(Ranked(query, rows))
         /\ ToSet(Ranked(query, rows)) =
              {r \in ToSet(rows) : BestScores[query][r.note] > 0}
         /\ \A k, l \in DOMAIN Ranked(query, rows) : k < l =>
              ~ BestScores[query][Ranked(query, rows)[l].note]
                  > BestScores[query][Ranked(query, rows)[k].note]
<1> DEFINE score(row) == BestScores[query][row.note]
           Better(a, b) == \/ score(a) > score(b)
                           \/ score(a) = score(b) /\ Title(a, b)
<1>1. PICK some : some = Only(rows, {row \in ToSet(rows) : score(row) > 0})
  OBVIOUS
<1>2. IsListing(some) /\ ToSet(some) = {r \in ToSet(rows) : score(r) > 0}
  BY <1>1, OnlyKeeps
<1> DEFINE at == DOMAIN some
           n == Cardinality(at)
           Ahead(i, j) == \/ Better(some[i], some[j])
                          \/ i < j /\ ~ Better(some[j], some[i])
           Upto(i) == Cardinality({j \in at : j = i \/ Ahead(j, i)})
<1>3. at = 1..Len(some) /\ Len(some) \in Nat /\ IsFiniteSet(at) /\ at \subseteq Nat
  <2>1. at = 1..Len(some) /\ Len(some) \in Nat
    BY <1>2 DEF IsListing
  <2> QED BY <2>1, FS_Interval
<1>4. PICK R : R = {x \in at \X at : Ahead(x[1], x[2])}
  OBVIOUS
<1>5. PICK p : p = [k \in 1..n |-> CHOOSE i \in at : Upto(i) = k]
  OBVIOUS
<1>6. Ranked(query, rows) = RowsAt(some, at, p)
  <2>1. Ranked(query, rows) = SortedBy(some, Better)
    BY <1>1 DEF Ranked
  <2>2. SortedBy(some, Better) = RowsAt(some, at, p)
    BY <1>5 DEF SortedBy, Arranged, RowsAt
  <2> QED BY <2>1, <2>2
<1>7. \A i, j \in at : <<i, j>> \in R <=> Ahead(i, j)
  BY <1>4
<1>8. \A i \in at : Upto(i) = Place(R, at)[i]
  <2> SUFFICES ASSUME NEW i \in at
               PROVE  {j \in at : j = i \/ Ahead(j, i)} = UpTo(R, at, i)
    BY DEF Place
  <2> QED BY <1>7 DEF UpTo
<1>9. ASSUME NEW i \in at
      PROVE  some[i].note.title \in Text /\ score(some[i]) \in Nat
  <2>1. some[i] \in ARow /\ some[i] \in ToSet(some)
    BY <1>2 DEF IsListing, ToSet
  <2>2. some[i] \in ToSet(rows)
    BY <1>2, <2>1
  <2>3. some[i].note \in Shapes
    BY <2>2 DEF ToSet
  <2>4. some[i].note.title \in Text
    BY <2>1 DEF ARow, Note
  <2>5. score(some[i]) \in 0..1000
    BY <2>3, BestFollow
  <2>6. \A x \in 0..1000 : x \in Nat
    OBVIOUS
  <2>7. score(some[i]) \in Nat
    BY <2>5, <2>6, Zenon
  <2> QED BY <2>4, <2>7
<1>10. ASSUME NEW i \in at, NEW j \in at, NEW k \in at
       PROVE  /\ Better(some[i], some[j]) => ~ Better(some[j], some[i])
              /\ Better(some[i], some[k]) =>
                   Better(some[i], some[j]) \/ Better(some[j], some[k])
  <2>1. PICK x \in Nat, y \in Nat, z \in Nat :
          x = score(some[i]) /\ y = score(some[j]) /\ z = score(some[k])
    BY <1>9
  <2>2. PICK f \in Text, g \in Text, h \in Text :
          f = some[i].note.title /\ g = some[j].note.title /\ h = some[k].note.title
    BY <1>9
  <2>3. /\ Less(f, g) => ~ Less(g, f)
        /\ Less(f, h) => Less(f, g) \/ Less(g, h)
    BY LessIsOrder
  <2>4. /\ Better(some[i], some[j]) <=> x > y \/ (x = y /\ Less(f, g))
        /\ Better(some[j], some[i]) <=> y > x \/ (y = x /\ Less(g, f))
        /\ Better(some[i], some[k]) <=> x > z \/ (x = z /\ Less(f, h))
        /\ Better(some[j], some[k]) <=> y > z \/ (y = z /\ Less(g, h))
    BY <2>1, <2>2 DEF Title
  <2> HIDE DEF Better
  <2> QED BY <2>3, <2>4
<1> HIDE DEF Better
<1>11. /\ \A i \in at : ~ Ahead(i, i)
       /\ \A i, j \in at : i = j \/ Ahead(i, j) \/ Ahead(j, i)
  BY <1>3, <1>10
<1>12. ASSUME NEW i \in at, NEW j \in at, NEW k \in at, Ahead(i, j), Ahead(j, k)
       PROVE  Ahead(i, k)
  <2>1. ~ Better(some[j], some[i]) /\ ~ Better(some[k], some[j])
    BY <1>10, <1>12
  <2>2. ~ Better(some[k], some[i])
    BY <1>10, <2>1
  <2>3. CASE Better(some[i], some[j]) \/ Better(some[j], some[k])
    BY <1>10, <2>1, <2>3
  <2>4. CASE i < j /\ j < k
    <3>1. i < k
      BY <1>3, <2>4
    <3> QED BY <2>2, <3>1
  <2> QED BY <1>12, <2>3, <2>4
<1> HIDE DEF Upto, Ahead
<1>13. StrictOrder(R, at)
  BY <1>7, <1>11, <1>12 DEF StrictOrder
<1>14. \A k \in 1..n : \E i \in at : Place(R, at)[i] = k
  <2>1. IsFiniteSet(at) /\ StrictOrder(R, at)
    BY <1>3, <1>13
  <2> QED BY <2>1, Placement
<1>15. Places(p, R, at)
  <2>1. \A k \in 1..n : p[k] \in at /\ Upto(p[k]) = k
    BY <1>5, <1>8, <1>14
  <2> QED BY <1>5, <1>8, <2>1 DEF Places
<1>16. /\ Enumerates(p, at)
       /\ \A k, l \in DOMAIN p : k < l => <<p[k], p[l]>> \in R
  BY <1>3, <1>13, <1>15, ArrangementInOrder
<1>17. PICK s : s = Ranked(query, rows)
  OBVIOUS
<1>18. IsListing(s) /\ DOMAIN s = 1..n /\ ToSet(s) = {some[i] : i \in at}
  BY <1>2, <1>3, <1>6, <1>16, <1>17, PlacesAreListing
<1>19. ASSUME NEW k \in DOMAIN s, NEW l \in DOMAIN s, k < l
       PROVE  ~ score(s[l]) > score(s[k])
  <2>1. DOMAIN p = 1..n /\ p[k] \in at /\ p[l] \in at
    BY <1>16, <1>18 DEF Enumerates
  <2>2. s[k] = some[p[k]] /\ s[l] = some[p[l]]
    BY <1>6, <1>17, <1>18 DEF RowsAt
  <2>3. Ahead(p[k], p[l])
    BY <1>7, <1>16, <1>18, <1>19, <2>1
  <2>4. ~ Better(some[p[l]], some[p[k]])
    BY <1>10, <2>1, <2>3 DEF Ahead
  <2> QED BY <2>2, <2>4 DEF Better
<1>20. ToSet(some) = {some[i] : i \in at}
  BY DEF ToSet
<1> QED BY <1>2, <1>17, <1>18, <1>19, <1>20

-----------------------------------------------------------------------------
(* Theorems                                                                *)

(* The state has its types, and no listing, snapshot or table has a note   *)
(* twice: reloads, Emacs's rewriting of rows, filters, sorts and the tags  *)
(* that are attached bring in no second row of one.                        *)
THEOREM TypeCorrect == Spec => []TypeOK
<1>1. Inv => TypeOK
  <2> SUFFICES ASSUME TypeInv PROVE TypeOK
    BY DEF Inv
  <2>1. ASSUME NEW s, IsListing(s)
        PROVE  /\ \A i \in DOMAIN s : s[i].id \in Ids
               /\ ToSet(IdsOf(s)) \subseteq Ids
               /\ \A i, j \in DOMAIN s : s[i].id = s[j].id => i = j
    <3>1. \A i \in DOMAIN s : s[i] \in ARow
      BY <2>1 DEF IsListing
    <3>2. \A i \in DOMAIN s : s[i].id \in Ids
      BY <3>1 DEF ARow
    <3>3. ToSet(IdsOf(s)) \subseteq Ids
      BY <3>2 DEF IdsOf, ToSet
    <3> QED BY <2>1, <3>2, <3>3 DEF IsListing
  <2>2. ToSet(got) \subseteq Ids
    BY DEF TypeInv, ToSet
  <2>3. ToSet(IdsOf(first \o latest)) \subseteq Ids
    <3>1. first \in Seq(ARow) /\ latest \in Seq(ARow)
      BY DEF TypeInv, IsListing
    <3>2. PICK s : s = first \o latest
      OBVIOUS
    <3>3. s \in Seq(ARow)
      BY <3>1, <3>2, ConcatProperties
    <3>4. \A i \in DOMAIN s : s[i] \in ARow
      BY <3>3
    <3>5. \A i \in DOMAIN s : s[i].id \in Ids
      BY <3>4 DEF ARow
    <3> QED BY <3>2, <3>5 DEF IdsOf, ToSet
  <2>4. /\ \A i, j \in DOMAIN db : db[i].id = db[j].id => i = j
        /\ \A i \in DOMAIN db : db[i].id \in Ids /\ db[i].note \in Shapes
    BY <2>1 DEF TypeInv
  <2>5. /\ \A i \in DOMAIN cell.rows : cell.rows[i].id \in Ids
        /\ ToSet(IdsOf(call.rows)) \subseteq Ids
        /\ \A i, j \in DOMAIN latest : latest[i].id = latest[j].id => i = j
    BY <2>1 DEF TypeInv
  <2> QED BY <2>2, <2>3, <2>4, <2>5 DEF TypeInv, TypeOK
<1> QED BY <1>1, InvHolds, PTL

(* Whoever pages to the end of a listing that only grew meanwhile has been *)
(* given every note that was there at first, and each of them once and in  *)
(* order if it did not grow: however many notes, calls and changes there   *)
(* are, and whichever index answers each call.                             *)
THEOREM NothingIsHidden == Spec => []GrowthHidesNothing
<1>1. Inv => GrowthHidesNothing
  <2> SUFFICES ASSUME Inv, over, grown, Apart(latest), AsReturned => Cardinality(kinds) = 1
               PROVE  /\ ToSet(IdsOf(first)) \subseteq ToSet(got)
                      /\ Keys(latest) = Keys(first) => got = IdsOf(first)
    BY DEF GrowthHidesNothing, Apart, KeyOf, AsReturned
  <2>1. /\ IsListing(first) /\ IsListing(latest) /\ got \in Seq(Ids)
        /\ kinds \subseteq {"scan", "sql"}
    BY DEF Inv, TypeInv
  <2>2. AsReturned => OneKind
    <3> SUFFICES ASSUME Cardinality(kinds) = 1 PROVE OneKind
      OBVIOUS
    <3>1. IsFiniteSet({"scan", "sql"})
      <4>1. {"scan", "sql"} = ({} \cup {"scan"}) \cup {"sql"}
        OBVIOUS
      <4> QED BY <4>1, FS_AddElement, FS_EmptySet
    <3>2. IsFiniteSet(kinds)
      BY <2>1, <3>1, FS_Subset
    <3>3. \E k : kinds = {k}
      BY <3>2, FS_Singleton
    <3> QED BY <3>3 DEF OneKind
  <2>3. kinds # {} /\ Len(got) >= Len(latest) /\ Steady
    BY <2>2 DEF Inv, NothingHidden, Steady
  <2>4. /\ Keys(first) \subseteq Keys(latest)
        /\ \A i \in DOMAIN first, j \in DOMAIN latest :
             first[i].id = latest[j].id => j > Len(got) \/ first[i].id \in ToSet(got)
        /\ Keys(latest) = Keys(first) =>
             /\ IdsOf(latest) = IdsOf(first)
             /\ \A j \in DOMAIN got : j \in DOMAIN latest /\ got[j] = latest[j].id
    BY <2>3 DEF Inv, NothingHidden
  <2>5. /\ DOMAIN got = 1..Len(got) /\ Len(got) \in Nat
        /\ DOMAIN latest = 1..Len(latest) /\ Len(latest) \in Nat
    BY <2>1 DEF IsListing
  <2>6. ASSUME NEW i \in DOMAIN first PROVE first[i].id \in ToSet(got)
    <3>1. PICK j \in DOMAIN latest : first[i].id = latest[j].id
      BY <2>4, KeysOfRows DEF SameKey
    <3>2. ~ j > Len(got)
      BY <2>3, <2>5
    <3> QED BY <2>4, <3>1, <3>2
  <2>7. ToSet(IdsOf(first)) \subseteq ToSet(got)
    BY <2>6 DEF IdsOf, ToSet
  <2>8. ASSUME Keys(latest) = Keys(first) PROVE got = IdsOf(first)
    <3>1. PICK ids : ids = IdsOf(latest)
      OBVIOUS
    <3>2. DOMAIN got = DOMAIN latest
      <4>1. ASSUME Len(got) > Len(latest) PROVE FALSE
        <5>1. Len(got) \in DOMAIN got /\ Len(got) \notin DOMAIN latest
          BY <2>5, <4>1
        <5> QED BY <2>4, <2>8, <5>1
      <4>2. Len(got) >= Len(latest)
        BY <2>3
      <4>3. Len(got) = Len(latest)
        <5>1. PICK g \in Nat, n \in Nat : g = Len(got) /\ n = Len(latest)
          BY <2>5
        <5>2. ~ g > n /\ g >= n
          BY <4>1, <4>2, <5>1
        <5>3. g = n
          BY <5>2
        <5> QED BY <5>1, <5>3
      <4> QED BY <2>5, <4>3
    <3>3. /\ ids = [j \in DOMAIN latest |-> latest[j].id]
          /\ \A j \in DOMAIN got : got[j] = ids[j]
      BY <2>4, <2>8, <3>1, <3>2 DEF IdsOf
    <3>4. got = [j \in DOMAIN got |-> got[j]]
      BY <2>1
    <3>5. got = ids
      BY <3>2, <3>3, <3>4
    <3> QED BY <2>4, <2>8, <3>1, <3>5
  <2> QED BY <2>7, <2>8
<1> QED BY <1>1, InvHolds, PTL

(* search_by_tag gives no note that does not have that very tag in the     *)
(* snapshot, or in the database at the moment its tags are read.           *)
THEOREM HitsAreTagged == Spec => HitsBearTheTag
<1> DEFINE Hit(i) == \E row \in ToSet(IF call = Idle THEN cell.rows ELSE db) :
                       row.id = got'[i] /\ walk.tag \in row.note.tags
           Step == walk.tool = "search_by_tag" =>
                     \A i \in (Len(got) + 1)..Len(got') : Hit(i)
<1>1. ASSUME Inv, NEW kind \in {"scan", "sql"}, NEW rows, IsListing(rows), Presorted(kind, rows),
             Answer(kind, rows), walk.tool = "search_by_tag",
             NEW i \in (Len(got) + 1)..Len(got')
      PROVE  \E row \in ToSet(rows) : row.id = got'[i] /\ walk.tag \in row.note.tags
  <2>1. PICK listed : listed = Listed(rows)
    OBVIOUS
  <2>2. TypeInv /\ walk \in Walks /\ vault \in [Ids -> Shapes \cup {NoNote}]
    BY <1>1 DEF Inv, TypeInv
  <2>3. IsListing(listed)
    BY <1>1, <2>1, <2>2, ListedInOrder
  <2>4. i \in DOMAIN listed /\ got'[i] = listed[i].id
    BY <1>1, <2>1, <2>2, <2>3, AnswerGives
  <2>5. PICK hits : hits = Only(rows, {row \in ToSet(rows) : walk.tag \in row.note.tags})
    OBVIOUS
  <2>6. /\ IsListing(hits) /\ "folded" \in Orders
        /\ ToSet(hits) = ToSet(rows) \cap {row \in ToSet(rows) : walk.tag \in row.note.tags}
    BY <1>1, <2>5, OnlyKeeps DEF Orders
  <2>7. listed = Sorted(hits, "folded")
    BY <1>1, <2>1, <2>5 DEF Listed, SearchByTag
  <2>8. ToSet(listed) = ToSet(hits)
    BY <2>6, <2>7, SortedKeeps
  <2>9. listed[i] \in ToSet(hits)
    BY <2>4, <2>8 DEF ToSet
  <2> QED BY <2>4, <2>6, <2>9
<1>2. ASSUME Inv, ListScan PROVE Step
  <2> SUFFICES ASSUME walk.tool = "search_by_tag", NEW i \in (Len(got) + 1)..Len(got')
               PROVE  Hit(i)
    OBVIOUS
  <2>1. PICK rows : rows = Selected("scan", cell.rows)
    OBVIOUS
  <2>2. walk \in Walks /\ IsListing(cell.rows)
    BY <1>2 DEF Inv, TypeInv
  <2>3. IsListing(rows) /\ Presorted("scan", rows) /\ ToSet(rows) \subseteq ToSet(cell.rows)
    BY <2>1, <2>2, SelectedIsListing
  <2>4. Answer("scan", rows) /\ call = Idle /\ "scan" \in {"scan", "sql"}
    BY <1>2, <2>1 DEF ListScan
  <2>5. \E row \in ToSet(rows) : row.id = got'[i] /\ walk.tag \in row.note.tags
    BY <1>1, <1>2, <2>3, <2>4
  <2> QED BY <2>3, <2>4, <2>5
<1>3. ASSUME Inv, Attach PROVE Step
  <2> SUFFICES ASSUME walk.tool = "search_by_tag", NEW i \in (Len(got) + 1)..Len(got')
               PROVE  Hit(i)
    OBVIOUS
  <2>1. PICK rows : rows = Attached(call.rows)
    OBVIOUS
  <2>2. IsListing(db) /\ IsListing(call.rows) /\ Presorted("sql", call.rows)
    BY <1>3 DEF Inv, TypeInv, CallInv, Attach
  <2>3. /\ IsListing(rows) /\ DOMAIN rows = DOMAIN call.rows
        /\ \A k \in DOMAIN rows :
             /\ rows[k].id = call.rows[k].id
             /\ rows[k].note.tags =
                  UNION {db[j].note.tags : j \in {n \in DOMAIN db : db[n].id = call.rows[k].id}}
    BY <2>1, <2>2, AttachedIsListing
  <2>4. Presorted("sql", rows)
    BY DEF Presorted
  <2>5. Answer("sql", rows) /\ call # Idle /\ "sql" \in {"scan", "sql"}
    BY <1>3, <2>1 DEF Attach, Idle
  <2>6. PICK row \in ToSet(rows) : row.id = got'[i] /\ walk.tag \in row.note.tags
    BY <1>1, <1>3, <2>3, <2>4, <2>5
  <2>7. PICK k \in DOMAIN rows : row = rows[k]
    BY DEF ToSet
  <2>8. PICK j \in DOMAIN db : db[j].id = rows[k].id /\ walk.tag \in db[j].note.tags
    BY <2>3, <2>6, <2>7
  <2>9. db[j] \in ToSet(db) /\ db[j].id = got'[i]
    BY <2>6, <2>7, <2>8 DEF ToSet
  <2> QED BY <2>5, <2>8, <2>9
<1>4. ASSUME Inv, got' = got PROVE Step
  <2>1. Len(got) \in Nat
    BY <1>4 DEF Inv, TypeInv
  <2>2. (Len(got) + 1)..Len(got') = {}
    BY <1>4, <2>1
  <2> QED BY <2>2
<1>5. ASSUME Inv, Next PROVE Step
  <2> HIDE DEF Step
  <2>1. CASE ListScan
    BY <1>2, <1>5, <2>1
  <2>2. CASE Attach
    BY <1>3, <1>5, <2>2
  <2>3. CASE Reload \/ ReadLinks \/ SelectNodes
    BY <1>4, <1>5, <2>3 DEF Reload, ReadLinks, SelectNodes, pageVars
  <2>4. CASE \E id \in Ids, note \in Shapes \cup {NoNote} : Save(id, note)
    BY <1>4, <1>5, <2>4 DEF Save, pageVars
  <2>5. CASE \E id \in Ids : Commit(id)
    BY <1>4, <1>5, <2>5 DEF Commit, pageVars
  <2> QED BY <1>5, <2>1, <2>2, <2>3, <2>4, <2>5 DEF Next
<1>6. ASSUME Inv, [Next]_vars PROVE [Step]_vars
  BY <1>5, <1>6
<1> QED BY <1>6, InvHolds, PTL DEF Spec, HitsBearTheTag

(* However few it may return, search_nodes leaves out no note that is a    *)
(* better match than one it returns, and none that matches at all while    *)
(* there is room: for all texts and queries, and any number of notes.      *)
THEOREM BestAreFound == Spec => []BestMatchesFound
<1>1. ASSUME TypeInv, NEW query \in Queries, NEW limit \in 1..2
      PROVE  LET answer == ToSet(SearchNodes(query, limit))
                 grade(row) == BestGrades[query][row.note]
             IN /\ \A hit \in answer : grade(hit) > 0
                /\ \A row \in ToSet(Served) \ answer :
                     /\ \A hit \in answer : grade(row) <= grade(hit)
                     /\ grade(row) > 0 => Cardinality(answer) = limit
  <2>1. PICK rows : rows = IF cell.kind = "scan" THEN cell.rows ELSE db
    OBVIOUS
  <2>2. IsListing(rows) /\ \A i \in DOMAIN rows : rows[i].note \in Shapes
    BY <1>1, <2>1 DEF TypeInv
  <2>3. IsListing(Served) /\ ToSet(Served) = ToSet(rows)
    <3>1. PICK o \in Orders : Served = Sorted(rows, o)
      BY <2>1 DEF Served, ByTitle, Orders
    <3> QED BY <2>2, <3>1, SortedKeeps
  <2>4. PICK served : served = Served
    OBVIOUS
  <2>5. \A i \in DOMAIN served : served[i].note \in Shapes
    <3> SUFFICES ASSUME NEW i \in DOMAIN served PROVE served[i].note \in Shapes
      OBVIOUS
    <3>1. served[i] \in ToSet(rows)
      BY <2>3, <2>4 DEF ToSet
    <3> QED BY <2>2, <3>1 DEF ToSet
  <2>6. PICK s : s = Ranked(query, served)
    OBVIOUS
  <2>7. /\ IsListing(s)
        /\ ToSet(s) = {r \in ToSet(served) : BestScores[query][r.note] > 0}
        /\ \A k, l \in DOMAIN s : k < l =>
             ~ BestScores[query][s[l].note] > BestScores[query][s[k].note]
    BY <2>3, <2>4, <2>5, <2>6, RankedKeeps
  <2>8. PICK page : page = Slice(s, 0, limit)
    OBVIOUS
  <2>9. /\ page \in Seq(ARow)
        /\ 0 < Len(s) => 0 + Len(page) <= Len(s)
        /\ 0 >= Len(s) => Len(page) = 0
        /\ \A i \in 1..Len(page) : page[i] = s[0 + i]
    <3>1. 0 \in Nat /\ limit \in Nat
      OBVIOUS
    <3> QED BY <2>7, <2>8, <3>1, PageOf
  <2>10. PICK a \in Nat, n \in Nat : a = Len(page) /\ n = Len(s) /\ DOMAIN s = 1..n /\ DOMAIN page = 1..a
    BY <2>7, <2>9 DEF IsListing
  <2>11. a <= n /\ \A i \in 1..a : i \in 1..n /\ page[i] = s[i]
    <3>1. a <= n
      BY <2>9, <2>10
    <3> QED BY <2>9, <2>10, <3>1
  <2>12. a = n \/ a = limit
    BY <2>7, <2>8, <2>10 DEF Slice, Min, IsListing
  <2>13. PICK answer : answer = ToSet(page)
    OBVIOUS
  <2>14. answer = ToSet(SearchNodes(query, limit))
    BY <2>4, <2>6, <2>8, <2>13 DEF SearchNodes
  <2>15. answer = {s[i] : i \in 1..a}
    BY <2>10, <2>11, <2>13 DEF ToSet
  <2>16. Cardinality(answer) = a
    <3>1. PICK f : f = [i \in 1..a |-> s[i]]
      OBVIOUS
    <3>2. f \in [1..a -> answer] /\ \A i, j \in 1..a : f[i] = f[j] => i = j
      BY <2>7, <2>10, <2>11, <2>15, <3>1 DEF IsListing
    <3>3. f \in Bijection(1..a, answer)
      BY <2>15, <3>1, <3>2 DEF Bijection, Injection, Surjection, IsInjective
    <3>4. 1 \in Int /\ a \in Int /\ a \in Nat
      BY <2>10
    <3>5. IsFiniteSet(1..a) /\ Cardinality(1..a) = IF 1 > a THEN 0 ELSE a - 1 + 1
      BY <3>4, FS_Interval
    <3>6. Cardinality(1..a) = a
      BY <3>4, <3>5
    <3>7. Cardinality(answer) = Cardinality(1..a)
      BY <3>3, <3>5, FS_Bijection DEF ExistsBijection
    <3> QED BY <3>6, <3>7
  <2>17. \A row \in ToSet(served) : row.note \in Shapes
    BY <2>5 DEF ToSet
  <2>18. answer \subseteq ToSet(s) /\ ToSet(s) \subseteq ToSet(served)
    BY <2>7, <2>10, <2>11, <2>15 DEF ToSet
  <2>19. ASSUME NEW hit \in answer PROVE BestGrades[query][hit.note] > 0
    <3>1. hit.note \in Shapes /\ BestScores[query][hit.note] > 0
      BY <2>7, <2>17, <2>18
    <3> QED BY <3>1, BestFollow
  <2>20. ASSUME NEW row \in ToSet(served) \ answer
         PROVE  /\ \A hit \in answer : BestGrades[query][row.note] <= BestGrades[query][hit.note]
                /\ BestGrades[query][row.note] > 0 => Cardinality(answer) = limit
    <3>1. row.note \in Shapes
      BY <2>17
    <3>2. BestGrades[query][row.note] \in 0..4
      BY <3>1, BestFollow
    <3>3. CASE BestGrades[query][row.note] > 0
      <4>1. BestScores[query][row.note] > 0
        BY <3>1, <3>3, BestFollow
      <4>2. PICK l \in 1..n : row = s[l]
        BY <2>7, <2>10, <4>1 DEF ToSet
      <4>3. l \notin 1..a
        BY <2>15, <4>2
      <4>4. a = limit
        BY <2>12, <4>2, <4>3
      <4>5. ASSUME NEW hit \in answer
            PROVE  BestGrades[query][row.note] <= BestGrades[query][hit.note]
        <5>1. PICK k \in 1..a : hit = s[k] /\ k \in 1..n /\ k < l
          BY <2>11, <2>15, <4>2, <4>3
        <5>2. ~ BestScores[query][row.note] > BestScores[query][hit.note]
          BY <2>7, <2>10, <4>2, <5>1
        <5>3. hit.note \in Shapes
          BY <2>17, <2>18
        <5>4. /\ BestGrades[query][hit.note] \in 0..4
              /\ ~ BestGrades[query][row.note] > BestGrades[query][hit.note]
          BY <3>1, <5>2, <5>3, BestFollow
        <5> QED BY <3>2, <5>4
      <4> QED BY <2>16, <4>4, <4>5
    <3>4. CASE ~ BestGrades[query][row.note] > 0
      <4>1. BestGrades[query][row.note] = 0
        BY <3>2, <3>4
      <4>2. ASSUME NEW hit \in answer
            PROVE  BestGrades[query][row.note] <= BestGrades[query][hit.note]
        <5>1. BestGrades[query][hit.note] \in 0..4
          BY <2>17, <2>18, BestFollow
        <5> QED BY <4>1, <5>1
      <4> QED BY <3>4, <4>2
    <3> QED BY <3>3, <3>4
  <2> QED BY <2>4, <2>14, <2>19, <2>20
<1>2. Inv => BestMatchesFound
  BY <1>1 DEF Inv, BestMatchesFound
<1> QED BY <1>2, InvHolds, PTL

=============================================================================
