--------------------------- MODULE PopulateProofs ---------------------------
(***************************************************************************)
(* Proofs about Populate, and about the link graph it builds, for every    *)
(* finite set of files, every set of texts and every number of changes.    *)
(***************************************************************************)
EXTENDS Populate, FiniteSetTheorems, TLAPS

-----------------------------------------------------------------------------
(* Numbers                                                                 *)

(* A finite set of numbers has a greatest.  Of the sets of those that are  *)
(* at least as great as one of them, a least one is that of the greatest.  *)
LEMMA MaxIsGreatest ==
  ASSUME NEW S, S \subseteq Nat, IsFiniteSet(S), S # {}
  PROVE  Max(S) \in S /\ \A y \in S : Max(S) >= y
<1> DEFINE From(j) == {k \in S : k >= j}
           T == {From(j) : j \in S}
<1>1. IsWellFoundedOn(StrictSubsetOrdering(S), FiniteSubsetsOf(S))
  BY FS_StrictSubsetOrderingWellFounded
<1>2. T \subseteq FiniteSubsetsOf(S) /\ T # {}
  <2>1. ASSUME NEW j \in S PROVE From(j) \in FiniteSubsetsOf(S)
    <3>1. From(j) \in SUBSET S
      OBVIOUS
    <3>2. IsFiniteSet(From(j))
      BY <3>1, FS_Subset
    <3> QED BY <3>1, <3>2 DEF FiniteSubsetsOf
  <2> QED BY <2>1
<1> HIDE DEF T
<1>3. \E t \in T : \A u \in T : <<u, t>> \notin StrictSubsetOrdering(S)
  BY <1>1, <1>2, WFMin
<1>4. PICK m \in S : \A u \in T : <<u, From(m)>> \notin StrictSubsetOrdering(S)
  BY <1>3 DEF T
<1>5. ASSUME NEW y \in S, ~ m >= y PROVE FALSE
  <2>1. From(y) \in T /\ From(y) \in SUBSET S /\ From(m) \in SUBSET S
    BY DEF T
  <2>2. From(y) \subseteq From(m) /\ m \in From(m) /\ m \notin From(y)
    <3>1. m \in Nat /\ y \in Nat /\ y > m
      BY <1>5
    <3>2. \A k \in S : k >= y => k >= m
      BY <3>1
    <3>3. m >= m /\ ~ m >= y
      BY <3>1
    <3>4. m \in From(m) /\ m \notin From(y)
      BY <3>3
    <3>5. From(y) \subseteq From(m)
      BY <3>2
    <3> QED BY <3>4, <3>5
  <2>3. <<From(y), From(m)>> \in StrictSubsetOrdering(S)
    BY <2>1, <2>2 DEF StrictSubsetOrdering
  <2> QED BY <1>4, <2>1, <2>3
<1>6. \E x \in S : \A y \in S : x >= y
  BY <1>5
<1> QED BY <1>6 DEF Max

(* So has any set of positions in a sequence that is not empty. *)
LEMMA MaxPosition ==
  ASSUME NEW n \in Nat, NEW S, S \subseteq 1..n, S # {}
  PROVE  Max(S) \in S
<1>1. IsFiniteSet(1..n)
  BY FS_Interval
<1>2. IsFiniteSet(S)
  BY <1>1, FS_Subset
<1>3. S \subseteq Nat
  OBVIOUS
<1> QED BY <1>2, <1>3, MaxIsGreatest

-----------------------------------------------------------------------------
(* Notes                                                                   *)

(* A note is a sequence of sections, and only what is gone has none. *)
LEMMA NoteShape ==
  ASSUME NEW t \in Texts \cup {Gone}
  PROVE  /\ t.sections \in Seq(Section)
         /\ t # Gone => t.sections[1] \in Section /\ 1 \in DOMAIN t.sections
         /\ t = Gone => t.sections = <<>>
         /\ t.labels \subseteq Names
<1>1. CASE t = Gone
  BY <1>1 DEF Gone
<1>2. CASE t # Gone
  <2>1. t.sections \in Seq(Section) /\ Len(t.sections) > 0 /\ t.labels \subseteq Names
    BY <1>2, PopulateAssumption DEF IsText
  <2>2. 1 \in DOMAIN t.sections /\ t.sections[1] \in Section
    BY <2>1
  <2> QED BY <1>2, <2>1, <2>2
<1> QED BY <1>1, <1>2

(* What a section holds belongs to a node of the note, or to none. *)
LEMMA OwnerIsNode ==
  ASSUME NEW s \in Seq(Section), NEW i \in DOMAIN s
  PROVE  Owner(s, i) \in IdsIn(s) \cup {NoName}
<1> DEFINE owners == {j \in Ancestors(s, i) \cup {i} : s[j].id # NoName}
<1>1. Len(s) \in Nat /\ DOMAIN s = 1..Len(s) /\ i \in 1..Len(s)
  OBVIOUS
<1>2. owners \subseteq 1..Len(s)
  BY <1>1 DEF Ancestors
<1>3. CASE owners = {}
  BY <1>3 DEF Owner
<1>4. CASE owners # {}
  <2>1. Max(owners) \in owners
    BY <1>1, <1>2, <1>4, MaxPosition
  <2>2. Owner(s, i) = s[Max(owners)].id
    BY <1>4 DEF Owner
  <2> QED BY <1>1, <1>2, <2>1, <2>2 DEF IdsIn
<1> QED BY <1>3, <1>4

(* The :ID:s of a note are names. *)
LEMMA IdsAreNames ==
  ASSUME NEW s \in Seq(Section)
  PROVE  IdsIn(s) \subseteq Names
<1>1. \A i \in DOMAIN s : s[i] \in Section
  OBVIOUS
<1>2. \A x \in Section : x.id \in Names \cup {NoName}
  BY DEF Section
<1> QED BY <1>1, <1>2 DEF IdsIn

(* The entry of a node has the type of one. *)
LEMMA NodeInType ==
  ASSUME NEW f \in Files, NEW s \in Seq(Section), NEW id \in IdsIn(s)
  PROVE  NodeIn(f, s, id) \in NodeMeta
<1> DEFINE at == {j \in DOMAIN s : s[j].id = id}
<1>1. Len(s) \in Nat /\ at \subseteq 1..Len(s) /\ at # {}
  BY DEF IdsIn
<1>2. Max(at) \in DOMAIN s
  BY <1>1, MaxPosition
<1>3. s[Max(at)] \in Section
  BY <1>2
<1>4. s[Max(at)].level \in Nat /\ s[Max(at)].tags \in SUBSET Tags
  BY <1>3 DEF Section
<1>5. NodeIn(f, s, id) = [file |-> f, level |-> s[Max(at)].level, tags |-> s[Max(at)].tags]
  BY DEF NodeIn
<1> QED BY <1>4, <1>5 DEF NodeMeta

(* A link of a note is from one of its nodes; an id: link is to what is     *)
(* written, and another to no node.                                        *)
RecordOf(l) ==
  /\ l \in LinkRecord /\ l.kind # "name"
  /\ l.dest = IF l.kind = "id" THEN l.raw ELSE NoName

LEMMA LinksOfNodes ==
  ASSUME NEW f \in Files, NEW s \in Seq(Section), NEW l \in LinksIn(f, s)
  PROVE  RecordOf(l) /\ l.source \in IdsIn(s)
<1>1. PICK i \in OwnedSections(s) :
        \/ \E k \in s[i].links :
             l = [source |-> Owner(s, i), dest |-> IF k.kind = "id" THEN k.to ELSE NoName,
                  raw |-> k.to, kind |-> k.kind, pos |-> <<f, i>>]
        \/ \E k \in s[i].cites :
             l = [source |-> Owner(s, i), dest |-> NoName,
                  raw |-> k, kind |-> "cite", pos |-> <<f, i>>]
  BY DEF LinksIn
<1>2. i \in DOMAIN s /\ i \in Nat \ {0} /\ s[i] \in Section
  BY DEF OwnedSections
<1>3. Owner(s, i) \in IdsIn(s)
  BY <1>2, OwnerIsNode DEF OwnedSections
<1>4. Owner(s, i) \in Names
  BY <1>3, IdsAreNames
<1>5. s[i].links \subseteq Link /\ s[i].cites \subseteq Names
  BY <1>2 DEF Section
<1>6. <<f, i>> \in Files \X (Nat \ {0})
  BY <1>2
<1>7. CASE \E k \in s[i].links :
             l = [source |-> Owner(s, i), dest |-> IF k.kind = "id" THEN k.to ELSE NoName,
                  raw |-> k.to, kind |-> k.kind, pos |-> <<f, i>>]
  <2>1. PICK k \in s[i].links :
          l = [source |-> Owner(s, i), dest |-> IF k.kind = "id" THEN k.to ELSE NoName,
               raw |-> k.to, kind |-> k.kind, pos |-> <<f, i>>]
    BY <1>7
  <2>2. k.kind \in {"id", "fuzzy", "cite", "https"} /\ k.to \in Names
    BY <1>5 DEF Link
  <2> QED BY <1>3, <1>4, <1>6, <2>1, <2>2 DEF RecordOf, LinkRecord
<1>8. CASE \E k \in s[i].cites :
             l = [source |-> Owner(s, i), dest |-> NoName,
                  raw |-> k, kind |-> "cite", pos |-> <<f, i>>]
  BY <1>3, <1>4, <1>5, <1>6, <1>8 DEF RecordOf, LinkRecord
<1> QED BY <1>1, <1>7, <1>8

(* What a note declares and cites are refs of its nodes. *)
LEMMA RefsOfNodes ==
  ASSUME NEW s \in Seq(Section)
  PROVE  RefsIn(s) \subseteq Ref \X Names
<1> SUFFICES ASSUME NEW x \in RefsIn(s) PROVE x \in Ref \X Names
  OBVIOUS
<1>1. PICK i \in OwnedSections(s) :
        \/ \E r \in s[i].refs : s[i].id # NoName /\ x = <<r, s[i].id>>
        \/ \E k \in s[i].cites : x = <<[scheme |-> "@", key |-> k], Owner(s, i)>>
  BY DEF RefsIn
<1>2. i \in DOMAIN s /\ s[i] \in Section
  BY DEF OwnedSections
<1>3. Owner(s, i) \in Names
  BY <1>2, OwnerIsNode, IdsAreNames DEF OwnedSections
<1>4. s[i].refs \subseteq Ref /\ s[i].cites \subseteq Names /\ s[i].id \in Names \cup {NoName}
  BY <1>2 DEF Section
<1>5. CASE \E r \in s[i].refs : s[i].id # NoName /\ x = <<r, s[i].id>>
  BY <1>4, <1>5
<1>6. CASE \E k \in s[i].cites : x = <<[scheme |-> "@", key |-> k], Owner(s, i)>>
  <2>1. \A k \in Names : [scheme |-> "@", key |-> k] \in Ref
    BY DEF Ref, Schemes
  <2> QED BY <1>3, <1>4, <1>6, <2>1
<1> QED BY <1>1, <1>5, <1>6

-----------------------------------------------------------------------------
(* The index of a walk                                                     *)

WalkType(w) ==
  /\ DOMAIN w.nodes \subseteq Names
  /\ \A id \in DOMAIN w.nodes : w.nodes[id] \in NodeMeta
  /\ \A l \in w.forward : RecordOf(l)
  /\ w.refs \subseteq Ref \X Names
  /\ w.claims \subseteq Names \X Names \X Files

(* The name an id: link stands for, once the walk is over. *)
Target(w, name) ==
  IF Resolves(w, name) THEN (CHOOSE c \in ClaimsOf(w, name) : TRUE)[2] ELSE name

(* A name stands for a name. *)
LEMMA TargetIsName ==
  ASSUME NEW w, WalkType(w), NEW name \in Names
  PROVE  Target(w, name) \in Names
<1>1. CASE Resolves(w, name)
  <2>1. ClaimsOf(w, name) # {}
    BY <1>1, FS_EmptySet DEF Resolves
  <2>2. (CHOOSE c \in ClaimsOf(w, name) : TRUE) \in Names \X Names \X Files
    BY <2>1 DEF WalkType, ClaimsOf
  <2> QED BY <1>1, <2>2 DEF Target
<1>2. CASE ~ Resolves(w, name)
  BY <1>2 DEF Target
<1> QED BY <1>1, <1>2

(* Dedup keeps one record of each edge, and nothing else. *)
LEMMA DedupKeepsEdges ==
  ASSUME NEW links
  PROVE  /\ Dedup(links) \subseteq links
         /\ \A l \in links : \E k \in Dedup(links) : LinkKey(k) = LinkKey(l)
         /\ \A k, l \in Dedup(links) : LinkKey(k) = LinkKey(l) => k = l
         /\ {LinkKey(l) : l \in Dedup(links)} = {LinkKey(l) : l \in links}
<1> DEFINE One(key) == CHOOSE l \in links : LinkKey(l) = key
           keys == {LinkKey(l) : l \in links}
<1>1. \A key \in keys : One(key) \in links /\ LinkKey(One(key)) = key
  OBVIOUS
<1>2. Dedup(links) = {One(key) : key \in keys}
  BY DEF Dedup
<1> HIDE DEF One
<1>3. Dedup(links) \subseteq links
  BY <1>1, <1>2
<1>4. ASSUME NEW l \in links PROVE \E k \in Dedup(links) : LinkKey(k) = LinkKey(l)
  <2>1. LinkKey(l) \in keys
    OBVIOUS
  <2>2. One(LinkKey(l)) \in Dedup(links)
    BY <1>2, <2>1
  <2> QED BY <1>1, <2>1, <2>2
<1>5. ASSUME NEW k \in Dedup(links), NEW l \in Dedup(links), LinkKey(k) = LinkKey(l)
      PROVE  k = l
  <2>1. PICK m \in keys : k = One(m)
    BY <1>2
  <2>2. PICK n \in keys : l = One(n)
    BY <1>2
  <2>3. m = n
    BY <1>1, <1>5, <2>1, <2>2
  <2> QED BY <2>1, <2>2, <2>3
<1>6. {LinkKey(l) : l \in Dedup(links)} = keys
  BY <1>3, <1>4
<1> QED BY <1>3, <1>4, <1>5, <1>6

(* Equal keys, equal ends. *)
LEMMA KeyTells ==
  ASSUME NEW k, NEW l, LinkKey(k) = LinkKey(l)
  PROVE  k.source = l.source /\ k.dest = l.dest /\ k.kind = l.kind /\ k.raw = l.raw
BY DEF LinkKey

(* Resolving a link changes where an id: link leads, and nothing else. *)
LEMMA ResolvedLink ==
  ASSUME NEW w, WalkType(w), NEW l \in w.forward
  PROVE  LET r == ResolveIdSlug(w, l) IN
         /\ r \in LinkRecord /\ r.kind # "name"
         /\ r.source = l.source /\ r.kind = l.kind /\ r.raw = l.raw
         /\ r.dest = IF l.kind = "id" THEN Target(w, l.raw) ELSE NoName
<1>1. RecordOf(l) /\ l \in LinkRecord
  BY DEF WalkType, RecordOf
<1>2. Target(w, l.raw) \in Names
  BY <1>1, TargetIsName DEF LinkRecord
<1>3. CASE l.kind = "id" /\ Resolves(w, l.dest)
  <2>1. l.dest = l.raw
    BY <1>1, <1>3 DEF RecordOf
  <2>2. ResolveIdSlug(w, l) = [l EXCEPT !.dest = Target(w, l.raw)]
    BY <1>3, <2>1 DEF ResolveIdSlug, Target
  <2> QED BY <1>1, <1>2, <1>3, <2>2 DEF LinkRecord, RecordOf
<1>4. CASE ~ (l.kind = "id" /\ Resolves(w, l.dest))
  <2>1. ResolveIdSlug(w, l) = l
    BY <1>4 DEF ResolveIdSlug
  <2>2. l.kind = "id" => Target(w, l.raw) = l.raw /\ l.dest = l.raw
    BY <1>1, <1>4 DEF RecordOf, Target
  <2> QED BY <1>1, <2>1, <2>2 DEF RecordOf
<1> QED BY <1>3, <1>4

(* An index, of the links as they were resolved. *)
Resolved(w) == {ResolveIdSlug(w, l) : l \in w.forward}

(* An index has every edge of the walk once in each direction.             *)
LEMMA IndexIsMirrored ==
  ASSUME NEW w, WalkType(w), NEW labels
  PROVE  Mirrored(Index(w, labels))
<1> DEFINE x == Index(w, labels)
           forth == Reclassify(Resolved(w), labels)
           back == {l \in Resolved(w) : l.dest # NoName}
<1>1. x.forward = Dedup(forth) /\ x.backward = Dedup(back)
  BY DEF Index, Resolved
<1>2. \A r \in Resolved(w) : r \in LinkRecord /\ (r.dest # NoName => r.kind = "id")
  BY ResolvedLink DEF Resolved
<1>3. back = {l \in forth : l.dest # NoName}
  <2>1. ASSUME NEW l \in back PROVE l \in forth /\ l.dest # NoName
    BY <1>2, <2>1 DEF Reclassify
  <2>2. ASSUME NEW l \in forth, l.dest # NoName PROVE l \in back
    <3>1. PICK r \in Resolved(w) :
            l = IF r.kind = "fuzzy" /\ r.raw \in labels THEN [r EXCEPT !.kind = "name"] ELSE r
      BY DEF Reclassify
    <3>2. r.kind # "fuzzy"
      <4>1. CASE r.kind = "fuzzy"
        <5>1. r.dest = NoName
          BY <1>2, <4>1
        <5>2. l.dest = NoName
          BY <1>2, <3>1, <5>1 DEF LinkRecord
        <5> QED BY <2>2, <5>2
      <4> QED BY <4>1
    <3> QED BY <2>2, <3>1, <3>2
  <2> QED BY <2>1, <2>2
<1> HIDE DEF x, forth, back
<1>4. {LinkKey(l) : l \in {k \in Dedup(forth) : k.dest # NoName}} = {LinkKey(l) : l \in back}
  <2>1. ASSUME NEW k \in Dedup(forth), k.dest # NoName PROVE k \in back
    BY <1>3, <2>1, DedupKeepsEdges
  <2>2. ASSUME NEW l \in back
        PROVE  \E k \in Dedup(forth) : k.dest # NoName /\ LinkKey(k) = LinkKey(l)
    <3>1. PICK k \in Dedup(forth) : LinkKey(k) = LinkKey(l)
      BY <1>3, DedupKeepsEdges
    <3>2. k.dest = l.dest
      BY <3>1, KeyTells
    <3> QED BY <1>3, <3>1, <3>2
  <2> QED BY <2>1, <2>2
<1>5. {LinkKey(l) : l \in Dedup(back)} = {LinkKey(l) : l \in back}
  BY DedupKeepsEdges
<1>6. \A links \in {Dedup(forth), Dedup(back)} :
        \A k, l \in links : LinkKey(k) = LinkKey(l) => k = l
  BY DedupKeepsEdges
<1>7. Mirrored(x)
  BY <1>1, <1>4, <1>5, <1>6 DEF Mirrored
<1> QED BY <1>7 DEF x

(* The backlinks of an index are the walk's id: links, from where they are  *)
(* to what they stand for.                                                 *)
LEMMA BacklinksOfIndex ==
  ASSUME NEW w, WalkType(w), NEW labels
  PROVE  /\ \A l \in w.forward : l.kind = "id" =>
              \E b \in Index(w, labels).backward :
                b.source = l.source /\ b.raw = l.raw /\ b.dest = Target(w, l.raw)
         /\ \A b \in Index(w, labels).backward :
              /\ b \in LinkRecord
              /\ \E l \in w.forward :
                   /\ l.kind = "id" /\ b.source = l.source /\ b.raw = l.raw
                   /\ b.dest = Target(w, l.raw)
<1> DEFINE back == {l \in Resolved(w) : l.dest # NoName}
<1>1. Index(w, labels).backward = Dedup(back)
  BY DEF Index, Resolved
<1>2. ASSUME NEW l \in w.forward, l.kind = "id"
      PROVE  \E b \in Dedup(back) :
               b.source = l.source /\ b.raw = l.raw /\ b.dest = Target(w, l.raw)
  <2>1. PICK r : r = ResolveIdSlug(w, l)
    OBVIOUS
  <2>2. r.source = l.source /\ r.raw = l.raw /\ r.dest = Target(w, l.raw)
    BY <1>2, <2>1, ResolvedLink
  <2>3. l.raw \in Names
    BY DEF WalkType, RecordOf, LinkRecord
  <2>4. r \in back
    BY <2>1, <2>2, <2>3, TargetIsName, LinkGraphAssumption DEF Resolved
  <2>5. PICK b \in Dedup(back) : LinkKey(b) = LinkKey(r)
    BY <2>4, DedupKeepsEdges
  <2> QED BY <2>2, <2>5, KeyTells
<1>3. ASSUME NEW b \in Dedup(back)
      PROVE  /\ b \in LinkRecord
             /\ \E l \in w.forward :
                  /\ l.kind = "id" /\ b.source = l.source /\ b.raw = l.raw
                  /\ b.dest = Target(w, l.raw)
  <2>1. b \in back
    BY DedupKeepsEdges
  <2>2. PICK l \in w.forward : b = ResolveIdSlug(w, l)
    BY <2>1 DEF Resolved
  <2> QED BY <2>1, <2>2, ResolvedLink
<1> QED BY <1>1, <1>2, <1>3

(* The forward links of an index are the walk's links, a bare-text one to a *)
(* #+NAME: called so.                                                      *)
LEMMA ForwardLinksOfIndex ==
  ASSUME NEW w, WalkType(w), NEW labels
  PROVE  /\ \A l \in w.forward : \E k \in Index(w, labels).forward :
              /\ k.source = l.source /\ k.raw = l.raw
              /\ k.kind = l.kind \/ (l.kind = "fuzzy" /\ k.kind = "name")
         /\ \A k \in Index(w, labels).forward :
              /\ k \in LinkRecord
              /\ \E l \in w.forward :
                   /\ k.source = l.source /\ k.raw = l.raw
                   /\ k.kind = l.kind \/ (l.kind = "fuzzy" /\ k.kind = "name")
<1> DEFINE forth == Reclassify(Resolved(w), labels)
           Name(r) == IF r.kind = "fuzzy" /\ r.raw \in labels
                      THEN [r EXCEPT !.kind = "name"] ELSE r
<1>1. Index(w, labels).forward = Dedup(forth)
  BY DEF Index, Resolved
<1>2. ASSUME NEW l \in w.forward
      PROVE  LET k == Name(ResolveIdSlug(w, l)) IN
             /\ k \in forth /\ k \in LinkRecord
             /\ k.source = l.source /\ k.raw = l.raw
             /\ k.kind = l.kind \/ (l.kind = "fuzzy" /\ k.kind = "name")
  <2>1. PICK r : r = ResolveIdSlug(w, l)
    OBVIOUS
  <2>2. /\ r \in LinkRecord /\ r.source = l.source /\ r.kind = l.kind /\ r.raw = l.raw
    BY <2>1, ResolvedLink
  <2>3. r \in Resolved(w)
    BY <2>1 DEF Resolved
  <2>4. Name(r) \in forth
    BY <2>3 DEF Reclassify
  <2>5. /\ Name(r) \in LinkRecord
        /\ Name(r).source = l.source /\ Name(r).raw = l.raw
        /\ Name(r).kind = l.kind \/ (l.kind = "fuzzy" /\ Name(r).kind = "name")
    BY <2>2 DEF LinkRecord
  <2> HIDE DEF Name
  <2> QED BY <2>1, <2>4, <2>5
<1>3. \A k \in forth : \E l \in w.forward : k = Name(ResolveIdSlug(w, l))
  BY DEF Reclassify, Resolved
<1> HIDE DEF Name
<1>4. ASSUME NEW l \in w.forward
      PROVE  \E k \in Dedup(forth) :
               /\ k.source = l.source /\ k.raw = l.raw
               /\ k.kind = l.kind \/ (l.kind = "fuzzy" /\ k.kind = "name")
  <2>1. PICK r \in forth : r = Name(ResolveIdSlug(w, l))
    BY <1>2
  <2>2. PICK k \in Dedup(forth) : LinkKey(k) = LinkKey(r)
    BY DedupKeepsEdges
  <2>3. k.source = r.source /\ k.raw = r.raw /\ k.kind = r.kind
    BY <2>2, KeyTells
  <2> QED BY <1>2, <2>1, <2>3
<1>5. ASSUME NEW k \in Dedup(forth)
      PROVE  /\ k \in LinkRecord
             /\ \E l \in w.forward :
                  /\ k.source = l.source /\ k.raw = l.raw
                  /\ k.kind = l.kind \/ (l.kind = "fuzzy" /\ k.kind = "name")
  <2>1. k \in forth
    BY DedupKeepsEdges
  <2>2. PICK l \in w.forward : k = Name(ResolveIdSlug(w, l))
    BY <1>3, <2>1
  <2> QED BY <1>2, <2>2
<1> QED BY <1>1, <1>4, <1>5

-----------------------------------------------------------------------------
(* The invariant                                                           *)

(* The files a walk has come to. *)
Visited(v) ==
  IF stage[v] = "idle" THEN {} ELSE IF stage[v] = "walk" THEN Files \ todo[v] ELSE Files

Claims(f, t) ==
  IF t = Gone \/ t.sections[1].id = NoName THEN {}
  ELSE SlugsOf[f] \X {t.sections[1].id} \X {f}

(* A walk is the sum of what it has read, but for a node met twice: that is *)
(* one of the two.                                                         *)
SumOf(w, r) ==
  /\ DOMAIN w.nodes = UNION {IdsIn(r[f].sections) : f \in Files}
  /\ \A id \in DOMAIN w.nodes : \E f \in Files :
       id \in IdsIn(r[f].sections) /\ w.nodes[id] = NodeIn(f, r[f].sections, id)
  /\ w.forward = UNION {LinksIn(f, r[f].sections) : f \in Files}
  /\ w.refs = UNION {RefsIn(r[f].sections) : f \in Files}
  /\ w.claims = UNION {Claims(f, r[f]) : f \in Files}

WalkIsOfRead(v) ==
  SumOf(walk[v], read[v]) /\ \A f \in Files \ Visited(v) : read[v][f] = Gone

(* What was read of a file is still there, unless it has changed since. *)
ReadIsThere(v) == \A f \in Visited(v) \ touched[v] : read[v][f] = vault[f]

(* The index and the database are those of their walks. *)
ViewsOfWalks ==
  /\ IF stage["scan"] = "done"
     THEN \E labels \in SUBSET Names : index = Index(walk["scan"], labels)
     ELSE index = EmptyIndex
  /\ db = Tables(IF stage["create"] = "done" THEN walk["create"] ELSE EmptyWalk)

BaseType ==
  /\ vault \in [Files -> Texts \cup {Gone}]
  /\ edits \in 0..MaxEdits
  /\ stage \in [Views -> {"idle", "walk", "hash", "done", "failed"}]
  /\ todo \in [Views -> SUBSET Files]
  /\ DOMAIN walk = Views
  /\ read \in [Views -> [Files -> Texts \cup {Gone}]]
  /\ touched \in [Views -> SUBSET Files]
  /\ hash \in [Files -> Texts \cup {Gone}]

Inv ==
  /\ BaseType
  /\ \A v \in Views : WalkIsOfRead(v) /\ ReadIsThere(v)
  /\ stage["scan"] \in {"idle", "walk", "done"}
  /\ ViewsOfWalks

-----------------------------------------------------------------------------
(* Walks                                                                   *)

(* A file that is gone has nothing to merge. *)
LEMMA NothingInGone ==
  /\ Gone.sections = <<>> /\ IdsIn(<<>>) = {} /\ RefsIn(<<>>) = {}
  /\ \A f : LinksIn(f, <<>>) = {} /\ Claims(f, Gone) = {}
BY DEF Gone, IdsIn, RefsIn, LinksIn, OwnedSections, Claims

(* The sum of notes has the type of a walk. *)
LEMMA SumIsWalk ==
  ASSUME NEW w, NEW r \in [Files -> Texts \cup {Gone}], SumOf(w, r)
  PROVE  WalkType(w)
<1>1. \A f \in Files : r[f].sections \in Seq(Section)
  BY NoteShape
<1>2. DOMAIN w.nodes \subseteq Names
  BY <1>1, IdsAreNames DEF SumOf
<1>3. \A id \in DOMAIN w.nodes : w.nodes[id] \in NodeMeta
  BY <1>1, NodeInType DEF SumOf
<1>4. \A l \in w.forward : RecordOf(l)
  BY <1>1, LinksOfNodes DEF SumOf
<1>5. w.refs \subseteq Ref \X Names
  BY <1>1, RefsOfNodes DEF SumOf
<1>6. ASSUME NEW f \in Files PROVE Claims(f, r[f]) \subseteq Names \X Names \X Files
  <2>1. CASE r[f] = Gone \/ r[f].sections[1].id = NoName
    BY <2>1 DEF Claims
  <2>2. CASE ~ (r[f] = Gone \/ r[f].sections[1].id = NoName)
    <3>1. r[f].sections[1] \in Section
      BY <2>2, NoteShape
    <3>2. r[f].sections[1].id \in Names
      BY <2>2, <3>1 DEF Section
    <3>3. SlugsOf[f] \subseteq Names
      BY LinkGraphAssumption
    <3> QED BY <2>2, <3>2, <3>3 DEF Claims
  <2> QED BY <2>1, <2>2
<1>7. w.claims \subseteq Names \X Names \X Files
  BY <1>6 DEF SumOf
<1> QED BY <1>2, <1>3, <1>4, <1>5, <1>7 DEF WalkType

(* An empty walk is the sum of files that are gone. *)
LEMMA EmptyIsSum ==
  SumOf(EmptyWalk, [f \in Files |-> Gone])
<1>1. DOMAIN EmptyWalk.nodes = {} /\ EmptyWalk.forward = {} /\ EmptyWalk.refs = {}
      /\ EmptyWalk.claims = {}
  BY DEF EmptyWalk
<1> QED BY <1>1, NothingInGone DEF SumOf

(* To merge a note into a walk that has not come to it adds it to the sum. *)
LEMMA MergeIsSum ==
  ASSUME NEW w, NEW r \in [Files -> Texts \cup {Gone}], SumOf(w, r),
         NEW f \in Files, NEW t \in Texts, r[f] = Gone, t # Gone
  PROVE  SumOf(Merge(w, f, t), [r EXCEPT ![f] = t])
<1> DEFINE m == Merge(w, f, t)
           q == [r EXCEPT ![f] = t]
           s == t.sections
<1>1. q[f] = t /\ \A g \in Files \ {f} : q[g] = r[g]
  OBVIOUS
<1>2. /\ IdsIn(r[f].sections) = {} /\ LinksIn(f, r[f].sections) = {}
      /\ RefsIn(r[f].sections) = {} /\ Claims(f, r[f]) = {}
  BY NothingInGone
<1>3. /\ DOMAIN m.nodes = DOMAIN w.nodes \cup IdsIn(s)
      /\ \A id \in DOMAIN m.nodes :
           m.nodes[id] = IF id \in IdsIn(s) THEN NodeIn(f, s, id) ELSE w.nodes[id]
      /\ m.forward = w.forward \cup LinksIn(f, s)
      /\ m.refs = w.refs \cup RefsIn(s)
      /\ m.claims = w.claims \cup Claims(f, t)
  BY DEF Merge, Claims
<1> HIDE DEF m, q
<1>4. DOMAIN m.nodes = UNION {IdsIn(q[g].sections) : g \in Files}
  BY <1>1, <1>2, <1>3 DEF SumOf
<1>5. ASSUME NEW id \in DOMAIN m.nodes
      PROVE  \E g \in Files :
               id \in IdsIn(q[g].sections) /\ m.nodes[id] = NodeIn(g, q[g].sections, id)
  <2>1. CASE id \in IdsIn(s)
    BY <1>1, <1>3, <2>1
  <2>2. CASE id \notin IdsIn(s)
    <3>1. id \in DOMAIN w.nodes /\ m.nodes[id] = w.nodes[id]
      BY <1>3, <2>2
    <3>2. PICK g \in Files :
            id \in IdsIn(r[g].sections) /\ w.nodes[id] = NodeIn(g, r[g].sections, id)
      BY <3>1 DEF SumOf
    <3>3. g # f
      BY <1>2, <3>2
    <3> QED BY <1>1, <3>1, <3>2, <3>3
  <2> QED BY <2>1, <2>2
<1>6. m.forward = UNION {LinksIn(g, q[g].sections) : g \in Files}
  BY <1>1, <1>2, <1>3 DEF SumOf
<1>7. m.refs = UNION {RefsIn(q[g].sections) : g \in Files}
  BY <1>1, <1>2, <1>3 DEF SumOf
<1>8. m.claims = UNION {Claims(g, q[g]) : g \in Files}
  BY <1>1, <1>2, <1>3 DEF SumOf
<1>9. SumOf(m, q)
  BY <1>4, <1>5, <1>6, <1>7, <1>8 DEF SumOf
<1> QED BY <1>9 DEF m, q

-----------------------------------------------------------------------------
(* The invariant holds                                                     *)

(* It holds before anything is read. *)
LEMMA InvInit == Init => Inv
<1> SUFFICES ASSUME Init PROVE Inv
  OBVIOUS
<1>1. BaseType
  BY PopulateAssumption DEF Init, BaseType
<1>2. ASSUME NEW v \in Views PROVE WalkIsOfRead(v) /\ ReadIsThere(v)
  <2>1. walk[v] = EmptyWalk /\ read[v] = [f \in Files |-> Gone] /\ Visited(v) = {}
    BY DEF Init, Visited
  <2> QED BY <2>1, EmptyIsSum DEF WalkIsOfRead, ReadIsThere
<1>3. stage["scan"] = "idle" /\ stage["create"] = "idle"
  BY DEF Init, Views
<1>4. ViewsOfWalks
  BY <1>3 DEF Init, ViewsOfWalks
<1> QED BY <1>1, <1>2, <1>3, <1>4 DEF Inv

(* The files of a walk's nodes are files. *)
LEMMA FilesOfNodes ==
  ASSUME NEW w, WalkType(w)
  PROVE  FilesWithNodes(w) \subseteq Files
BY DEF WalkType, FilesWithNodes, NodeMeta

(* What was read of every file is a walk. *)
LEMMA WalkTyped ==
  ASSUME Inv, NEW v \in Views
  PROVE  WalkType(walk[v])
BY SumIsWalk DEF Inv, BaseType, WalkIsOfRead

(* Types are kept, step by step. *)
LEMMA BaseTypeStep ==
  ASSUME Inv, [Next]_vars
  PROVE  BaseType'
<1> USE DEF BaseType, Enter
<1>0. BaseType /\ "scan" \in Views /\ "create" \in Views
  BY DEF Inv, Views
<1>1. ASSUME NEW v \in Views, Begin(v) PROVE BaseType'
  BY <1>0, <1>1 DEF Begin
<1>2. ASSUME NEW v \in Views, NEW f \in Files, Visit(v, f) PROVE BaseType'
  <2>1. read' \in [Views -> [Files -> Texts \cup {Gone}]]
    <3>1. vault[f] \in Texts \cup {Gone} /\ read' = [read EXCEPT ![v][f] = vault[f]]
      BY <1>0, <1>2 DEF Visit
    <3> QED BY <1>0, <3>1
  <2>2. todo' \in [Views -> SUBSET Files] /\ DOMAIN walk' = Views
    BY <1>0, <1>2 DEF Visit
  <2> QED BY <1>0, <1>2, <2>1, <2>2 DEF Visit
<1>3. CASE Open
  BY <1>0, <1>3 DEF Open
<1>4. CASE Build
  <2>1. FilesWithNodes(walk["create"]) \subseteq Files
    BY <1>0, WalkTyped, FilesOfNodes
  <2> QED BY <1>0, <1>4, <2>1 DEF Build
<1>5. CASE Commit
  BY <1>0, <1>5 DEF Commit
<1>6. ASSUME NEW f \in Files, Hash(f) PROVE BaseType'
  <2>1. hash' \in [Files -> Texts \cup {Gone}]
    BY <1>0, <1>6 DEF Hash
  <2>2. todo' \in [Views -> SUBSET Files]
    BY <1>0, <1>6 DEF Hash
  <2>3. stage' \in [Views -> {"idle", "walk", "hash", "done", "failed"}]
    BY <1>0, <1>6 DEF Hash
  <2> QED BY <1>0, <1>6, <2>1, <2>2, <2>3 DEF Hash
<1>7. ASSUME NEW f \in Files, NEW t \in Texts \cup {Gone}, Edit(f, t) PROVE BaseType'
  <2>1. edits' \in 0..MaxEdits
    BY <1>0, <1>7, PopulateAssumption DEF Edit
  <2>2. touched' \in [Views -> SUBSET Files]
    BY <1>0, <1>7 DEF Edit
  <2>3. vault' \in [Files -> Texts \cup {Gone}]
    BY <1>0, <1>7 DEF Edit
  <2> QED BY <1>0, <1>7, <2>1, <2>2, <2>3 DEF Edit
<1>8. CASE UNCHANGED vars
  BY <1>0, <1>8 DEF vars
<1> QED BY <1>1, <1>2, <1>3, <1>4, <1>5, <1>6, <1>7, <1>8 DEF Next, Idle

(* A walk stays the sum of what it has read, and what it has read stays    *)
(* there unless it is changed.                                             *)
LEMMA WalkStep ==
  ASSUME Inv, [Next]_vars, NEW v \in Views
  PROVE  (WalkIsOfRead(v) /\ ReadIsThere(v))'
<1>0. BaseType /\ WalkIsOfRead(v) /\ ReadIsThere(v) /\ "scan" \in Views /\ "create" \in Views
  BY DEF Inv, Views
<1>1. ASSUME walk'[v] = walk[v], read'[v] = read[v], Visited(v)' = Visited(v),
             Visited(v) \ touched'[v] \subseteq Visited(v) \ touched[v],
             \A f \in Visited(v) \ touched'[v] : vault'[f] = vault[f]
      PROVE  (WalkIsOfRead(v) /\ ReadIsThere(v))'
  BY <1>0, <1>1 DEF WalkIsOfRead, ReadIsThere, SumOf
<1>2. ASSUME UNCHANGED <<vault, walk, read, touched>>, Visited(v)' = Visited(v)
      PROVE  (WalkIsOfRead(v) /\ ReadIsThere(v))'
  BY <1>1, <1>2
<1>3. ASSUME NEW u \in Views, Begin(u) PROVE (WalkIsOfRead(v) /\ ReadIsThere(v))'
  <2>1. CASE u = v
    <3>1. Visited(v) = {} /\ Visited(v)' = {}
      BY <1>0, <1>3, <2>1 DEF BaseType, Begin, Enter, Visited
    <3> QED BY <1>1, <1>3, <3>1 DEF Begin
  <2>2. CASE u # v
    <3>1. Visited(v)' = Visited(v) /\ touched'[v] = touched[v]
      BY <1>0, <1>3, <2>2 DEF BaseType, Begin, Enter, Visited
    <3> QED BY <1>1, <1>3, <3>1 DEF Begin
  <2> QED BY <2>1, <2>2
<1>4. ASSUME NEW u \in Views, NEW f \in Files, Visit(u, f)
      PROVE  (WalkIsOfRead(v) /\ ReadIsThere(v))'
  <2>1. CASE u # v
    <3>1. Visited(v)' = Visited(v) /\ walk'[v] = walk[v] /\ read'[v] = read[v]
      BY <1>0, <1>4, <2>1 DEF BaseType, Visit, Visited
    <3> QED BY <1>1, <1>4, <3>1 DEF Visit
  <2>2. CASE u = v
    <3>1. f \notin Visited(v) /\ Visited(v)' = Visited(v) \cup {f}
      BY <1>0, <1>4, <2>2 DEF BaseType, Visit, Visited
    <3>2. PICK t \in Texts \cup {Gone} : t = vault[f]
      BY <1>0 DEF BaseType
    <3>3. PICK r \in [Files -> Texts \cup {Gone}] : r = read[v]
      BY <1>0 DEF BaseType
    <3>4. PICK w : w = walk[v]
      OBVIOUS
    <3>5. read'[v] = [r EXCEPT ![f] = t]
      BY <1>0, <1>4, <2>2, <3>2, <3>3 DEF BaseType, Visit
    <3>6. walk'[v] = IF t = Gone THEN w ELSE Merge(w, f, t)
      BY <1>0, <1>4, <2>2, <3>2, <3>4 DEF BaseType, Visit
    <3>7. SumOf(w, r) /\ r[f] = Gone
      BY <1>0, <3>1, <3>3, <3>4 DEF WalkIsOfRead
    <3>8. SumOf(walk'[v], read'[v])
      <4>1. CASE t = Gone
        <5>1. [r EXCEPT ![f] = t] = r
          BY <3>7, <4>1
        <5> QED BY <3>5, <3>6, <3>7, <4>1, <5>1
      <4>2. CASE t # Gone
        <5>1. SumOf(Merge(w, f, t), [r EXCEPT ![f] = t])
          BY <3>7, <4>2, MergeIsSum
        <5> QED BY <3>5, <3>6, <4>2, <5>1
      <4> QED BY <4>1, <4>2
    <3>9. SumOf(walk[v], read[v])'
      BY <3>8 DEF SumOf
    <3>10. \A g \in Files \ (Visited(v)') : read'[v][g] = Gone
      BY <1>0, <3>1, <3>3, <3>5 DEF WalkIsOfRead
    <3>11. \A g \in Visited(v)' \ touched[v] : read'[v][g] = vault[g]
      BY <1>0, <3>1, <3>2, <3>3, <3>5 DEF ReadIsThere, BaseType
    <3>12. vault' = vault /\ touched' = touched
      BY <1>4 DEF Visit
    <3> QED BY <3>9, <3>10, <3>11, <3>12 DEF WalkIsOfRead, ReadIsThere
  <2> QED BY <2>1, <2>2
<1>5. CASE Open
  <2>1. Visited(v)' = Visited(v)
    BY <1>0, <1>5 DEF BaseType, Open, Enter, Visited
  <2> QED BY <1>2, <1>5, <2>1 DEF Open
<1>6. CASE Build
  <2>1. Visited(v)' = Visited(v)
    BY <1>0, <1>6 DEF BaseType, Build, Enter, Visited
  <2> QED BY <1>2, <1>6, <2>1 DEF Build
<1>7. CASE Commit
  <2>1. Visited(v)' = Visited(v)
    BY <1>0, <1>7 DEF BaseType, Commit, Enter, Visited
  <2> QED BY <1>2, <1>7, <2>1 DEF Commit
<1>8. ASSUME NEW f \in Files, Hash(f) PROVE (WalkIsOfRead(v) /\ ReadIsThere(v))'
  <2>1. Visited(v)' = Visited(v)
    BY <1>0, <1>8 DEF BaseType, Hash, Enter, Visited
  <2> QED BY <1>2, <1>8, <2>1 DEF Hash
<1>9. ASSUME NEW f \in Files, NEW t \in Texts \cup {Gone}, Edit(f, t)
      PROVE  (WalkIsOfRead(v) /\ ReadIsThere(v))'
  <2>1. Visited(v)' = Visited(v)
    BY <1>9 DEF Edit, Visited
  <2>2. touched'[v] = touched[v] \cup {f} /\ vault' = [vault EXCEPT ![f] = t]
    BY <1>9 DEF Edit
  <2>3. \A g \in Visited(v) \ touched'[v] : vault'[g] = vault[g]
    BY <1>0, <2>2 DEF BaseType, Visited
  <2> QED BY <1>1, <1>9, <2>1, <2>2, <2>3 DEF Edit
<1>10. CASE UNCHANGED vars
  BY <1>2, <1>10 DEF vars, Visited
<1> QED BY <1>3, <1>4, <1>5, <1>6, <1>7, <1>8, <1>9, <1>10 DEF Next, Idle

(* An index and a database are made of their walks, once. *)
LEMMA ViewsStep ==
  ASSUME Inv, [Next]_vars
  PROVE  stage'["scan"] \in {"idle", "walk", "done"} /\ ViewsOfWalks'
<1> USE DEF Enter
<1>0. /\ stage \in [Views -> {"idle", "walk", "hash", "done", "failed"}]
      /\ "scan" \in Views /\ "create" \in Views /\ DOMAIN walk = Views
      /\ ViewsOfWalks /\ stage["scan"] \in {"idle", "walk", "done"}
  BY DEF Inv, BaseType, Views
<1>1. ASSUME UNCHANGED <<index, db>>,
             stage'["scan"] \in {"idle", "walk", "done"},
             \A v \in Views : stage'[v] = "done" <=> stage[v] = "done",
             \A v \in Views : stage[v] = "done" => walk'[v] = walk[v]
      PROVE  stage'["scan"] \in {"idle", "walk", "done"} /\ ViewsOfWalks'
  <2>1. db' = Tables(IF stage'["create"] = "done" THEN walk'["create"] ELSE EmptyWalk)
    BY <1>0, <1>1 DEF ViewsOfWalks
  <2>2. IF stage'["scan"] = "done"
        THEN \E labels \in SUBSET Names : index' = Index(walk'["scan"], labels)
        ELSE index' = EmptyIndex
    BY <1>0, <1>1 DEF ViewsOfWalks
  <2> QED BY <1>1, <2>1, <2>2 DEF ViewsOfWalks, Tables, NodeRows, TagRows, RefRows, LinkRows,
          CitationRows, Index, Resolved, ResolveIdSlug, Resolves, ClaimsOf
<1>2. ASSUME NEW v \in Views, Begin(v)
      PROVE  stage'["scan"] \in {"idle", "walk", "done"} /\ ViewsOfWalks'
  <2>1. stage' = [stage EXCEPT ![v] = "walk"] /\ stage[v] = "idle"
        /\ UNCHANGED <<walk, index, db>>
    BY <1>2 DEF Begin
  <2> QED BY <1>0, <1>1, <2>1
<1>3. ASSUME NEW v \in Views, NEW f \in Files, Visit(v, f)
      PROVE  stage'["scan"] \in {"idle", "walk", "done"} /\ ViewsOfWalks'
  <2>1. stage[v] = "walk" /\ UNCHANGED <<stage, index, db>>
        /\ \A u \in Views \ {v} : walk'[u] = walk[u]
    BY <1>0, <1>3 DEF Visit
  <2> QED BY <1>0, <1>1, <2>1
<1>4. CASE Open
  <2>1. /\ stage' = [stage EXCEPT !["scan"] = "done"] /\ stage["scan"] = "walk"
        /\ UNCHANGED <<walk, db>>
    BY <1>4 DEF Open
  <2>2. PICK labels :
          /\ labels = UNION {vault[f].labels : f \in FilesWithNodes(walk["scan"])}
          /\ index' = Index(walk["scan"], labels)
    BY <1>4 DEF Open
  <2>3. labels \in SUBSET Names
    <3>1. FilesWithNodes(walk["scan"]) \subseteq Files
      BY <1>0, WalkTyped, FilesOfNodes
    <3>2. \A f \in Files : vault[f].labels \subseteq Names
      BY NoteShape DEF Inv, BaseType
    <3> QED BY <2>2, <3>1, <3>2
  <2>4. stage'["scan"] = "done" /\ stage'["create"] = stage["create"]
    BY <1>0, <2>1
  <2>5. db' = Tables(IF stage'["create"] = "done" THEN walk'["create"] ELSE EmptyWalk)
    BY <1>0, <2>1, <2>4 DEF ViewsOfWalks
  <2>6. \E l \in SUBSET Names : index' = Index(walk'["scan"], l)
    BY <2>1, <2>2, <2>3
  <2> QED BY <2>4, <2>5, <2>6 DEF ViewsOfWalks, Tables, NodeRows, TagRows, RefRows, LinkRows,
          CitationRows, Index, Resolved, ResolveIdSlug, Resolves, ClaimsOf
<1>5. CASE Build
  <2>1. /\ stage' = [stage EXCEPT !["create"] = "hash"] /\ stage["create"] = "walk"
        /\ UNCHANGED <<walk, index, db>>
    BY <1>5 DEF Build
  <2> QED BY <1>0, <1>1, <2>1
<1>6. CASE Commit
  <2>1. /\ stage' = [stage EXCEPT !["create"] = "done"] /\ db' = Tables(walk["create"])
        /\ UNCHANGED <<walk, index>>
    BY <1>6 DEF Commit
  <2>2. stage'["create"] = "done" /\ stage'["scan"] = stage["scan"]
    BY <1>0, <2>1
  <2>3. db' = Tables(walk'["create"])
    BY <2>1
  <2>4. IF stage'["scan"] = "done"
        THEN \E labels \in SUBSET Names : index' = Index(walk'["scan"], labels)
        ELSE index' = EmptyIndex
    BY <1>0, <2>1, <2>2 DEF ViewsOfWalks
  <2> QED BY <1>0, <2>2, <2>3, <2>4 DEF ViewsOfWalks, Tables, NodeRows, TagRows, RefRows,
          LinkRows, CitationRows, Index, Resolved, ResolveIdSlug, Resolves, ClaimsOf
<1>7. ASSUME NEW f \in Files, Hash(f)
      PROVE  stage'["scan"] \in {"idle", "walk", "done"} /\ ViewsOfWalks'
  <2>1. /\ stage' \in {stage, [stage EXCEPT !["create"] = "failed"]}
        /\ stage["create"] = "hash" /\ UNCHANGED <<walk, index, db>>
    BY <1>7 DEF Hash
  <2> QED BY <1>0, <1>1, <2>1
<1>8. CASE UNCHANGED <<stage, walk, index, db>>
  BY <1>0, <1>1, <1>8
<1> QED BY <1>2, <1>3, <1>4, <1>5, <1>6, <1>7, <1>8 DEF Next, Idle, Edit, vars

(* The invariant holds of every vault. *)
THEOREM InvHolds == Spec => []Inv
<1>1. Inv /\ [Next]_vars => Inv'
  <2> SUFFICES ASSUME Inv, [Next]_vars PROVE Inv'
    OBVIOUS
  <2>1. \A v \in Views : (WalkIsOfRead(v) /\ ReadIsThere(v))'
    BY WalkStep
  <2> QED BY <2>1, BaseTypeStep, ViewsStep DEF Inv
<1> QED BY <1>1, InvInit, PTL DEF Spec

-----------------------------------------------------------------------------
(* What follows                                                            *)

(* The index is one of a walk, if only the empty one. *)
LEMMA IndexOfWalk ==
  ASSUME Inv
  PROVE  /\ \E w, labels : WalkType(w) /\ index = Index(w, labels)
         /\ stage["scan"] = "done" =>
              \E labels \in SUBSET Names : index = Index(walk["scan"], labels)
<1>1. WalkType(walk["scan"]) /\ WalkType(EmptyWalk)
  <2>1. [f \in Files |-> Gone] \in [Files -> Texts \cup {Gone}]
    OBVIOUS
  <2> QED BY <2>1, WalkTyped, EmptyIsSum, SumIsWalk DEF Views
<1> QED BY <1>1 DEF Inv, ViewsOfWalks, EmptyIndex

(* A walk has the nodes and the links of every file that did not change.   *)
LEMMA UntouchedRead ==
  ASSUME Inv, NEW v \in Views, stage[v] = "done", NEW f \in Untouched(v)
  PROVE  /\ read[v][f] = vault[f] /\ f \in Files
         /\ IdsIn(SectionsOf(f)) \subseteq DOMAIN walk[v].nodes
         /\ LinksIn(f, SectionsOf(f)) \subseteq walk[v].forward
<1>1. Visited(v) = Files
  BY DEF Visited
<1>2. read[v][f] = vault[f] /\ f \in Files
  BY <1>1 DEF Inv, ReadIsThere, Untouched
<1> QED BY <1>2 DEF Inv, WalkIsOfRead, SumOf, SectionsOf

(* The nodes of the database are those of its walk. *)
LEMMA SqlNodesOfWalk ==
  ASSUME NEW w
  PROVE  SqlNodes(Tables(w)) = DOMAIN w.nodes
<1> DEFINE Row(id) == [id |-> id, file |-> w.nodes[id].file, level |-> w.nodes[id].level]
<1>1. Tables(w).nodes = {Row(id) : id \in DOMAIN w.nodes}
  BY DEF Tables, NodeRows
<1>2. \A id : Row(id).id = id
  OBVIOUS
<1> HIDE DEF Row
<1> QED BY <1>1, <1>2 DEF SqlNodes

(* Every link goes from a name to a name, every entry is of a file, and    *)
(* nothing is ever hashed or read that no file may hold.                   *)
THEOREM TypeCorrect == Spec => []TypeOK
<1>1. Inv => TypeOK
  <2> SUFFICES ASSUME Inv PROVE TypeOK
    OBVIOUS
  <2>1. ASSUME NEW v \in Views
        PROVE  /\ DOMAIN walk[v].nodes \subseteq Names
               /\ \A id \in DOMAIN walk[v].nodes : walk[v].nodes[id] \in NodeMeta
               /\ walk[v].forward \subseteq LinkRecord
               /\ walk[v].refs \subseteq Ref \X Names
    BY WalkTyped DEF WalkType, RecordOf
  <2>2. index.forward \cup index.backward \subseteq LinkRecord
    <3>1. PICK w, labels : WalkType(w) /\ index = Index(w, labels)
      BY IndexOfWalk
    <3>2. /\ \A l \in Index(w, labels).forward : l \in LinkRecord
          /\ \A l \in Index(w, labels).backward : l \in LinkRecord
      BY <3>1, ForwardLinksOfIndex, BacklinksOfIndex
    <3> QED BY <3>1, <3>2
  <2> QED BY <2>1, <2>2 DEF Inv, BaseType, TypeOK
<1> QED BY <1>1, InvHolds, PTL

(* Drift never blames a note that changed while neither view was built.    *)
THEOREM DriftIsFair == Spec => []DriftBlamesTheTouched
<1>1. Inv => DriftBlamesTheTouched
  <2> SUFFICES ASSUME Inv, Done("scan"), Done("create"),
                      NEW f \in Untouched("scan") \cap Untouched("create"),
                      NEW id \in IdsIn(SectionsOf(f))
               PROVE  id \in Nodes(index) /\ id \in SqlNodes(db)
    BY DEF DriftBlamesTheTouched, MissingInSqlite, MissingInScanner
  <2>1. id \in DOMAIN walk["scan"].nodes /\ id \in DOMAIN walk["create"].nodes
    BY UntouchedRead DEF Done, Views
  <2>2. id \in Nodes(index)
    <3>1. PICK labels \in SUBSET Names : index = Index(walk["scan"], labels)
      BY IndexOfWalk DEF Done
    <3> QED BY <2>1, <3>1 DEF Index, Nodes
  <2>3. id \in SqlNodes(db)
    BY <2>1, SqlNodesOfWalk DEF Inv, ViewsOfWalks, Done
  <2> QED BY <2>2, <2>3
<1> QED BY <1>1, InvHolds, PTL

(* What did not change during the walk is indexed, whatever was created,   *)
(* deleted or moved around it: an :ID: is never taken for a slug.          *)
THEOREM UntouchedStays == Spec => []UntouchedIndexed
<1>1. Inv => UntouchedIndexed
  <2> SUFFICES ASSUME Inv, Done("scan"),
                      NEW f \in Untouched("scan"), NEW g \in Untouched("scan")
               PROVE  /\ IdsIn(SectionsOf(f)) \subseteq Nodes(index)
                      /\ \A l \in IdLinks(f) : l.dest \in IdsIn(SectionsOf(g)) =>
                           \E b \in Backlinks(index, l.dest) : b.source = l.source
    BY DEF UntouchedIndexed
  <2>1. PICK labels \in SUBSET Names : index = Index(walk["scan"], labels)
    BY IndexOfWalk DEF Done
  <2>2. Nodes(index) = DOMAIN walk["scan"].nodes
    BY <2>1 DEF Index, Nodes
  <2>3. /\ IdsIn(SectionsOf(f)) \subseteq Nodes(index)
        /\ IdsIn(SectionsOf(g)) \subseteq Nodes(index)
        /\ LinksIn(f, SectionsOf(f)) \subseteq walk["scan"].forward
    BY <2>2, UntouchedRead DEF Done, Views
  <2>4. ASSUME NEW l \in IdLinks(f), l.dest \in IdsIn(SectionsOf(g))
        PROVE  \E b \in Backlinks(index, l.dest) : b.source = l.source
    <3>1. l \in walk["scan"].forward /\ l.kind = "id"
      BY <2>3 DEF IdLinks
    <3>2. WalkType(walk["scan"])
      BY WalkTyped DEF Views
    <3>3. l.dest = l.raw /\ l.raw \in DOMAIN walk["scan"].nodes
      BY <2>2, <2>3, <2>4, <3>1, <3>2 DEF WalkType, RecordOf
    <3>4. Target(walk["scan"], l.raw) = l.raw
      BY <3>3 DEF Target, Resolves
    <3>5. PICK b \in index.backward : b.source = l.source /\ b.dest = l.raw
      BY <2>1, <3>1, <3>2, <3>4, BacklinksOfIndex
    <3> QED BY <3>3, <3>5 DEF Backlinks
  <2> QED BY <2>3, <2>4
<1> QED BY <1>1, InvHolds, PTL

-----------------------------------------------------------------------------
(* The index against the vault                                             *)

(* A walk of the vault as it is takes a name for what it means there.      *)
LEMMA TargetIsMeant ==
  ASSUME vault \in [Files -> Texts \cup {Gone}], NEW w, SumOf(w, vault), NEW name
  PROVE  Target(w, name) = Means(name)
<1> DEFINE Claim(f) == <<name, SectionsOf(f)[1].id, f>>
           C == Claimants(name)
           K == ClaimsOf(w, name)
<1>1. DOMAIN w.nodes = Ids
  BY DEF SumOf, Ids, SectionsOf
<1>2. K = {Claim(f) : f \in C}
  <2>1. ASSUME NEW c \in K PROVE c \in {Claim(f) : f \in C}
    <3>1. PICK f \in Files : c \in Claims(f, vault[f])
      BY DEF SumOf, ClaimsOf
    <3>2. c[1] = name
      BY DEF ClaimsOf
    <3>3. /\ vault[f] # Gone /\ SectionsOf(f)[1].id # NoName
          /\ c \in SlugsOf[f] \X {SectionsOf(f)[1].id} \X {f}
      BY <3>1 DEF Claims, SectionsOf
    <3>4. c = Claim(f) /\ f \in C
      BY <3>2, <3>3 DEF Claimants
    <3> QED BY <3>4
  <2>2. ASSUME NEW f \in C PROVE Claim(f) \in K
    <3>1. Claim(f) \in Claims(f, vault[f])
      BY DEF Claimants, Claims, SectionsOf
    <3>2. Claim(f) \in w.claims
      BY <3>1 DEF SumOf, Claimants
    <3>3. Claim(f)[1] = name
      OBVIOUS
    <3> QED BY <3>2, <3>3 DEF ClaimsOf
  <2> QED BY <2>1, <2>2
<1>3. IsFiniteSet(C)
  BY LinkGraphAssumption, FS_Subset DEF Claimants
<1>4. Cardinality(C) = 1 <=> \E f : C = {f}
  BY <1>3, FS_Singleton
<1>5. Cardinality(K) = 1 <=> \E c : K = {c}
  <2>1. K = {[g \in C |-> Claim(g)][f] : f \in C}
    BY <1>2
  <2>2. [f \in C |-> Claim(f)] \in [C -> K]
    BY <1>2
  <2>3. [f \in C |-> Claim(f)] \in Surjection(C, K)
    BY <1>2, <2>2 DEF Surjection
  <2>4. IsFiniteSet(K)
    BY <1>3, <2>3, FS_Surjection
  <2> QED BY <2>4, FS_Singleton
<1>6. Claim(CHOOSE f \in C : TRUE)[2] = SectionsOf(CHOOSE f \in C : TRUE)[1].id
  OBVIOUS
<1>7. \A f, g : Claim(f) = Claim(g) => f = g
  OBVIOUS
<1> HIDE DEF C, K, Claim
<1>8. (\E f : C = {f}) <=> (\E c : K = {c})
  <2>1. ASSUME NEW f, C = {f} PROVE \E c : K = {c}
    <3>1. K = {Claim(f)}
      BY <1>2, <2>1
    <3> QED BY <3>1
  <2>2. ASSUME NEW c, K = {c} PROVE \E f : C = {f}
    <3>1. PICK f \in C : c = Claim(f)
      BY <1>2, <2>2
    <3>2. \A g \in C : Claim(g) = c
      BY <1>2, <2>2
    <3>3. \A g \in C : g = f
      BY <1>7, <3>1, <3>2
    <3>4. C = {f}
      BY <3>1, <3>3
    <3> QED BY <3>4
  <2> QED BY <2>1, <2>2
<1>9. ASSUME NEW f, C = {f} PROVE (CHOOSE c \in K : TRUE) = Claim(CHOOSE g \in C : TRUE)
  <2>1. K = {Claim(f)}
    BY <1>2, <1>9
  <2> QED BY <1>9, <2>1
<1>10. Resolves(w, name) <=> name \notin Ids /\ Cardinality(C) = 1
  BY <1>1, <1>4, <1>5, <1>8 DEF Resolves, K
<1> QED BY <1>4, <1>6, <1>9, <1>10 DEF Target, Means, K, C

(* Of a vault that did not change during it, a walk is the sum. *)
LEMMA FreshWalk ==
  ASSUME Inv, NEW v \in Views, stage[v] = "done", touched[v] = {}
  PROVE  SumOf(walk[v], vault) /\ WalkType(walk[v]) /\ DOMAIN walk[v].nodes = Ids
<1>1. \A f \in Files : read[v][f] = vault[f]
  BY UntouchedRead DEF Untouched
<1>2. read[v] = vault
  BY <1>1 DEF Inv, BaseType
<1>3. SumOf(walk[v], vault)
  BY <1>2 DEF Inv, WalkIsOfRead
<1> QED BY <1>3, WalkTyped DEF SumOf, Ids, SectionsOf

(* An index has each of its edges once in each direction, whatever changed *)
(* while it was opened; if nothing did, it has the vault's nodes, the      *)
(* backlinks its links mean, and as orphans the nodes without either.      *)
THEOREM ScanIsOfVault == Spec => []ScanMatchesVault
<1>1. ASSUME Inv PROVE Mirrored(index)
  BY <1>1, IndexOfWalk, IndexIsMirrored
<1>2. ASSUME Inv, Done("scan"), touched["scan"] = {}
      PROVE  LET links == UNION {IdLinks(f) : f \in Files} IN
             /\ Nodes(index) = Ids
             /\ \A name \in Names :
                  {l.source : l \in Backlinks(index, name)}
                    = {l.source : l \in {k \in links : Means(k.raw) = name}}
             /\ Orphans(index) = Ids \ UNION {{l.source, Means(l.raw)} : l \in links}
  <2>1. PICK w : w = walk["scan"]
    OBVIOUS
  <2>2. SumOf(w, vault) /\ WalkType(w) /\ DOMAIN w.nodes = Ids
    BY <1>2, <2>1, FreshWalk DEF Done, Views
  <2>3. PICK labels : index = Index(w, labels)
    BY <1>2, <2>1, IndexOfWalk DEF Done
  <2>4. PICK links : links = UNION {IdLinks(f) : f \in Files}
    OBVIOUS
  <2>5. links = {l \in w.forward : l.kind = "id"}
    BY <2>2, <2>4 DEF IdLinks, SumOf, SectionsOf
  <2>6. \A name : Target(w, name) = Means(name)
    BY <1>2, <2>2, TargetIsMeant DEF Inv, BaseType
  <2>7. Nodes(index) = Ids
    BY <2>2, <2>3 DEF Nodes, Index
  <2>8. /\ \A l \in links : \E b \in index.backward :
             b.source = l.source /\ b.dest = Means(l.raw)
        /\ \A b \in index.backward : \E l \in links :
             b.source = l.source /\ b.dest = Means(l.raw)
    BY <2>2, <2>3, <2>5, <2>6, BacklinksOfIndex
  <2>9. ASSUME NEW name
        PROVE  {l.source : l \in Backlinks(index, name)}
                 = {l.source : l \in {k \in links : Means(k.raw) = name}}
    <3>1. ASSUME NEW b \in Backlinks(index, name)
          PROVE  \E l \in {k \in links : Means(k.raw) = name} : b.source = l.source
      BY <2>8 DEF Backlinks
    <3>2. ASSUME NEW l \in {k \in links : Means(k.raw) = name}
          PROVE  \E b \in Backlinks(index, name) : b.source = l.source
      BY <2>8 DEF Backlinks
    <3> QED BY <3>1, <3>2
  <2>10. Orphans(index) = Ids \ UNION {{l.source, Means(l.raw)} : l \in links}
    <3>1. ASSUME NEW id \in Ids
          PROVE  id \in Orphans(index) <=>
                   \A l \in links : id # l.source /\ id # Means(l.raw)
      <4>1. Backlinks(index, id) = {} <=> \A l \in links : id # Means(l.raw)
        BY <2>8 DEF Backlinks
      <4>2. (\A k \in ForwardLinks(index, id) : k.kind # "id")
              <=> \A l \in links : id # l.source
        <5>1. ASSUME NEW l \in links
              PROVE  \E k \in index.forward : k.source = l.source /\ k.kind = "id"
          BY <2>2, <2>3, <2>5, ForwardLinksOfIndex
        <5>2. ASSUME NEW k \in index.forward, k.kind = "id"
              PROVE  \E l \in links : k.source = l.source
          BY <2>2, <2>3, <2>5, <5>2, ForwardLinksOfIndex
        <5> QED BY <5>1, <5>2 DEF ForwardLinks
      <4> QED BY <2>7, <4>1, <4>2 DEF Orphans
    <3>2. Orphans(index) \subseteq Ids
      BY <2>7 DEF Orphans
    <3> QED BY <3>1, <3>2
  <2> QED BY <2>4, <2>7, <2>9, <2>10
<1>3. Inv => ScanMatchesVault
  BY <1>1, <1>2 DEF ScanMatchesVault
<1> QED BY <1>3, InvHolds, PTL

-----------------------------------------------------------------------------
(* The database against the index                                          *)

(* The walks of a vault that did not change differ in nothing but in which  *)
(* of two nodes of one :ID: they have kept.                                *)
LEMMA FreshWalksAgree ==
  ASSUME Inv, Fresh
  PROVE  LET w == walk["scan"]
             u == walk["create"] IN
         /\ DOMAIN u.nodes = DOMAIN w.nodes /\ u.forward = w.forward /\ u.refs = w.refs
         /\ \A l \in w.forward : l.source \in DOMAIN w.nodes
         /\ \A id \in DOMAIN w.nodes \ Duplicated : u.nodes[id] = w.nodes[id]
<1>1. PICK w : w = walk["scan"]
  OBVIOUS
<1>2. PICK u : u = walk["create"]
  OBVIOUS
<1>3. /\ SumOf(w, vault) /\ SumOf(u, vault)
      /\ vault \in [Files -> Texts \cup {Gone}]
  BY <1>1, <1>2, FreshWalk DEF Fresh, Done, Views, Inv, BaseType
<1>4. DOMAIN u.nodes = DOMAIN w.nodes /\ u.forward = w.forward /\ u.refs = w.refs
  BY <1>3 DEF SumOf
<1>5. ASSUME NEW l \in w.forward PROVE l.source \in DOMAIN w.nodes
  <2>1. PICK f \in Files : l \in LinksIn(f, vault[f].sections)
    BY <1>3 DEF SumOf
  <2>2. vault[f].sections \in Seq(Section)
    BY <1>3, NoteShape
  <2>3. l.source \in IdsIn(vault[f].sections)
    BY <2>1, <2>2, LinksOfNodes
  <2> QED BY <1>3, <2>3 DEF SumOf
<1>6. ASSUME NEW id \in DOMAIN w.nodes \ Duplicated PROVE u.nodes[id] = w.nodes[id]
  <2>1. PICK f \in Files :
          id \in IdsIn(vault[f].sections) /\ w.nodes[id] = NodeIn(f, vault[f].sections, id)
    BY <1>3 DEF SumOf
  <2>2. PICK g \in Files :
          id \in IdsIn(vault[g].sections) /\ u.nodes[id] = NodeIn(g, vault[g].sections, id)
    BY <1>3, <1>4 DEF SumOf
  <2>3. f = g
    <3>1. CASE f # g
      <4>1. <<f, g>> \in {q \in Files \X Files : q[1] # q[2]}
        BY <3>1
      <4>2. id \in Duplicated
        BY <2>1, <2>2, <4>1 DEF Duplicated, SectionsOf
      <4> QED BY <1>6, <4>2
    <3> QED BY <3>1
  <2> QED BY <2>1, <2>2, <2>3
<1> QED BY <1>1, <1>2, <1>4, <1>5, <1>6

(* The rows of links and citations are the walk's links, if they are from  *)
(* a node and, for an id: link, to one.                                    *)
LEMMA RowsOfLinks ==
  ASSUME NEW w, \A l \in w.forward : l.source \in DOMAIN w.nodes
  PROVE  /\ \A l \in w.forward : (l.kind = "id" => l.raw \in DOMAIN w.nodes) =>
              \E row \in Tables(w).links :
                row.source = l.source /\ row.dest = l.raw /\ row.type = l.kind
         /\ \A row \in Tables(w).links : \E l \in w.forward :
              /\ l.kind = "id" => l.raw \in DOMAIN w.nodes
              /\ row.source = l.source /\ row.dest = l.raw /\ row.type = l.kind
         /\ \A l \in w.forward : l.kind = "cite" =>
              \E c \in Tables(w).citations : c.node = l.source /\ c.key = l.raw
         /\ \A c \in Tables(w).citations : \E l \in w.forward :
              l.kind = "cite" /\ c.node = l.source /\ c.key = l.raw
<1>1. Tables(w).links = LinkRows(w) /\ Tables(w).citations = CitationRows(w)
  BY DEF Tables
<1>2. ASSUME NEW l \in w.forward, l.kind = "id" => l.raw \in DOMAIN w.nodes
      PROVE  \E row \in LinkRows(w) :
               row.source = l.source /\ row.dest = l.raw /\ row.type = l.kind
  <2>1. [source |-> l.source, dest |-> l.raw, type |-> l.kind] \in LinkRows(w)
    BY <1>2 DEF LinkRows
  <2> QED BY <2>1
<1>3. ASSUME NEW row \in LinkRows(w)
      PROVE  \E l \in w.forward :
               /\ l.kind = "id" => l.raw \in DOMAIN w.nodes
               /\ row.source = l.source /\ row.dest = l.raw /\ row.type = l.kind
  BY DEF LinkRows
<1>4. ASSUME NEW l \in w.forward, l.kind = "cite"
      PROVE  \E c \in CitationRows(w) : c.node = l.source /\ c.key = l.raw
  <2>1. [node |-> l.source, key |-> l.raw, pos |-> l.pos] \in CitationRows(w)
    BY <1>4 DEF CitationRows
  <2> QED BY <2>1
<1>5. ASSUME NEW c \in CitationRows(w)
      PROVE  \E l \in w.forward : l.kind = "cite" /\ c.node = l.source /\ c.key = l.raw
  BY DEF CitationRows
<1> QED BY <1>1, <1>2, <1>3, <1>4, <1>5

(* Of a vault that did not change, the database has every backlink that    *)
(* names its node by :ID:, and no other, and every forward link but those  *)
(* to no :ID:; its orphans include the index's; it finds by ref what the   *)
(* index finds, and by tag nothing else, but for an :ID: met twice.        *)
THEOREM ViewsAgree == Spec => []DbAgreesWithScan
<1>1. ASSUME Inv, Fresh PROVE ExplicitEdgesAgree /\ LookupsAgree
  <2>1. PICK w : w = walk["scan"]
    OBVIOUS
  <2>2. PICK u : u = walk["create"]
    OBVIOUS
  <2>3. PICK D : D = DOMAIN w.nodes
    OBVIOUS
  <2>4. /\ WalkType(w) /\ WalkType(u) /\ DOMAIN u.nodes = D /\ u.forward = w.forward
        /\ u.refs = w.refs /\ \A l \in w.forward : l.source \in D /\ l.raw \in Names
        /\ \A id \in D \ Duplicated : u.nodes[id] = w.nodes[id]
        /\ D \subseteq Names
    <3>1. WalkType(w) /\ WalkType(u)
      BY <1>1, <2>1, <2>2, WalkTyped DEF Views
    <3>2. \A l \in w.forward : l.raw \in Names
      BY <3>1 DEF WalkType, RecordOf, LinkRecord
    <3> QED BY <1>1, <2>1, <2>2, <2>3, <3>1, <3>2, FreshWalksAgree DEF WalkType
  <2>5. PICK labels : index = Index(w, labels)
    BY <1>1, <2>1, IndexOfWalk DEF Fresh, Done, Views
  <2>6. db = Tables(u)
    BY <1>1, <2>2 DEF Inv, ViewsOfWalks, Fresh, Done, Views
  <2>7. Nodes(index) = D /\ SqlNodes(db) = D
    BY <2>3, <2>4, <2>5, <2>6, SqlNodesOfWalk DEF Nodes, Index
  <2>8. \A name \in D : Target(w, name) = name
    BY <2>3 DEF Target, Resolves
  <2>9. /\ \A l \in w.forward : (l.kind = "id" => l.raw \in D) =>
              \E row \in db.links :
                row.source = l.source /\ row.dest = l.raw /\ row.type = l.kind
        /\ \A row \in db.links : \E l \in w.forward :
              /\ l.kind = "id" => l.raw \in D
              /\ row.source = l.source /\ row.dest = l.raw /\ row.type = l.kind
        /\ \A l \in w.forward : l.kind = "cite" =>
              \E c \in db.citations : c.node = l.source /\ c.key = l.raw
        /\ \A c \in db.citations : \E l \in w.forward :
              l.kind = "cite" /\ c.node = l.source /\ c.key = l.raw
    BY <2>4, <2>6, RowsOfLinks
  <2>10. /\ \A l \in w.forward : \E k \in index.forward :
              /\ k.source = l.source /\ k.raw = l.raw
              /\ k.kind = l.kind \/ (l.kind = "fuzzy" /\ k.kind = "name")
         /\ \A k \in index.forward : \E l \in w.forward :
              /\ k.source = l.source /\ k.raw = l.raw
              /\ k.kind = l.kind \/ (l.kind = "fuzzy" /\ k.kind = "name")
    BY <2>4, <2>5, ForwardLinksOfIndex
  <2>11. /\ \A l \in w.forward : l.kind = "id" => \E b \in index.backward :
              b.source = l.source /\ b.raw = l.raw /\ b.dest = Target(w, l.raw)
         /\ \A b \in index.backward : \E l \in w.forward :
              /\ l.kind = "id" /\ b.source = l.source /\ b.raw = l.raw
              /\ b.dest = Target(w, l.raw)
    BY <2>4, <2>5, BacklinksOfIndex
  <2>12. \A l \in w.forward : l.kind # "name"
    BY <2>4 DEF WalkType, RecordOf
  <2>13. Orphans(index) \subseteq SqlOrphans(db)
    <3> SUFFICES ASSUME NEW id \in Orphans(index) PROVE id \in SqlOrphans(db)
      OBVIOUS
    <3>1. /\ id \in D /\ \A b \in index.backward : b.dest # id
          /\ \A k \in index.forward : k.source = id => k.kind # "id"
      BY <2>7 DEF Orphans, Backlinks, ForwardLinks
    <3>2. ASSUME NEW row \in db.links, row.type = "id"
          PROVE  id # row.source /\ id # row.dest
      <4>1. PICK l \in w.forward : /\ l.kind = "id" /\ l.raw \in D
                                   /\ row.source = l.source /\ row.dest = l.raw
        BY <2>9, <3>2
      <4>2. PICK b \in index.backward : b.dest = Target(w, l.raw)
        BY <2>11, <4>1
      <4>3. PICK k \in index.forward : k.source = l.source /\ k.kind = "id"
        BY <2>10, <4>1
      <4> QED BY <2>8, <3>1, <4>1, <4>2, <4>3
    <3> QED BY <2>7, <3>1, <3>2 DEF SqlOrphans
  <2>14. ASSUME NEW id \in Names
         PROVE  {l.source : l \in {k \in SqlBacklinks(db, id) : k.type = "id"}}
                  = {l.source : l \in {k \in Backlinks(index, id) :
                                         k.raw = id /\ id \in Nodes(index)}}
    <3>1. ASSUME NEW row \in {k \in SqlBacklinks(db, id) : k.type = "id"}
          PROVE  \E b \in {k \in Backlinks(index, id) : k.raw = id /\ id \in Nodes(index)} :
                   row.source = b.source
      <4>1. PICK l \in w.forward : /\ l.kind = "id" /\ l.raw \in D /\ l.raw = id
                                   /\ row.source = l.source
        BY <2>9 DEF SqlBacklinks
      <4>2. PICK b \in index.backward :
              b.source = l.source /\ b.raw = l.raw /\ b.dest = Target(w, l.raw)
        BY <2>11, <4>1
      <4> QED BY <2>7, <2>8, <4>1, <4>2 DEF Backlinks
    <3>2. ASSUME NEW b \in {k \in Backlinks(index, id) : k.raw = id /\ id \in Nodes(index)}
          PROVE  \E row \in {k \in SqlBacklinks(db, id) : k.type = "id"} :
                   b.source = row.source
      <4>1. PICK l \in w.forward : l.kind = "id" /\ b.source = l.source /\ l.raw = id
        BY <2>11 DEF Backlinks
      <4>2. PICK row \in db.links :
              row.source = l.source /\ row.dest = l.raw /\ row.type = l.kind
        BY <2>7, <2>9, <4>1
      <4> QED BY <4>1, <4>2 DEF SqlBacklinks
    <3> QED BY <3>1, <3>2
  <2>15. ASSUME NEW id \in Names
         PROVE  SqlForwardLinks(db, id)
                  = AsShown({l \in ForwardLinks(index, id) :
                               l.kind = "id" => l.raw \in Nodes(index)})
    <3> DEFINE Shown(k) == [kind |-> IF k.kind = "name" THEN "fuzzy" ELSE k.kind,
                            raw |-> k.raw]
               kept == {l \in ForwardLinks(index, id) : l.kind = "id" => l.raw \in Nodes(index)}
    <3>1. SqlForwardLinks(db, id)
            = {[kind |-> l.type, raw |-> l.dest] : l \in {k \in db.links : k.source = id}}
              \cup {[kind |-> "cite", raw |-> c.key] : c \in {k \in db.citations : k.node = id}}
      BY DEF SqlForwardLinks
    <3>2. AsShown(kept) = {Shown(k) : k \in kept}
      BY DEF AsShown
    <3>3. ASSUME NEW l \in w.forward, l.source = id, l.kind = "id" => l.raw \in D
          PROVE  \E k \in kept : Shown(k) = [kind |-> l.kind, raw |-> l.raw]
      <4>1. PICK k \in index.forward :
              /\ k.source = l.source /\ k.raw = l.raw
              /\ k.kind = l.kind \/ (l.kind = "fuzzy" /\ k.kind = "name")
        BY <2>10
      <4>2. k \in kept
        BY <2>7, <3>3, <4>1 DEF ForwardLinks
      <4>3. Shown(k) = [kind |-> l.kind, raw |-> l.raw]
        BY <2>12, <4>1
      <4> QED BY <4>2, <4>3
    <3>4. ASSUME NEW k \in kept
          PROVE  \E l \in w.forward :
                   /\ l.source = id /\ (l.kind = "id" => l.raw \in D)
                   /\ Shown(k) = [kind |-> l.kind, raw |-> l.raw]
      <4>1. PICK l \in w.forward :
              /\ k.source = l.source /\ k.raw = l.raw
              /\ k.kind = l.kind \/ (l.kind = "fuzzy" /\ k.kind = "name")
        BY <2>10 DEF ForwardLinks
      <4>2. Shown(k) = [kind |-> l.kind, raw |-> l.raw]
        BY <2>12, <4>1
      <4> QED BY <2>7, <4>1, <4>2 DEF ForwardLinks
    <3> HIDE DEF Shown, kept
    <3>5. ASSUME NEW x \in SqlForwardLinks(db, id) PROVE x \in {Shown(k) : k \in kept}
      <4>1. CASE x \in {[kind |-> l.type, raw |-> l.dest] : l \in {k \in db.links : k.source = id}}
        BY <2>9, <3>3, <4>1
      <4>2. CASE x \in {[kind |-> "cite", raw |-> c.key] : c \in {k \in db.citations : k.node = id}}
        BY <2>9, <3>3, <4>2
      <4> QED BY <3>1, <4>1, <4>2
    <3>6. ASSUME NEW k \in kept PROVE Shown(k) \in SqlForwardLinks(db, id)
      <4>1. PICK l \in w.forward : /\ l.source = id /\ (l.kind = "id" => l.raw \in D)
                                   /\ Shown(k) = [kind |-> l.kind, raw |-> l.raw]
        BY <3>4
      <4>2. PICK row \in db.links :
              row.source = l.source /\ row.dest = l.raw /\ row.type = l.kind
        BY <2>9, <4>1
      <4> QED BY <3>1, <4>1, <4>2
    <3>7. SqlForwardLinks(db, id) = {Shown(k) : k \in kept}
      BY <3>5, <3>6
    <3> QED BY <3>2, <3>7 DEF kept
  <2>16. ASSUME NEW id \in Names
         PROVE  SqlExternalLinks(db, id) = AsShown(ExternalLinks(index, id))
    <3>1. ASSUME NEW x \in SqlExternalLinks(db, id)
          PROVE  x \in AsShown(ExternalLinks(index, id))
      <4>1. PICK row \in db.links : /\ row.source = id /\ row.type \in {"cite", "https"}
                                    /\ x = [kind |-> row.type, raw |-> row.dest]
        BY DEF SqlExternalLinks
      <4>2. PICK l \in w.forward :
              row.source = l.source /\ row.dest = l.raw /\ row.type = l.kind
        BY <2>9
      <4>3. PICK k \in index.forward : k.source = id /\ k.raw = l.raw /\ k.kind = l.kind
        BY <2>10, <4>1, <4>2
      <4> QED BY <4>1, <4>2, <4>3 DEF AsShown, ExternalLinks, ForwardLinks
    <3>2. ASSUME NEW x \in AsShown(ExternalLinks(index, id))
          PROVE  x \in SqlExternalLinks(db, id)
      <4>1. PICK k \in index.forward : /\ k.source = id /\ k.kind \in {"cite", "https"}
                                       /\ x = [kind |-> k.kind, raw |-> k.raw]
        BY DEF AsShown, ExternalLinks, ForwardLinks
      <4>2. PICK l \in w.forward : k.source = l.source /\ k.raw = l.raw /\ k.kind = l.kind
        BY <2>10, <4>1
      <4>3. PICK row \in db.links :
              row.source = l.source /\ row.dest = l.raw /\ row.type = l.kind
        BY <2>9, <4>1, <4>2
      <4> QED BY <4>1, <4>2, <4>3 DEF SqlExternalLinks
    <3> QED BY <3>1, <3>2
  <2>17. ASSUME NEW r \in Ref PROVE ByRef(index, r) \subseteq SqlByRef(db, r)
    <3> SUFFICES ASSUME NEW id \in ByRef(index, r) PROVE id \in SqlByRef(db, r)
      OBVIOUS
    <3>1. <<r, id>> \in u.refs
      BY <2>4, <2>5 DEF ByRef, Index
    <3>2. [node |-> id, ref |-> Stored(r), type |-> r.scheme] \in db.refs
      BY <2>6, <3>1 DEF Tables, RefRows
    <3>3. PICK row \in db.refs : row.node = id /\ row.ref = Stored(r)
      BY <3>2
    <3>4. row.node \in {k.node : k \in {x \in db.refs : x.ref = Stored(r)}}
      BY <3>3
    <3> QED BY <3>3, <3>4 DEF SqlByRef
  <2>18. ASSUME NEW tag \in Tags
         PROVE  SqlByTag(db, tag) \ Duplicated \subseteq ByTag(index, tag, Fold)
    <3> SUFFICES ASSUME NEW id \in SqlByTag(db, tag), id \notin Duplicated
                 PROVE  id \in ByTag(index, tag, Fold)
      OBVIOUS
    <3>1. id \in D /\ <<id, tag>> \in TagRows(u)
      BY <2>6, <2>7 DEF SqlByTag, Tables
    <3>2. tag \in u.nodes[id].tags
      BY <3>1 DEF TagRows
    <3>3. tag \in w.nodes[id].tags /\ index.nodes = w.nodes
      BY <2>4, <2>5, <3>1, <3>2 DEF Index
    <3> QED BY <2>7, <3>1, <3>3 DEF ByTag
  <2> QED BY <2>13, <2>14, <2>15, <2>16, <2>17, <2>18 DEF ExplicitEdgesAgree, LookupsAgree
<1> QED BY <1>1, InvHolds, PTL DEF DbAgreesWithScan
=============================================================================
