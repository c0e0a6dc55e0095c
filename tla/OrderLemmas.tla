------------------------------ MODULE OrderLemmas ---------------------------
(***************************************************************************)
(* Lemmas that proofs about different components share: about least and    *)
(* greatest numbers, about the places of the elements of an ordered set,   *)
(* and about sequences: parts of them, one out of many, folds along one.   *)
(***************************************************************************)
EXTENDS Naturals, FiniteSets, SequencesExt, FiniteSetTheorems, SequenceTheorems, TLAPS

-----------------------------------------------------------------------------
(* Numbers                                                                 *)

(* A set of numbers has a least one. *)
LEMMA LeastExists ==
  ASSUME NEW S, S \subseteq Nat, S # {}
  PROVE  \E m \in S : \A k \in S : m <= k
<1>1. PICK m \in S : \A k \in S : <<k, m>> \notin OpToRel(<, Nat)
  BY NatLessThanWellFounded, WFMin
<1>2. ASSUME NEW k \in S PROVE m <= k
  <2>1. ~ k < m
    BY <1>1 DEF OpToRel
  <2> QED BY <2>1
<1> QED BY <1>2

(* A set of numbers up to one of them has a greatest one. *)
LEMMA GreatestExists ==
  ASSUME NEW n \in Nat, NEW s, s \subseteq 0..n, s # {}
  PROVE  Max(s) \in s /\ \A x \in s : x <= Max(s)
<1> DEFINE T == {n - x : x \in s}
<1>1. T \subseteq Nat /\ T # {}
  <2>1. \A x \in s : n - x \in Nat
    OBVIOUS
  <2> QED BY <2>1
<1>2. PICK m \in T : \A k \in T : m <= k
  BY <1>1, LeastExists
<1>3. PICK x \in s : m = n - x
  BY <1>2
<1>4. ASSUME NEW y \in s PROVE x >= y
  <2>1. n - x <= n - y
    BY <1>2, <1>3
  <2>2. x \in Nat /\ y \in Nat
    OBVIOUS
  <2> QED BY <2>1, <2>2
<1>5. PICK z : z = Max(s)
  OBVIOUS
<1>6. z \in s /\ \A y \in s : z >= y
  BY <1>4, <1>5 DEF Max
<1>7. \A y \in s : y <= z
  <2> SUFFICES ASSUME NEW y \in s PROVE y <= z
    OBVIOUS
  <2>1. y \in Nat /\ z \in Nat /\ z >= y
    BY <1>6
  <2> QED BY <2>1
<1> QED BY <1>5, <1>6, <1>7

-----------------------------------------------------------------------------
(* Places                                                                  *)

(* R is a strict order of the elements of a set. *)
StrictOrder(R, at) ==
  /\ \A i \in at : <<i, i>> \notin R
  /\ \A i, j, k \in at : <<i, j>> \in R /\ <<j, k>> \in R => <<i, k>> \in R
  /\ \A i, j \in at : i = j \/ <<i, j>> \in R \/ <<j, i>> \in R

(* The elements up to one of them, and the number of them. *)
UpTo(R, at, i) == {j \in at : j = i \/ <<j, i>> \in R}
Place(R, at)   == [i \in at |-> Cardinality(UpTo(R, at, i))]

(* In a finite set with a strict order every element has a place of its    *)
(* own, from 1 to the number of elements.                                  *)
LEMMA Placement ==
  ASSUME NEW at, IsFiniteSet(at), NEW R, StrictOrder(R, at)
  PROVE  /\ \A i \in at : Place(R, at)[i] \in 1..Cardinality(at)
         /\ \A i, j \in at : Place(R, at)[i] < Place(R, at)[j] <=> <<i, j>> \in R
         /\ \A i, j \in at : Place(R, at)[i] = Place(R, at)[j] => i = j
         /\ \A k \in 1..Cardinality(at) : \E i \in at : Place(R, at)[i] = k
<1>1. ASSUME NEW i \in at
      PROVE  /\ UpTo(R, at, i) \in SUBSET at /\ IsFiniteSet(UpTo(R, at, i)) /\ i \in UpTo(R, at, i)
             /\ Place(R, at)[i] = Cardinality(UpTo(R, at, i)) /\ Cardinality(UpTo(R, at, i)) \in Nat
             /\ Cardinality(UpTo(R, at, i)) <= Cardinality(at)
  <2>1. UpTo(R, at, i) \in SUBSET at /\ i \in UpTo(R, at, i)
    BY DEF UpTo
  <2>2. IsFiniteSet(UpTo(R, at, i)) /\ Cardinality(UpTo(R, at, i)) <= Cardinality(at)
    BY <2>1, FS_Subset
  <2> QED BY <2>1, <2>2, FS_CardinalityType DEF Place
<1>2. Cardinality(at) \in Nat
  BY FS_CardinalityType
<1>3. ASSUME NEW i \in at PROVE Place(R, at)[i] \in 1..Cardinality(at)
  <2>1. Cardinality(UpTo(R, at, i)) # 0
    BY <1>1, FS_EmptySet
  <2> QED BY <1>1, <1>2, <2>1
<1>4. ASSUME NEW i \in at, NEW j \in at, <<i, j>> \in R PROVE Place(R, at)[i] < Place(R, at)[j]
  <2>1. UpTo(R, at, i) \in SUBSET UpTo(R, at, j)
    BY <1>4 DEF UpTo, StrictOrder
  <2>2. j \notin UpTo(R, at, i) /\ j \in UpTo(R, at, j)
    BY <1>4 DEF UpTo, StrictOrder
  <2>3. /\ Cardinality(UpTo(R, at, i)) <= Cardinality(UpTo(R, at, j))
        /\ Cardinality(UpTo(R, at, i)) # Cardinality(UpTo(R, at, j))
    BY <1>1, <2>1, <2>2, FS_Subset
  <2> QED BY <1>1, <2>3
<1>5. ASSUME NEW i \in at, NEW j \in at, Place(R, at)[i] = Place(R, at)[j] PROVE i = j
  <2>1. Place(R, at)[i] \in Nat /\ Place(R, at)[j] \in Nat
    BY <1>1
  <2>2. ~ Place(R, at)[i] < Place(R, at)[j] /\ ~ Place(R, at)[j] < Place(R, at)[i]
    BY <1>5, <2>1
  <2> QED BY <1>4, <2>2 DEF StrictOrder
<1>6. ASSUME NEW i \in at, NEW j \in at, Place(R, at)[i] < Place(R, at)[j] PROVE <<i, j>> \in R
  <2>1. Place(R, at)[i] \in Nat /\ Place(R, at)[j] \in Nat
    BY <1>1
  <2>2. i # j /\ ~ Place(R, at)[j] < Place(R, at)[i]
    BY <1>6, <2>1
  <2> QED BY <1>4, <2>2 DEF StrictOrder
<1>7. ASSUME NEW k \in 1..Cardinality(at) PROVE \E i \in at : Place(R, at)[i] = k
  <2> DEFINE place == Place(R, at)
  <2>1. place \in [at -> 1..Cardinality(at)]
    BY <1>3 DEF Place
  <2>2. place \in Injection(at, 1..Cardinality(at))
    BY <1>5, <2>1 DEF Injection, IsInjective
  <2>3. IsFiniteSet(1..Cardinality(at)) /\ Cardinality(1..Cardinality(at)) = Cardinality(at)
    BY <1>2, FS_Interval
  <2>4. place \in Surjection(at, 1..Cardinality(at))
    BY <2>2, <2>3, FS_Injection
  <2> QED BY <2>4 DEF Surjection
<1> QED BY <1>3, <1>4, <1>5, <1>6, <1>7

(* In particular each place is taken.                                      *)
LEMMA PlaceTaken ==
  ASSUME NEW at, IsFiniteSet(at), NEW R, StrictOrder(R, at), NEW k \in 1..Cardinality(at)
  PROVE  \E i \in at : Place(R, at)[i] = k
BY Placement

(* p goes through the elements of a set, each of them once. *)
Enumerates(p, at) ==
  /\ p \in [1..Cardinality(at) -> at]
  /\ \A k, l \in 1..Cardinality(at) : p[k] = p[l] => k = l
  /\ \A i \in at : \E k \in 1..Cardinality(at) : p[k] = i

(* p goes to each place. *)
Places(p, R, at) ==
  p \in [1..Cardinality(at) -> at] /\ \A k \in DOMAIN p : Place(R, at)[p[k]] = k

(* What is arranged by a strict order is in that order. *)
LEMMA ArrangementInOrder ==
  ASSUME NEW at, IsFiniteSet(at), NEW R, StrictOrder(R, at), NEW p, Places(p, R, at)
  PROVE  /\ Enumerates(p, at)
         /\ \A k, l \in DOMAIN p : k < l => <<p[k], p[l]>> \in R
<1> DEFINE n == Cardinality(at)
<1>1. PICK place : place = Place(R, at)
  OBVIOUS
<1>2. /\ \A i \in at : place[i] \in 1..n
      /\ \A i, j \in at : place[i] < place[j] <=> <<i, j>> \in R
      /\ \A i, j \in at : place[i] = place[j] => i = j
  BY <1>1, Placement
<1>3. p \in [1..n -> at] /\ \A k \in 1..n : p[k] \in at /\ place[p[k]] = k
  BY <1>1 DEF Places
<1>4. n \in Nat
  BY FS_CardinalityType
<1>5. \A i \in at : \E k \in 1..n : p[k] = i
  <2> SUFFICES ASSUME NEW i \in at PROVE p[place[i]] = i
    BY <1>2
  <2> QED BY <1>2, <1>3
<1> QED BY <1>2, <1>3, <1>4, <1>5 DEF Enumerates

-----------------------------------------------------------------------------
(* Parts of sequences                                                      *)

(* Min is the least number of a set.                                       *)
LEMMA MinIsLeast ==
  ASSUME NEW S, S \subseteq Nat, S # {}
  PROVE  Min(S) \in S /\ \A x \in S : Min(S) <= x
<1>1. PICK m \in S : \A k \in S : m <= k
  BY LeastExists
<1> QED BY <1>1 DEF Min

(* What is in front of a place, and what is from it on.                    *)
LEMMA PartsTyped ==
  ASSUME NEW S, NEW s \in Seq(S), NEW i \in 1..(Len(s) + 1)
  PROVE  /\ SubSeq(s, 1, i - 1) \in Seq(S) /\ Len(SubSeq(s, 1, i - 1)) = i - 1
         /\ \A j \in 1..(i - 1) : SubSeq(s, 1, i - 1)[j] = s[j]
         /\ SubSeq(s, i, Len(s)) \in Seq(S) /\ Len(SubSeq(s, i, Len(s))) = Len(s) + 1 - i
         /\ \A j \in 1..(Len(s) + 1 - i) : SubSeq(s, i, Len(s))[j] = s[i + j - 1]
<1>1. PICK n \in Nat : n = Len(s)
  OBVIOUS
<1>2. i \in Int /\ 1 \in Int /\ i - 1 \in Int /\ n \in Int
  BY <1>1
<1>3. \A j \in 1..(i - 1) : s[j] \in S
  BY <1>1
<1>4. \A j \in i..n : s[j] \in S
  BY <1>1
<1>5. /\ SubSeq(s, 1, i - 1) \in Seq(S)
      /\ Len(SubSeq(s, 1, i - 1)) = IF 1 <= i - 1 THEN (i - 1) - 1 + 1 ELSE 0
      /\ \A j \in 1..((i - 1) - 1 + 1) : SubSeq(s, 1, i - 1)[j] = s[1 + j - 1]
  BY <1>2, <1>3, SubSeqProperties
<1>6. /\ SubSeq(s, i, n) \in Seq(S)
      /\ Len(SubSeq(s, i, n)) = IF i <= n THEN n - i + 1 ELSE 0
      /\ \A j \in 1..(n - i + 1) : SubSeq(s, i, n)[j] = s[i + j - 1]
  BY <1>2, <1>4, SubSeqProperties
<1>7. Len(SubSeq(s, 1, i - 1)) = i - 1 /\ \A j \in 1..(i - 1) : SubSeq(s, 1, i - 1)[j] = s[j]
  <2>1. (i - 1) - 1 + 1 = i - 1 /\ (1 <= i - 1 \/ i - 1 = 0)
    BY <1>1
  <2>2. Len(SubSeq(s, 1, i - 1)) = i - 1
    BY <1>5, <2>1
  <2>3. \A j \in 1..(i - 1) : 1 + j - 1 = j
    OBVIOUS
  <2> QED BY <1>5, <2>1, <2>2, <2>3
<1>8. Len(SubSeq(s, i, n)) = n + 1 - i /\ \A j \in 1..(n + 1 - i) : SubSeq(s, i, n)[j] = s[i + j - 1]
  <2>1. n - i + 1 = n + 1 - i /\ (i <= n \/ n + 1 - i = 0)
    BY <1>1
  <2> QED BY <1>6, <2>1
<1> QED BY <1>1, <1>5, <1>6, <1>7, <1>8

(* f goes through some numbers from the least one on.                      *)
Ascends(f, at) ==
  /\ f \in [1..Cardinality(at) -> at]
  /\ \A k, l \in 1..Cardinality(at) : k < l => f[k] < f[l]
  /\ \A i \in at : \E k \in 1..Cardinality(at) : f[k] = i

(* To count the numbers that are no greater is a way to do so.             *)
LEMMA TakenInOrder ==
  ASSUME NEW n \in Nat, NEW at, at \subseteq 1..n,
         NEW f, f = [k \in 1..Cardinality(at) |-> CHOOSE i \in at : Cardinality({j \in at : j <= i}) = k]
  PROVE  Cardinality(at) \in Nat /\ Ascends(f, at)
<1> DEFINE Less == {r \in at \X at : r[1] < r[2]}
<1>1. IsFiniteSet(at)
  <2>1. IsFiniteSet(1..n)
    BY FS_Interval
  <2> QED BY <2>1, FS_Subset
<1>2. Cardinality(at) \in Nat
  BY <1>1, FS_CardinalityType
<1>3. \A i, j \in at : <<i, j>> \in Less <=> i < j
  OBVIOUS
<1>4. \A i \in at : UpTo(Less, at, i) = {j \in at : j <= i}
  <2> SUFFICES ASSUME NEW i \in at PROVE \A j \in at : (j = i \/ <<j, i>> \in Less) <=> j <= i
    BY DEF UpTo
  <2> HIDE DEF Less
  <2> QED BY <1>3
<1>5. StrictOrder(Less, at)
  <2> HIDE DEF Less
  <2> QED BY <1>3 DEF StrictOrder
<1>6. PICK order : order = Less /\ StrictOrder(order, at)
  BY <1>5
<1> HIDE DEF Less
<1>16. IsFiniteSet(at) /\ StrictOrder(order, at)
  BY <1>1, <1>6
<1>7. /\ \A i \in at : Place(order, at)[i] \in 1..Cardinality(at)
      /\ \A i, j \in at : Place(order, at)[i] < Place(order, at)[j] <=> <<i, j>> \in order
      /\ \A i, j \in at : Place(order, at)[i] = Place(order, at)[j] => i = j
      /\ \A k \in 1..Cardinality(at) : \E i \in at : Place(order, at)[i] = k
  <2>1. PICK place : place = Place(order, at)
    OBVIOUS
  <2>2. \A i \in at : place[i] \in 1..Cardinality(at)
    BY <1>16, <2>1, Placement
  <2>3. \A i, j \in at : place[i] < place[j] <=> <<i, j>> \in order
    BY <1>16, <2>1, Placement
  <2>4. \A i, j \in at : place[i] = place[j] => i = j
    BY <1>16, <2>1, Placement
  <2>5. ASSUME NEW k \in 1..Cardinality(at) PROVE \E i \in at : place[i] = k
    <3>1. \E i \in at : Place(order, at)[i] = k
      BY <1>16, PlaceTaken
    <3> QED BY <2>1, <3>1
  <2> QED BY <2>1, <2>2, <2>3, <2>4, <2>5
<1>8. \A i \in at : Place(order, at)[i] = Cardinality({j \in at : j <= i})
  <2> HIDE DEF Less
  <2> QED BY <1>4, <1>6 DEF Place
<1>9. \A k \in 1..Cardinality(at) : f[k] \in at /\ Place(order, at)[f[k]] = k
  <2> HIDE DEF Less
  <2> SUFFICES ASSUME NEW k \in 1..Cardinality(at) PROVE f[k] \in at /\ Place(order, at)[f[k]] = k
    OBVIOUS
  <2>1. \E i \in at : Cardinality({j \in at : j <= i}) = k
    BY <1>7, <1>8
  <2> QED BY <1>8, <2>1
<1>10. Places(f, order, at)
  <2> HIDE DEF Less
  <2>1. f \in [1..Cardinality(at) -> at]
    BY <1>9
  <2> QED BY <1>9, <2>1 DEF Places
<1>11. Enumerates(f, at) /\ \A k, l \in DOMAIN f : k < l => <<f[k], f[l]>> \in order
  <2>1. IsFiniteSet(at) /\ StrictOrder(order, at) /\ Places(f, order, at)
    BY <1>10, <1>16
  <2> QED BY <2>1, ArrangementInOrder
<1>12. f \in [1..Cardinality(at) -> at] /\ \A i \in at : \E k \in 1..Cardinality(at) : f[k] = i
  BY <1>11 DEF Enumerates
<1>13. ASSUME NEW k \in 1..Cardinality(at), NEW l \in 1..Cardinality(at), k < l PROVE f[k] < f[l]
  <2>1. <<f[k], f[l]>> \in order /\ f[k] \in at /\ f[l] \in at
    BY <1>11, <1>12, <1>13
  <2> QED BY <1>3, <1>6, <2>1
<1> QED BY <1>2, <1>12, <1>13 DEF Ascends

-----------------------------------------------------------------------------
(* One sequence out of many                                                *)

(* What FlattenSeq computes on its way.                                    *)
Flattens(f, s, n) ==
  f = [i \in 1..n |-> IF i = 1 THEN s[i] ELSE f[i - 1] \o s[i]]

(* There is such a function.                                               *)
LEMMA FlattenExists ==
  ASSUME NEW S, NEW s \in Seq(Seq(S))
  PROVE  \E f \in [1..Len(s) -> Seq(S)] : Flattens(f, s, Len(s))
<1> DEFINE Good(k) == \E f \in [1..k -> Seq(S)] : Flattens(f, s, k)
           Bad == {k \in 0..Len(s) : ~ Good(k)}
<1> SUFFICES ASSUME Bad # {} PROVE FALSE
  <2>1. Len(s) \in 0..Len(s)
    OBVIOUS
  <2> HIDE DEF Good
  <2>2. Bad = {} => Good(Len(s))
    BY <2>1
  <2> USE DEF Good
  <2> QED BY <2>2
<1>1. PICK k \in Bad : \A j \in Bad : k <= j
  <2>1. Bad \subseteq Nat
    OBVIOUS
  <2> HIDE DEF Bad
  <2> QED BY <2>1, LeastExists
<1>2. k \in 0..Len(s) /\ ~ Good(k)
  <2>1. k \in Bad
    BY <1>1
  <2> HIDE DEF Good
  <2> QED BY <2>1
<1>3. k # 0
  <2> SUFFICES ASSUME k = 0 PROVE FALSE
    OBVIOUS
  <2>1. 1..k = {}
    OBVIOUS
  <2>2. PICK f : f = [i \in 1..k |-> <<>>]
    OBVIOUS
  <2>3. f \in [1..k -> Seq(S)] /\ Flattens(f, s, k)
    BY <2>1, <2>2 DEF Flattens
  <2> QED BY <1>2, <2>3
<1>4. PICK j \in 0..Len(s) : j = k - 1 /\ k = j + 1 /\ Good(j)
  <2>1. k - 1 \in 0..Len(s) /\ k = (k - 1) + 1
    BY <1>2, <1>3
  <2>2. ~ k <= k - 1
    BY <1>2
  <2>3. k - 1 \notin Bad
    BY <1>1, <2>2
  <2> QED BY <2>1, <2>3
<1>5. PICK old \in [1..j -> Seq(S)] : Flattens(old, s, j)
  BY <1>4
<1>6. 1..k = (1..j) \cup {k} /\ k \notin 1..j /\ k \in 1..Len(s) /\ s[k] \in Seq(S)
      /\ (k # 1 => j \in 1..j) /\ j = k - 1
  BY <1>2, <1>4
<1>7. PICK new \in Seq(S) : new = IF k = 1 THEN s[k] ELSE old[j] \o s[k]
  <2>1. k # 1 => old[j] \in Seq(S)
    BY <1>6
  <2>2. k # 1 => old[j] \o s[k] \in Seq(S)
    BY <1>6, <2>1, ConcatProperties
  <2> QED BY <1>6, <2>2
<1>8. PICK f : f = [i \in 1..k |-> IF i = k THEN new ELSE old[i]]
  OBVIOUS
<1>9. f \in [1..k -> Seq(S)]
  BY <1>6, <1>8
<1>10. ASSUME NEW i \in 1..k PROVE f[i] = IF i = 1 THEN s[i] ELSE f[i - 1] \o s[i]
  <2>1. CASE i = k
    <3>1. k # 1 => f[k - 1] = old[j]
      BY <1>6, <1>8
    <3> QED BY <1>7, <1>8, <2>1, <3>1
  <2>2. CASE i # k
    <3>1. i \in 1..j /\ (i # 1 => i - 1 \in 1..k /\ i - 1 # k)
      BY <1>6, <2>2
    <3>2. old[i] = IF i = 1 THEN s[i] ELSE old[i - 1] \o s[i]
      BY <1>5, <3>1 DEF Flattens
    <3> QED BY <1>8, <2>2, <3>1, <3>2
  <2> QED BY <2>1, <2>2
<1>11. Flattens(f, s, k)
  <2>1. f = [i \in 1..k |-> f[i]]
    BY <1>9
  <2> QED BY <1>10, <2>1 DEF Flattens
<1> QED BY <1>2, <1>9, <1>11

(* FlattenSeq gives the last of them.                                      *)
LEMMA Flattened ==
  ASSUME NEW S, NEW s \in Seq(Seq(S)), s # <<>>
  PROVE  \E f \in [1..Len(s) -> Seq(S)] : Flattens(f, s, Len(s)) /\ FlattenSeq(s) = f[Len(s)]
<1>1. PICK n \in Nat : n = Len(s) /\ n # 0 /\ DOMAIN s = 1..n /\ \A i \in 1..n : s[i] \in Seq(S)
  OBVIOUS
<1> DEFINE G(f) == f = [i \in 1..n |-> IF i = 1 THEN s[i] ELSE f[i - 1] \o s[i]]
<1>2. PICK f : f = (CHOOSE g : G(g))
  OBVIOUS
<1>3. FlattenSeq(s) = f[n]
  BY <1>1, <1>2 DEF FlattenSeq
<1>4. \E g : G(g)
  <2>1. PICK g \in [1..Len(s) -> Seq(S)] : Flattens(g, s, Len(s))
    BY FlattenExists
  <2> QED BY <1>1, <2>1 DEF Flattens
<1>5. G(f)
  <2> HIDE DEF G
  <2> QED BY <1>2, <1>4
<1>6. \A i \in 1..n : f[i] = IF i = 1 THEN s[i] ELSE f[i - 1] \o s[i]
  <2> DEFINE H(i) == IF i = 1 THEN s[i] ELSE f[i - 1] \o s[i]
  <2>1. f = [i \in 1..n |-> H(i)]
    BY <1>5
  <2>2. \A i \in 1..n : f[i] = H(i)
    <3> HIDE DEF H
    <3> QED BY <2>1
  <2> QED BY <2>2
<1>7. ASSUME NEW j \in 1..n PROVE f[j] \in Seq(S)
  <2> DEFINE Bad == {i \in 1..n : f[i] \notin Seq(S)}
  <2> SUFFICES ASSUME Bad # {} PROVE FALSE
    OBVIOUS
  <2>1. PICK i \in Bad : \A l \in Bad : i <= l
    <3>1. Bad \subseteq Nat
      OBVIOUS
    <3> HIDE DEF Bad
    <3> QED BY <3>1, LeastExists
  <2>2. i \in 1..n /\ f[i] \notin Seq(S) /\ s[i] \in Seq(S)
    BY <1>1, <2>1
  <2>3. i # 1
    BY <1>6, <2>2
  <2>4. i - 1 \in 1..n /\ ~ i <= i - 1
    BY <2>2, <2>3
  <2>5. f[i - 1] \in Seq(S)
    BY <2>1, <2>4
  <2>6. f[i] = f[i - 1] \o s[i]
    BY <1>6, <2>2, <2>3
  <2> QED BY <2>2, <2>5, <2>6, ConcatProperties
<1>8. f \in [1..n -> Seq(S)]
  <2>1. f = [i \in 1..n |-> f[i]]
    BY <1>5
  <2> QED BY <1>7, <2>1
<1>9. Flattens(f, s, n)
  BY <1>5 DEF Flattens
<1> QED BY <1>1, <1>3, <1>8, <1>9

(* One sequence out of many has elements of theirs.                        *)
LEMMA FlattenTyped ==
  ASSUME NEW S, NEW s \in Seq(Seq(S))
  PROVE  FlattenSeq(s) \in Seq(S)
<1>1. CASE s = <<>>
  <2>1. Len(s) = 0
    BY <1>1
  <2>2. FlattenSeq(s) = s
    BY <2>1 DEF FlattenSeq
  <2>3. s \in Seq(S)
    BY <1>1
  <2> QED BY <2>2, <2>3
<1>2. CASE s # <<>>
  <2>1. PICK f \in [1..Len(s) -> Seq(S)] : Flattens(f, s, Len(s)) /\ FlattenSeq(s) = f[Len(s)]
    BY <1>2, Flattened
  <2>2. Len(s) \in 1..Len(s)
    BY <1>2
  <2> QED BY <2>1, <2>2
<1> QED BY <1>1, <1>2

(* One sequence out of one or none.                                        *)
LEMMA FlattenOne ==
  ASSUME NEW S, NEW x \in Seq(S)
  PROVE  FlattenSeq(<<x>>) = x /\ FlattenSeq(<<>>) = <<>>
<1>1. FlattenSeq(<<>>) = <<>>
  BY DEF FlattenSeq
<1>2. PICK s : s = <<x>>
  OBVIOUS
<1>3. s \in Seq(Seq(S)) /\ s # <<>> /\ Len(s) = 1 /\ s[1] = x
  BY <1>2
<1>4. PICK f \in [1..Len(s) -> Seq(S)] : Flattens(f, s, Len(s)) /\ FlattenSeq(s) = f[Len(s)]
  BY <1>3, Flattened
<1>5. f[1] = s[1]
  BY <1>3, <1>4 DEF Flattens
<1> QED BY <1>1, <1>2, <1>3, <1>4, <1>5

-----------------------------------------------------------------------------
(* Folds                                                                   *)

(* What a fold from the left computes for each subset of a sequence's      *)
(* places: it takes off the last one.                                      *)
Folds(it, n, b, F) ==
  it = [s \in SUBSET (1..n) |-> IF s = {} THEN b ELSE F[<<it[s \ {Max(s)}], Max(s)>>]]

(* There is such a function. *)
LEMMA FoldExists ==
  ASSUME NEW n \in Nat, NEW A, NEW b \in A, NEW F \in [A \X (1..n) -> A]
  PROVE  \E it \in [SUBSET (1..n) -> A] : Folds(it, n, b, F)
<1> DEFINE Good(k) == \E it \in [SUBSET (1..k) -> A] : Folds(it, k, b, F)
           Bad == {k \in 0..n : ~ Good(k)}
<1> SUFFICES ASSUME Bad # {} PROVE FALSE
  <2>1. n \in 0..n
    OBVIOUS
  <2> HIDE DEF Good
  <2>2. Bad = {} => Good(n)
    BY <2>1
  <2> USE DEF Good
  <2> QED BY <2>2
<1>1. PICK k \in Bad : \A j \in Bad : k <= j
  <2>1. Bad \subseteq Nat
    OBVIOUS
  <2> HIDE DEF Bad
  <2> QED BY <2>1, LeastExists
<1>2. k \in 0..n /\ ~ Good(k)
  <2>1. k \in Bad
    BY <1>1
  <2> HIDE DEF Good
  <2> QED BY <2>1
<1>3. k # 0
  <2> SUFFICES ASSUME k = 0 PROVE FALSE
    OBVIOUS
  <2>1. 1..k = {}
    OBVIOUS
  <2>2. PICK it : it = [s \in SUBSET (1..k) |-> b]
    OBVIOUS
  <2>3. it \in [SUBSET (1..k) -> A]
    BY <2>2
  <2>4. Folds(it, k, b, F)
    BY <2>1, <2>2 DEF Folds
  <2> QED BY <1>2, <2>3, <2>4
<1>4. PICK j \in 0..n : j = k - 1 /\ k = j + 1 /\ Good(j)
  <2>1. k - 1 \in 0..n /\ k = (k - 1) + 1
    BY <1>2, <1>3
  <2>2. ~ k <= k - 1
    BY <1>2
  <2>3. k - 1 \notin Bad
    BY <1>1, <2>2
  <2> QED BY <2>1, <2>3
<1>5. PICK old \in [SUBSET (1..j) -> A] : Folds(old, j, b, F)
  BY <1>4
<1>6. 1..k = (1..j) \cup {k} /\ k \notin 1..j /\ k \in 1..n
  BY <1>2, <1>4
<1>7. PICK it : it = [s \in SUBSET (1..k) |->
                        IF k \in s THEN F[<<old[s \ {k}], k>>] ELSE old[s]]
  OBVIOUS
<1>8. ASSUME NEW s \in SUBSET (1..k) PROVE s \ {k} \in SUBSET (1..j) /\ (k \notin s => s \in SUBSET (1..j))
  BY <1>6
<1>9. it \in [SUBSET (1..k) -> A]
  <2> SUFFICES ASSUME NEW s \in SUBSET (1..k)
               PROVE  (IF k \in s THEN F[<<old[s \ {k}], k>>] ELSE old[s]) \in A
    BY <1>7
  <2>1. old[s \ {k}] \in A
    BY <1>8
  <2>2. CASE k \in s
    <3>1. <<old[s \ {k}], k>> \in A \X (1..n)
      BY <1>6, <2>1
    <3> QED BY <2>2, <3>1
  <2>3. CASE k \notin s
    BY <1>8, <2>3
  <2> QED BY <2>2, <2>3
<1>10. ASSUME NEW s \in SUBSET (1..k)
       PROVE  it[s] = IF s = {} THEN b ELSE F[<<it[s \ {Max(s)}], Max(s)>>]
  <2>1. CASE s = {}
    BY <1>5, <1>7, <2>1 DEF Folds
  <2>2. s # {} => Max(s) \in s /\ \A x \in s : x <= Max(s)
    <3>1. s \subseteq 0..k /\ k \in Nat
      BY <1>2
    <3> QED BY <3>1, GreatestExists
  <2>3. CASE k \in s
    <3>1. Max(s) = k
      <4>1. k <= Max(s) /\ Max(s) \in 1..k
        BY <2>2, <2>3
      <4> QED BY <1>2, <4>1
    <3>2. it[s \ {k}] = old[s \ {k}]
      <4>1. s \ {k} \in SUBSET (1..k)
        OBVIOUS
      <4> QED BY <1>7, <4>1
    <3>3. it[s] = F[<<old[s \ {k}], k>>]
      BY <1>7, <2>3
    <3> QED BY <2>3, <3>1, <3>2, <3>3
  <2>4. CASE k \notin s /\ s # {}
    <3>1. s \in SUBSET (1..j) /\ s \ {Max(s)} \in SUBSET (1..j) /\ s \ {Max(s)} \in SUBSET (1..k)
      BY <1>8, <2>4
    <3>2. old[s] = F[<<old[s \ {Max(s)}], Max(s)>>]
      BY <1>5, <2>4, <3>1 DEF Folds
    <3>3. it[s] = old[s] /\ it[s \ {Max(s)}] = old[s \ {Max(s)}]
      BY <1>7, <2>4, <3>1
    <3> QED BY <2>4, <3>2, <3>3
  <2> QED BY <2>1, <2>3, <2>4
<1>11. Folds(it, k, b, F)
  <2>1. it = [s \in SUBSET (1..k) |-> it[s]]
    BY <1>9
  <2> QED BY <1>10, <2>1 DEF Folds
<1> QED BY <1>2, <1>9, <1>11
=============================================================================
