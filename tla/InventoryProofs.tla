---------------------------- MODULE InventoryProofs ----------------------------
(***************************************************************************)
(* Proofs about Inventory, for every tree, every root and any changes of   *)
(* the tree during the walk: what is counted, and when the walk fails.     *)
(***************************************************************************)
EXTENDS Inventory, TLAPS, SequenceTheorems, FunctionTheorems, FiniteSetTheorems,
        WellFoundedInduction

-----------------------------------------------------------------------------
(* The inductive invariant.  CountsWhatStays compares numbers, and only at *)
(* the end; while the walk goes on it is sets of entries that matter: what *)
(* has been counted, and what the tasks that are left will still meet.     *)

(* Everything that ever was in the tree.                                   *)
Seen == before \cup come

(* The entries that a task leads to, now or by the tasks it is replaced by.*)
Owns(t, n) == t.entry \in Above[n] /\ (t.do # "visit" => t.entry # n)

(* A task is about an entry that was there, inside of the root, and not in *)
(* or below a .git directory.                                              *)
Due(t) ==
  /\ t.entry \in Seen
  /\ t.do = "root" => t.entry = root /\ Kind[root] # "file"
  /\ t.do = "list" =>
       Kind[t.entry] = "directory" /\ root \in Above[t.entry] /\ ~Excluded(t.entry)
  /\ t.do = "visit" =>
       IF Kind[root] = "file" THEN t.entry = root
       ELSE /\ t.entry # Top
            /\ root \in Above[Parent[t.entry]] /\ ~Excluded(Parent[t.entry])

(* The tree remembers what has become of it.                               *)
Remembered ==
  Seen \ gone \subseteq present /\ present \subseteq Seen /\ barred \subseteq refused

OnlyWalking ==
  /\ pc # "walk" => pending = <<>>
  /\ pc = "stat" => metrics = Nothing

(* No two tasks lead to the same entry.                                    *)
Apart ==
  \A i, j \in 1..Len(pending), n \in Entries :
    Owns(pending[i], n) /\ Owns(pending[j], n) => i = j

(* V is what has been counted: entries that were there, which no task will *)
(* meet again; what stays and is not among them is still to come.          *)
IsCounted(V) ==
  /\ V \in SUBSET Counted(Seen)
  /\ metrics = MetricsOf(V)
  /\ \A i \in 1..Len(pending), n \in V : ~Owns(pending[i], n)
  /\ pc \in {"walk", "done"} =>
       \A n \in Counted(before \ gone) :
         n \in V \/ \E i \in 1..Len(pending) : Owns(pending[i], n)

WalkInv ==
  /\ TypeOK
  /\ Remembered
  /\ OnlyWalking
  /\ \A i \in 1..Len(pending) : Due(pending[i])
  /\ Apart
  /\ \E V \in SUBSET Entries : IsCounted(V)
  /\ FailsOnlyWhenDisturbed

-----------------------------------------------------------------------------
(* The tree.                                                               *)

LEMMA TreeShape ==
  /\ Order \in Seq(Entries) /\ Len(Order) \in Nat /\ DOMAIN Order = 1..Len(Order)
  /\ Top \in Entries /\ Roots \subseteq Entries
  /\ \A n \in Entries \ {Top} : Parent[n] \in Entries /\ Kind[Parent[n]] = "directory"
  /\ \A n \in Entries : Kind[n] \in {"directory", "file", "link"}
  /\ \A n \in Entries : Content[n] \in Seq({Newline, "other"})
  /\ \A n \in Entries : Extension[n] \in {".go", ".gooo", ""}
<1>1. Order \in Seq(Entries)
  BY InventoryAssumption
<1>2. Len(Order) \in Nat /\ DOMAIN Order = 1..Len(Order)
  BY <1>1, LenProperties
<1> QED BY <1>1, <1>2, InventoryAssumption

LEMMA OrderShape ==
  /\ \A j \in 1..Len(Order), k \in 1..Len(Order) : Order[j] = Order[k] => j = k
  /\ \A k \in 1..Len(Order) :
       Order[k] # Top => \E j \in 1..(k - 1) : Order[j] = Parent[Order[k]]
<1>1. DOMAIN Order = 1..Len(Order)
  BY TreeShape
<1> QED BY <1>1, InventoryAssumption, Zenon

LEMMA EntriesFinite == IsFiniteSet(Entries)
<1> DEFINE f == [k \in 1..Len(Order) |-> Order[k]]
<1>1. f \in Surjection(1..Len(Order), Entries)
  BY TreeShape DEF Surjection, Entries
<1>2. ExistsSurjection(1..Len(Order), Entries)
  BY <1>1 DEF ExistsSurjection
<1> QED BY <1>2, TreeShape, FS_NatSurjection

LEMMA PlaceType ==
  ASSUME NEW n \in Entries
  PROVE  /\ Place(n) \in 1..Len(Order) /\ Order[Place(n)] = n
         /\ \A k \in 1..Len(Order) : Order[k] = n => k = Place(n)
<1>1. \E k \in DOMAIN Order : Order[k] = n
  BY DEF Entries
<1>2. Place(n) \in DOMAIN Order /\ Order[Place(n)] = n
  BY <1>1 DEF Place
<1>3. Place(n) \in 1..Len(Order) /\ Order[Place(n)] = n
  BY <1>2, TreeShape
<1> QED BY <1>3, OrderShape, Zenon

LEMMA PlaceDiffers ==
  ASSUME NEW m \in Entries, NEW n \in Entries, Place(m) = Place(n)
  PROVE  m = n
BY PlaceType

LEMMA ParentBefore ==
  ASSUME NEW n \in Entries, n # Top
  PROVE  Place(Parent[n]) < Place(n)
<1>1. Place(n) \in 1..Len(Order) /\ Order[Place(n)] = n
  BY PlaceType
<1>2. PICK j \in 1..(Place(n) - 1) : Order[j] = Parent[n]
  BY <1>1, OrderShape, Zenon
<1>3. j \in 1..Len(Order) /\ j < Place(n)
  <2>1. Len(Order) \in Nat
    BY TreeShape
  <2>2. j \in Int /\ 1 <= j /\ j <= Place(n) - 1
    BY <1>1
  <2> QED BY <1>1, <2>1, <2>2
<1>4. j = Place(Parent[n])
  <2>1. Parent[n] \in Entries
    BY TreeShape
  <2> QED BY <1>2, <1>3, <2>1, PlaceType
<1> QED BY <1>3, <1>4

(* The equation of Above has a solution: the least sets that contain an    *)
(* entry and, with every entry but the top, its directory.                 *)
Upward(S) == \A k \in S \ {Top} : Parent[k] \in S

LeastAbove(n) ==
  {m \in Entries : \A S \in SUBSET Entries : n \in S /\ Upward(S) => m \in S}

LEMMA LeastAboveSolves ==
  ASSUME NEW n \in Entries
  PROVE  LeastAbove(n) = {n} \cup (IF n = Top THEN {} ELSE LeastAbove(Parent[n]))
<1>1. n \in LeastAbove(n)
  BY DEF LeastAbove
<1>2. CASE n = Top
  <2>1. {n} \in SUBSET Entries /\ n \in {n} /\ Upward({n})
    BY <1>2 DEF Upward
  <2>2. LeastAbove(n) \subseteq {n}
    BY <2>1 DEF LeastAbove
  <2> QED BY <1>1, <1>2, <2>2
<1>3. CASE n # Top
  <2>1. Parent[n] \in Entries
    BY <1>3, TreeShape
  <2>2. ASSUME NEW m \in LeastAbove(Parent[n]) PROVE m \in LeastAbove(n)
    <3>1. ASSUME NEW S \in SUBSET Entries, n \in S, Upward(S) PROVE m \in S
      <4>1. Parent[n] \in S
        BY <1>3, <3>1 DEF Upward
      <4> QED BY <2>2, <3>1, <4>1 DEF LeastAbove
    <3> QED BY <2>2, <3>1 DEF LeastAbove
  <2>3. ASSUME NEW m \in LeastAbove(n), m # n, m \notin LeastAbove(Parent[n])
        PROVE  FALSE
    <3>1. PICK S \in SUBSET Entries : Parent[n] \in S /\ Upward(S) /\ m \notin S
      BY <2>3 DEF LeastAbove
    <3>2. S \cup {n} \in SUBSET Entries /\ Upward(S \cup {n})
      BY <3>1 DEF Upward
    <3> QED BY <2>3, <3>1, <3>2 DEF LeastAbove
  <2> QED BY <1>1, <1>3, <2>2, <2>3
<1> QED BY <1>2, <1>3

LEMMA AboveDef ==
  ASSUME NEW n \in Entries
  PROVE  Above[n] = {n} \cup (IF n = Top THEN {} ELSE Above[Parent[n]])
<1> DEFINE Solves(up) ==
             up = [m \in Entries |-> {m} \cup (IF m = Top THEN {} ELSE up[Parent[m]])]
           least == [m \in Entries |-> LeastAbove(m)]
<1>1. Solves(least)
  <2>1. ASSUME NEW m \in Entries
        PROVE  least[m] = {m} \cup (IF m = Top THEN {} ELSE least[Parent[m]])
    <3>1. CASE m = Top
      BY <3>1, LeastAboveSolves
    <3>2. CASE m # Top
      <4>1. Parent[m] \in Entries
        BY <3>2, TreeShape
      <4> QED BY <3>2, <4>1, LeastAboveSolves
    <3> QED BY <3>1, <3>2
  <2> QED BY <2>1, Zenon
<1>2. Above = CHOOSE up : Solves(up)
  BY DEF Above
<1>3. Solves(Above)
  <2> HIDE DEF Solves, least
  <2> QED BY <1>1, <1>2, Zenon
<1> QED BY <1>3

LEMMA AboveSelf ==
  ASSUME NEW n \in Entries
  PROVE  n \in Above[n]
BY AboveDef

LEMMA AboveParent ==
  ASSUME NEW n \in Entries, n # Top
  PROVE  /\ Parent[n] \in Entries /\ Parent[n] \in Above[n]
         /\ Above[n] = {n} \cup Above[Parent[n]]
<1>1. Parent[n] \in Entries
  BY TreeShape
<1>2. Above[n] = {n} \cup Above[Parent[n]]
  BY AboveDef
<1> QED BY <1>1, <1>2, AboveSelf

LEMMA AboveTop == Above[Top] = {Top}
BY AboveDef, TreeShape

(* A non-empty set of naturals has a least element.                        *)
LEMMA LeastExists ==
  ASSUME NEW ks \in SUBSET Nat, ks # {}
  PROVE  \E k \in ks : \A j \in ks : k <= j
<1> DEFINE less == {p \in Nat \X Nat : p[1] < p[2]}
<1>1. IsWellFoundedOn(less, Nat)
  BY NatLessThanWellFounded DEF OpToRel
<1>2. PICK x \in ks : \A y \in ks : <<y, x>> \notin less
  <2> HIDE DEF less
  <2> QED BY <1>1, WFMin
<1>3. ASSUME NEW y \in ks PROVE x <= y
  <2>1. x \in Nat /\ y \in Nat
    OBVIOUS
  <2>2. <<y, x>> \notin less
    BY <1>2
  <2> QED BY <2>1, <2>2 DEF less
<1> QED BY <1>2, <1>3

(* What is above an entry is in every set that contains the entry and,     *)
(* with every entry but the top, its directory.                            *)
LEMMA AboveWithin ==
  ASSUME NEW S \in SUBSET Entries, Upward(S), NEW n \in S
  PROVE  Above[n] \subseteq S
<1> DEFINE bad == {m \in S : ~(Above[m] \subseteq S)}
           ks  == {Place(m) : m \in bad}
<1>1. SUFFICES ASSUME bad # {} PROVE FALSE
  OBVIOUS
<1>2. ks \in SUBSET Nat /\ ks # {}
  <2>1. \A m \in bad : Place(m) \in Nat
    BY PlaceType
  <2> HIDE DEF bad
  <2> QED BY <1>1, <2>1
<1>3. PICK k \in ks : \A j \in ks : k <= j
  <2> HIDE DEF ks
  <2> QED BY <1>2, LeastExists
<1>4. PICK m \in bad : k = Place(m)
  BY <1>3
<1>5. m \in S /\ m \in Entries /\ ~(Above[m] \subseteq S)
  BY <1>4
<1>6. m # Top
  BY <1>5, AboveTop
<1>7. Parent[m] \in S /\ Parent[m] \in Entries
  BY <1>5, <1>6 DEF Upward
<1>8. Parent[m] \in bad
  <2>1. Above[m] = {m} \cup Above[Parent[m]]
    BY <1>5, <1>6, AboveParent
  <2> QED BY <1>5, <1>7, <2>1
<1>9. Place(m) <= Place(Parent[m])
  BY <1>3, <1>4, <1>8
<1>10. Place(Parent[m]) < Place(m)
  BY <1>5, <1>6, ParentBefore
<1>11. Place(m) \in Int /\ Place(Parent[m]) \in Int
  BY <1>5, <1>7, PlaceType
<1> QED BY <1>9, <1>10, <1>11

LEMMA AboveInside ==
  ASSUME NEW n \in Entries
  PROVE  Above[n] \in SUBSET Entries
<1>1. Entries \in SUBSET Entries /\ Upward(Entries)
  BY TreeShape DEF Upward
<1> QED BY <1>1, AboveWithin

LEMMA AboveTransitive ==
  ASSUME NEW n \in Entries, NEW m \in Above[n]
  PROVE  m \in Entries /\ Above[m] \subseteq Above[n]
<1> DEFINE S == {x \in Entries : Above[x] \subseteq Above[n]}
<1>1. Upward(S)
  <2>1. ASSUME NEW k \in S, k # Top PROVE Parent[k] \in S
    BY <2>1, AboveParent
  <2> QED BY <2>1 DEF Upward
<1>2. n \in S /\ S \in SUBSET Entries
  OBVIOUS
<1>3. Above[n] \subseteq S
  <2> HIDE DEF S
  <2> QED BY <1>1, <1>2, AboveWithin
<1> QED BY <1>3

LEMMA AboveBefore ==
  ASSUME NEW n \in Entries, NEW m \in Above[n], m # n
  PROVE  Place(m) < Place(n)
<1> DEFINE S == {x \in Entries : Place(x) < Place(n) \/ x = n}
<1>1. Upward(S)
  <2>1. ASSUME NEW k \in S, k # Top PROVE Parent[k] \in S
    <3>1. k \in Entries /\ Parent[k] \in Entries /\ Place(Parent[k]) < Place(k)
      BY <2>1, TreeShape, ParentBefore
    <3>2. Place(k) \in Int /\ Place(n) \in Int /\ Place(Parent[k]) \in Int
      BY <3>1, PlaceType
    <3>3. Place(k) < Place(n) \/ k = n
      BY <2>1
    <3> QED BY <3>1, <3>2, <3>3
  <2> QED BY <2>1 DEF Upward
<1>2. n \in S /\ S \in SUBSET Entries
  OBVIOUS
<1>3. Above[n] \subseteq S
  <2> HIDE DEF S
  <2> QED BY <1>1, <1>2, AboveWithin
<1> QED BY <1>3

LEMMA AboveAntisymmetric ==
  ASSUME NEW n \in Entries, NEW m \in Above[n], n \in Above[m]
  PROVE  m = n
<1>1. m \in Entries
  BY AboveTransitive
<1>2. SUFFICES ASSUME m # n PROVE FALSE
  OBVIOUS
<1>3. Place(m) < Place(n) /\ Place(n) < Place(m)
  BY <1>1, <1>2, AboveBefore
<1>4. Place(m) \in Int /\ Place(n) \in Int
  BY <1>1, PlaceType
<1> QED BY <1>3, <1>4

(* What is above one entry is in one line.                                 *)
LEMMA AboveChain ==
  ASSUME NEW n \in Entries, NEW m \in Above[n], NEW k \in Above[n]
  PROVE  k \in Above[m] \/ m \in Above[k]
<1> DEFINE S == {x \in Entries : x \in Above[m] \/ m \in Above[x]}
<1>0. m \in Entries
  BY AboveTransitive
<1>1. Upward(S)
  <2>1. ASSUME NEW x \in S, x # Top PROVE Parent[x] \in S
    <3>1. x \in Entries /\ Parent[x] \in Entries /\ Parent[x] \in Above[x]
          /\ Above[x] = {x} \cup Above[Parent[x]]
      BY <2>1, AboveParent
    <3>2. CASE x \in Above[m]
      BY <1>0, <3>1, <3>2, AboveTransitive
    <3>3. CASE m \in Above[x]
      <4>1. CASE m = x
        BY <1>0, <3>1, <4>1
      <4>2. CASE m \in Above[Parent[x]]
        BY <3>1, <4>2
      <4> QED BY <3>1, <3>3, <4>1, <4>2
    <3> QED BY <2>1, <3>2, <3>3
  <2> QED BY <2>1 DEF Upward
<1>2. n \in S /\ S \in SUBSET Entries
  OBVIOUS
<1>3. Above[n] \subseteq S
  <2> HIDE DEF S
  <2> QED BY <1>1, <1>2, AboveWithin
<1> QED BY <1>3

LEMMA AboveDirectory ==
  ASSUME NEW n \in Entries, NEW m \in Above[n], m # n
  PROVE  Kind[m] = "directory"
<1> DEFINE S == {x \in Entries : x = n \/ Kind[x] = "directory"}
<1>1. Upward(S)
  BY TreeShape DEF Upward
<1>2. n \in S /\ S \in SUBSET Entries
  OBVIOUS
<1>3. Above[n] \subseteq S
  <2> HIDE DEF S
  <2> QED BY <1>1, <1>2, AboveWithin
<1> QED BY <1>3

LEMMA ChildrenType ==
  ASSUME NEW d \in Entries, NEW c \in Children(d)
  PROVE  /\ c \in Entries /\ c # Top /\ Parent[c] = d
         /\ d \in Above[c] /\ d # c /\ Above[c] = {c} \cup Above[d]
<1>1. c \in Entries /\ c # Top /\ Parent[c] = d
  BY DEF Children
<1>2. d \in Above[c] /\ Above[c] = {c} \cup Above[d]
  BY <1>1, AboveParent
<1>3. Place(d) < Place(c) /\ Place(d) \in Int /\ Place(c) \in Int
  BY <1>1, ParentBefore, PlaceType
<1> QED BY <1>1, <1>2, <1>3

(* Two entries of one directory have nothing in common below them.         *)
LEMMA SiblingsApart ==
  ASSUME NEW d \in Entries, NEW b \in Children(d), NEW c \in Children(d),
         NEW n \in Entries, b \in Above[n], c \in Above[n]
  PROVE  b = c
<1>1. SUFFICES ASSUME NEW x \in Children(d), NEW y \in Children(d), x \in Above[y]
               PROVE  x = y
  <2>1. b \in Above[c] \/ c \in Above[b]
    BY AboveChain
  <2> QED BY <1>1, <2>1
<1>2. x \in {y} \cup Above[d]
  BY <1>1, ChildrenType
<1>3. ASSUME x \in Above[d] PROVE FALSE
  BY <1>3, ChildrenType, AboveAntisymmetric
<1> QED BY <1>2, <1>3

(* What is below a directory is below one of its entries.                  *)
LEMMA BelowIsBelowChild ==
  ASSUME NEW n \in Entries, NEW d \in Above[n], d # n
  PROVE  \E c \in Children(d) : c \in Above[n]
<1> SUFFICES ASSUME \A c \in Children(d) : c \notin Above[n] PROVE FALSE
  OBVIOUS
<1> DEFINE S == Above[n] \ Above[d]
<1>1. d \in Entries /\ Above[n] \in SUBSET Entries
  BY AboveTransitive, AboveInside
<1>2. Upward(S)
  <2>1. ASSUME NEW x \in S, x # Top PROVE Parent[x] \in S
    <3>1. x \in Entries /\ x \in Above[n] /\ x \notin Above[d]
      BY <1>1
    <3>2. Parent[x] \in Entries /\ Parent[x] \in Above[x]
          /\ Above[x] = {x} \cup Above[Parent[x]]
      BY <2>1, <3>1, AboveParent
    <3>3. Parent[x] \in Above[n]
      BY <3>1, <3>2, AboveTransitive
    <3>4. d \in Above[x] /\ d # x
      BY <1>1, <3>1, AboveChain, AboveSelf
    <3>5. ASSUME Parent[x] \in Above[d] PROVE FALSE
      <4>1. Parent[x] = d
        BY <1>1, <3>2, <3>4, <3>5, AboveAntisymmetric
      <4>2. x \in Children(d)
        BY <2>1, <3>1, <4>1 DEF Children
      <4> QED BY <3>1, <4>2
    <3> QED BY <3>3, <3>5
  <2> QED BY <2>1 DEF Upward
<1>3. n \in S /\ S \in SUBSET Entries
  <2>1. n \notin Above[d]
    BY <1>1, AboveAntisymmetric
  <2> QED BY <1>1, <2>1, AboveSelf
<1>4. Above[n] \subseteq S
  <2> HIDE DEF S
  <2> QED BY <1>2, <1>3, AboveWithin
<1> QED BY <1>1, <1>4, AboveSelf

(* A set of entries is listed once each.                                   *)
LEMMA SortedLists ==
  ASSUME NEW S \in SUBSET Entries
  PROVE  /\ Sorted(S) \in Seq(S) /\ Len(Sorted(S)) \in Nat
         /\ \A k \in 1..Len(Sorted(S)) : Sorted(S)[k] \in S
         /\ \A j, k \in 1..Len(Sorted(S)) : Sorted(S)[j] = Sorted(S)[k] => j = k
         /\ \A n \in S : \E k \in 1..Len(Sorted(S)) : Sorted(S)[k] = n
<1> DEFINE UpTo(n) == {m \in S : Place(m) <= Place(n)}
           rank == [n \in S |-> Cardinality(UpTo(n))]
           size == Cardinality(S)
<1>1. IsFiniteSet(S) /\ size \in Nat
  BY EntriesFinite, FS_Subset, FS_CardinalityType
<1>2. ASSUME NEW n \in S
      PROVE  /\ IsFiniteSet(UpTo(n)) /\ UpTo(n) \in SUBSET S /\ n \in UpTo(n)
             /\ rank[n] \in 1..size
  <2>1. UpTo(n) \in SUBSET S
    OBVIOUS
  <2>2. n \in UpTo(n)
    BY PlaceType
  <2>3. IsFiniteSet(UpTo(n)) /\ Cardinality(UpTo(n)) <= size
    <3> HIDE DEF UpTo
    <3> QED BY <1>1, <2>1, FS_Subset
  <2>4. Cardinality(UpTo(n)) \in Nat /\ Cardinality(UpTo(n)) # 0
    <3> HIDE DEF UpTo
    <3> QED BY <2>2, <2>3, FS_CardinalityType, FS_EmptySet
  <2> QED BY <1>1, <2>1, <2>2, <2>3, <2>4
<1>3. ASSUME NEW m \in S, NEW n \in S, Place(m) <= Place(n), rank[m] = rank[n]
      PROVE  m = n
  <2>0. Place(m) \in Int /\ Place(n) \in Int
    BY PlaceType
  <2>1. UpTo(m) \in SUBSET UpTo(n)
    <3>1. ASSUME NEW x \in UpTo(m) PROVE x \in UpTo(n)
      BY <1>3, <2>0, PlaceType
    <3> QED BY <3>1
  <2>2. Cardinality(UpTo(m)) = Cardinality(UpTo(n)) /\ IsFiniteSet(UpTo(n))
    BY <1>2, <1>3
  <2>3. UpTo(m) = UpTo(n)
    <3> HIDE DEF UpTo
    <3> QED BY <2>1, <2>2, FS_Subset
  <2>4. n \in UpTo(m)
    BY <1>2, <2>3
  <2>5. Place(n) <= Place(m)
    BY <2>4
  <2> QED BY <1>3, <2>0, <2>5, PlaceDiffers
<1>4. \A m, n \in S : rank[m] = rank[n] => m = n
  <2>1. \A m, n \in S : Place(m) <= Place(n) \/ Place(n) <= Place(m)
    BY PlaceType
  <2> HIDE DEF rank
  <2> QED BY <1>3, <2>1
<1>5. rank \in Injection(S, 1..size)
  <2>1. rank \in [S -> 1..size]
    BY <1>2
  <2> HIDE DEF rank
  <2> QED BY <1>4, <2>1 DEF Injection, IsInjective
<1>6. IsFiniteSet(1..size) /\ Cardinality(1..size) = size
  BY <1>1, FS_Interval
<1>7. rank \in Surjection(S, 1..size)
  <2> HIDE DEF rank
  <2> QED BY <1>5, <1>6, FS_Injection
<1>8. ASSUME NEW k \in 1..size
      PROVE  Sorted(S)[k] \in S /\ rank[Sorted(S)[k]] = k
  <2>1. \E n \in S : rank[n] = k
    <3> HIDE DEF rank
    <3> QED BY <1>7 DEF Surjection
  <2>2. \E n \in S : Cardinality({m \in S : Place(m) <= Place(n)}) = k
    BY <2>1
  <2>3. Sorted(S)[k] = CHOOSE n \in S : Cardinality({m \in S : Place(m) <= Place(n)}) = k
    BY DEF Sorted
  <2>4. /\ Sorted(S)[k] \in S
        /\ Cardinality({m \in S : Place(m) <= Place(Sorted(S)[k])}) = k
    BY <2>2, <2>3, Zenon
  <2> QED BY <2>4
<1>9. Sorted(S) \in [1..size -> S]
  <2>1. Sorted(S) = [k \in 1..size |->
                       CHOOSE n \in S : Cardinality({m \in S : Place(m) <= Place(n)}) = k]
    BY DEF Sorted
  <2>2. DOMAIN Sorted(S) = 1..size /\ Sorted(S) = [k \in 1..size |-> Sorted(S)[k]]
    BY <2>1, Zenon
  <2> HIDE DEF size
  <2> QED BY <1>8, <2>2
<1>10. Sorted(S) \in Seq(S) /\ Len(Sorted(S)) = size
  BY <1>1, <1>9, SeqDef, LenProperties
<1> HIDE DEF rank, size
<1>11. ASSUME NEW n \in S PROVE \E k \in 1..size : Sorted(S)[k] = n
  <2>1. rank[n] \in 1..size
    BY <1>5 DEF Injection
  <2>2. Sorted(S)[rank[n]] \in S /\ rank[Sorted(S)[rank[n]]] = rank[n]
    BY <1>8, <2>1
  <2> QED BY <1>4, <2>1, <2>2
<1>12. \A j, k \in 1..size : Sorted(S)[j] = Sorted(S)[k] => j = k
  BY <1>8
<1> QED BY <1>1, <1>8, <1>10, <1>11, <1>12

-----------------------------------------------------------------------------
(* Lines and counts.                                                       *)

(* Counting newlines, with a correction for a last line without one, is    *)
(* counting the places where a line begins.                                *)
LEMMA LinesCounted ==
  ASSUME NEW n \in Entries
  PROVE  /\ IsFiniteSet(LineStarts(n)) /\ Cardinality(LineStarts(n)) \in Nat
         /\ physicalLines(Content[n]) = Cardinality(LineStarts(n))
<1> DEFINE data == Content[n]
           size == Len(data)
           ends == {i \in DOMAIN data : data[i] = Newline}
           inner == ends \ {size}
           later == LineStarts(n) \ {1}
           f == [i \in inner |-> i + 1]
<1>1. data \in Seq({Newline, "other"})
  BY TreeShape
<1>2. size \in Nat /\ DOMAIN data = 1..size
  BY <1>1, LenProperties
<1>3. IsFiniteSet(1..size)
  BY <1>2, FS_Interval
<1>4. ends \in SUBSET (1..size) /\ LineStarts(n) \in SUBSET (1..size)
  BY <1>2 DEF LineStarts
<1>5. IsFiniteSet(ends) /\ IsFiniteSet(LineStarts(n)) /\ IsFiniteSet(inner) /\ IsFiniteSet(later)
  <2>1. IsFiniteSet(ends) /\ IsFiniteSet(LineStarts(n))
    BY <1>3, <1>4, FS_Subset
  <2> HIDE DEF ends
  <2> QED BY <2>1, FS_RemoveElement
<1>6. /\ Cardinality(ends) \in Nat /\ Cardinality(LineStarts(n)) \in Nat
      /\ Cardinality(inner) \in Nat /\ Cardinality(later) \in Nat
  BY <1>5, FS_CardinalityType
<1>7. f \in [inner -> later]
  <2>1. ASSUME NEW i \in inner PROVE i + 1 \in later
    <3>1. i \in 1..size /\ i # size /\ data[i] = Newline
      BY <1>4
    <3>2. i + 1 \in 1..size /\ i + 1 # 1 /\ (i + 1) - 1 = i
      BY <1>2, <3>1
    <3> QED BY <1>2, <3>1, <3>2 DEF LineStarts
  <2> QED BY <2>1
<1>8. f \in Injection(inner, later)
  <2>1. \A i, j \in inner : f[i] = f[j] => i = j
    BY <1>2, <1>4
  <2> QED BY <1>7, <2>1 DEF Injection, IsInjective
<1>9. f \in Surjection(inner, later)
  <2>1. ASSUME NEW j \in later PROVE \E i \in inner : f[i] = j
    <3>1. j \in 1..size /\ j # 1 /\ data[j - 1] = Newline
      BY <1>2 DEF LineStarts
    <3>2. j - 1 \in 1..size /\ j - 1 # size /\ (j - 1) + 1 = j
      BY <1>2, <3>1
    <3>3. j - 1 \in inner
      BY <1>2, <3>1, <3>2
    <3> QED BY <3>2, <3>3
  <2> QED BY <1>7, <2>1 DEF Surjection
<1>10. Cardinality(later) = Cardinality(inner)
  <2>1. ExistsBijection(inner, later)
    BY <1>8, <1>9 DEF ExistsBijection, Bijection
  <2> HIDE DEF inner, later
  <2> QED BY <1>5, <2>1, FS_Bijection
<1>11. CASE data = <<>>
  <2>1. ends = {} /\ LineStarts(n) = {}
    BY <1>11 DEF LineStarts
  <2>2. Cardinality(ends) = 0 /\ Cardinality(LineStarts(n)) = 0
    BY <2>1, FS_EmptySet
  <2>3. physicalLines(data) = Cardinality(ends) + 0
    BY <1>11 DEF physicalLines
  <2> QED BY <1>5, <1>6, <2>2, <2>3
<1>12. CASE data # <<>>
  <2>1. size \in 1..size /\ 1 \in 1..size
    BY <1>1, <1>2, <1>12, EmptySeq
  <2>2. 1 \in LineStarts(n)
    BY <1>2, <2>1 DEF LineStarts
  <2>3. Cardinality(LineStarts(n)) = Cardinality(later) + 1
    BY <1>5, <1>6, <2>2, FS_RemoveElement
  <2>4. CASE data[size] = Newline
    <3>1. size \in ends
      BY <1>2, <2>1, <2>4
    <3>2. Cardinality(inner) = Cardinality(ends) - 1
      <4> HIDE DEF ends
      <4> QED BY <1>5, <3>1, FS_RemoveElement
    <3>3. physicalLines(data) = Cardinality(ends) + 0
      BY <1>12, <2>4 DEF physicalLines
    <3> HIDE DEF ends, inner, later
    <3> QED BY <1>5, <1>6, <1>10, <2>3, <3>2, <3>3
  <2>5. CASE data[size] # Newline
    <3>1. inner = ends
      BY <2>5
    <3>2. physicalLines(data) = Cardinality(ends) + 1
      BY <1>12, <2>5 DEF physicalLines
    <3> HIDE DEF ends, inner, later
    <3> QED BY <1>5, <1>6, <1>10, <2>3, <3>1, <3>2
  <2> QED BY <2>4, <2>5
<1> QED BY <1>11, <1>12

LineSet(S, extensions) ==
  {l \in S \X UNION {DOMAIN Content[n] : n \in S} :
     Extension[l[1]] \in extensions /\ l[2] \in LineStarts(l[1])}

LEMMA LineSetMembers ==
  ASSUME NEW S \in SUBSET Entries, NEW extensions
  PROVE  /\ Lines(S, extensions) = Cardinality(LineSet(S, extensions))
         /\ \A n, i : <<n, i>> \in LineSet(S, extensions) <=>
                        n \in S /\ Extension[n] \in extensions /\ i \in LineStarts(n)
         /\ \A l \in LineSet(S, extensions) : l = <<l[1], l[2]>>
<1>1. Lines(S, extensions) = Cardinality(LineSet(S, extensions))
  BY DEF Lines, LineSet
<1>2. ASSUME NEW n, NEW i, n \in S, Extension[n] \in extensions, i \in LineStarts(n)
      PROVE  <<n, i>> \in LineSet(S, extensions)
  <2>1. i \in DOMAIN Content[n]
    BY <1>2 DEF LineStarts
  <2>2. i \in UNION {DOMAIN Content[m] : m \in S}
    BY <1>2, <2>1
  <2> QED BY <1>2, <2>2 DEF LineSet
<1>3. ASSUME NEW n, NEW i, <<n, i>> \in LineSet(S, extensions)
      PROVE  n \in S /\ Extension[n] \in extensions /\ i \in LineStarts(n)
  BY <1>3 DEF LineSet
<1>4. \A l \in LineSet(S, extensions) : l = <<l[1], l[2]>>
  BY DEF LineSet
<1> QED BY <1>1, <1>2, <1>3, <1>4

LEMMA LineSetFinite ==
  ASSUME NEW S \in SUBSET Entries, NEW extensions
  PROVE  IsFiniteSet(LineSet(S, extensions))
<1> DEFINE places == UNION {DOMAIN Content[n] : n \in S}
           sets   == {DOMAIN Content[n] : n \in S}
           f      == [n \in S |-> DOMAIN Content[n]]
<1>1. IsFiniteSet(S)
  BY EntriesFinite, FS_Subset
<1>2. IsFiniteSet(sets)
  <2>1. f \in Surjection(S, sets)
    BY DEF Surjection
  <2> HIDE DEF f, sets
  <2> QED BY <1>1, <2>1, FS_Surjection
<1>3. \A s \in sets : IsFiniteSet(s)
  <2>1. ASSUME NEW n \in S PROVE IsFiniteSet(DOMAIN Content[n])
    <3>1. Content[n] \in Seq({Newline, "other"})
      BY TreeShape
    <3>2. DOMAIN Content[n] = 1..Len(Content[n]) /\ Len(Content[n]) \in Nat
      BY <3>1, LenProperties
    <3> QED BY <3>2, FS_Interval
  <2> QED BY <2>1
<1>4. IsFiniteSet(places)
  <2> HIDE DEF sets
  <2>1. IsFiniteSet(UNION sets)
    BY <1>2, <1>3, FS_UNION
  <2> QED BY <2>1 DEF sets
<1>5. IsFiniteSet(S \X places)
  <2> HIDE DEF places
  <2> QED BY <1>1, <1>4, FS_Product
<1>6. LineSet(S, extensions) \in SUBSET (S \X places)
  BY DEF LineSet
<1> HIDE DEF places
<1> QED BY <1>5, <1>6, FS_Subset

LEMMA LinesMonotone ==
  ASSUME NEW T \in SUBSET Entries, NEW S \in SUBSET T, NEW extensions
  PROVE  Lines(S, extensions) <= Lines(T, extensions)
<1>1. S \in SUBSET Entries
  OBVIOUS
<1>2. LineSet(S, extensions) \in SUBSET LineSet(T, extensions)
  <2>1. ASSUME NEW l \in LineSet(S, extensions) PROVE l \in LineSet(T, extensions)
    <3>1. l = <<l[1], l[2]>>
      BY <1>1, LineSetMembers
    <3>2. <<l[1], l[2]>> \in LineSet(S, extensions)
      BY <3>1
    <3>3. l[1] \in T /\ Extension[l[1]] \in extensions /\ l[2] \in LineStarts(l[1])
      BY <1>1, <3>2, LineSetMembers
    <3>4. <<l[1], l[2]>> \in LineSet(T, extensions)
      BY <3>3, LineSetMembers
    <3> QED BY <3>1, <3>4
  <2> QED BY <2>1
<1>3. Cardinality(LineSet(S, extensions)) <= Cardinality(LineSet(T, extensions))
  BY <1>2, LineSetFinite, FS_Subset
<1> QED BY <1>1, <1>3, LineSetMembers

LEMMA LinesAdded ==
  ASSUME NEW S \in SUBSET Entries, NEW n \in Entries, n \notin S, NEW extensions
  PROVE  /\ Lines(S, extensions) \in Nat
         /\ Extension[n] \in extensions =>
              Lines(S \cup {n}, extensions) = Lines(S, extensions) + physicalLines(Content[n])
         /\ Extension[n] \notin extensions =>
              Lines(S \cup {n}, extensions) = Lines(S, extensions)
<1> DEFINE old == LineSet(S, extensions)
           all == LineSet(S \cup {n}, extensions)
           new == {n} \X LineStarts(n)
<1>1. S \cup {n} \in SUBSET Entries
  OBVIOUS
<1>2. IsFiniteSet(old) /\ Cardinality(old) \in Nat
  BY LineSetFinite, FS_CardinalityType
<1>3. Lines(S, extensions) = Cardinality(old) /\ Lines(S \cup {n}, extensions) = Cardinality(all)
  BY <1>1, LineSetMembers
<1>m. /\ \A l \in old : l = <<l[1], l[2]>> /\ l[1] \in S /\ l[2] \in LineStarts(l[1])
                        /\ Extension[l[1]] \in extensions
      /\ \A l \in all : l = <<l[1], l[2]>> /\ l[1] \in S \cup {n} /\ l[2] \in LineStarts(l[1])
                        /\ Extension[l[1]] \in extensions
  BY <1>1, LineSetMembers
<1>o. old \in SUBSET all
  <2>1. ASSUME NEW l \in old PROVE l \in all
    <3>1. <<l[1], l[2]>> \in all
      BY <1>1, <1>m, LineSetMembers
    <3> QED BY <1>m, <3>1
  <2> QED BY <2>1
<1>n. ASSUME NEW l \in all, l[1] # n PROVE l \in old
  <2>1. <<l[1], l[2]>> \in old
    BY <1>m, <1>n, LineSetMembers
  <2> QED BY <1>m, <2>1
<1>4. CASE Extension[n] \notin extensions
  <2>1. \A l \in all : l[1] # n
    BY <1>4, <1>m
  <2>2. all = old
    BY <1>o, <1>n, <2>1
  <2> QED BY <1>2, <1>3, <1>4, <2>2
<1>5. CASE Extension[n] \in extensions
  <2>1. new \in SUBSET all
    <3>1. ASSUME NEW i \in LineStarts(n) PROVE <<n, i>> \in all
      BY <1>1, <1>5, LineSetMembers
    <3> QED BY <3>1
  <2>2. \A l \in all : l[1] = n => l \in new
    BY <1>m
  <2>3. all = old \cup new
    BY <1>o, <1>n, <2>1, <2>2
  <2>4. old \cap new = {}
    BY <1>m
  <2>5. IsFiniteSet(LineStarts(n)) /\ Cardinality(LineStarts(n)) \in Nat
        /\ physicalLines(Content[n]) = Cardinality(LineStarts(n))
    BY LinesCounted
  <2>6. IsFiniteSet(new) /\ Cardinality(new) = Cardinality(LineStarts(n))
    <3>1. IsFiniteSet({n}) /\ Cardinality({n}) = 1
      BY FS_Singleton
    <3>2. IsFiniteSet(new) /\ Cardinality(new) = 1 * Cardinality(LineStarts(n))
      BY <2>5, <3>1, FS_Product
    <3> QED BY <2>5, <3>2
  <2> HIDE DEF old, new, all
  <2>7. Cardinality(all) = Cardinality(old) + Cardinality(new)
    <3>1. Cardinality(old \cup new)
            = Cardinality(old) + Cardinality(new) - Cardinality(old \cap new)
      BY <1>2, <2>6, FS_Union
    <3>2. Cardinality(old \cap new) = 0
      BY <2>4, FS_EmptySet
    <3> QED BY <1>2, <2>3, <2>5, <2>6, <3>1, <3>2
  <2> QED BY <1>2, <1>3, <1>5, <2>5, <2>6, <2>7
<1> QED BY <1>4, <1>5

LEMMA NothingCounted == MetricsOf({}) = Nothing
<1>1. Cardinality({}) = 0
  BY FS_EmptySet
<1>2. ASSUME NEW extensions PROVE Lines({}, extensions) = 0
  <2>1. {} \in SUBSET Entries
    OBVIOUS
  <2>2. LineSet({}, extensions) = {}
    BY DEF LineSet
  <2> QED BY <1>1, <2>1, <2>2, LineSetMembers
<1> DEFINE none == {n \in {} : Kind[n] = "file"}
<1>3. none = {} /\ {n \in {} : Kind[n] = "directory"} = {}
  OBVIOUS
<1>4. MetricsOf({}) =
        [descendantDirs |-> Cardinality({n \in {} : Kind[n] = "directory"}),
         descendantFiles |-> Cardinality(none),
         physicalLines |-> Lines(none, {".go", ".gooo", ""}),
         goLines |-> Lines(none, {".go"}), goooLines |-> Lines(none, {".gooo"})]
  BY DEF MetricsOf
<1> HIDE DEF none
<1> QED BY <1>1, <1>2, <1>3, <1>4 DEF Nothing

FilesOf(S) == {n \in S : Kind[n] = "file"}
DirectoriesOf(S) == {n \in S : Kind[n] = "directory"}

LEMMA MetricsFields ==
  ASSUME NEW S \in SUBSET Entries
  PROVE  /\ MetricsOf(S) =
              [descendantDirs |-> Cardinality(DirectoriesOf(S)),
               descendantFiles |-> Cardinality(FilesOf(S)),
               physicalLines |-> Lines(FilesOf(S), {".go", ".gooo", ""}),
               goLines |-> Lines(FilesOf(S), {".go"}),
               goooLines |-> Lines(FilesOf(S), {".gooo"})]
         /\ FilesOf(S) \in SUBSET Entries
         /\ IsFiniteSet(FilesOf(S)) /\ IsFiniteSet(DirectoriesOf(S))
         /\ Cardinality(FilesOf(S)) \in Nat /\ Cardinality(DirectoriesOf(S)) \in Nat
<1>1. FilesOf(S) \in SUBSET Entries /\ DirectoriesOf(S) \in SUBSET Entries
  BY DEF FilesOf, DirectoriesOf
<1>2. IsFiniteSet(FilesOf(S)) /\ IsFiniteSet(DirectoriesOf(S))
  BY <1>1, EntriesFinite, FS_Subset
<1>3. Cardinality(FilesOf(S)) \in Nat /\ Cardinality(DirectoriesOf(S)) \in Nat
  BY <1>2, FS_CardinalityType
<1> QED BY <1>1, <1>2, <1>3 DEF MetricsOf, FilesOf, DirectoriesOf

LEMMA MetricsType ==
  ASSUME NEW S \in SUBSET Entries
  PROVE  MetricsOf(S) \in InventoryMetrics
<1>1. FilesOf(S) \in SUBSET Entries
      /\ Cardinality(DirectoriesOf(S)) \in Nat /\ Cardinality(FilesOf(S)) \in Nat
  BY MetricsFields
<1>2. ASSUME NEW extensions PROVE Lines(FilesOf(S), extensions) \in Nat
  <2>1. IsFiniteSet(LineSet(FilesOf(S), extensions))
    BY <1>1, LineSetFinite
  <2>2. Cardinality(LineSet(FilesOf(S), extensions)) \in Nat
    BY <2>1, FS_CardinalityType
  <2> QED BY <1>1, <2>2, LineSetMembers
<1>3. /\ Lines(FilesOf(S), {".go", ".gooo", ""}) \in Nat
      /\ Lines(FilesOf(S), {".go"}) \in Nat /\ Lines(FilesOf(S), {".gooo"}) \in Nat
  BY <1>2
<1>4. ASSUME NEW a \in Nat, NEW b \in Nat, NEW c \in Nat, NEW d \in Nat, NEW e \in Nat
      PROVE  [descendantDirs |-> a, descendantFiles |-> b, physicalLines |-> c,
              goLines |-> d, goooLines |-> e] \in InventoryMetrics
  BY DEF InventoryMetrics
<1>5. [descendantDirs |-> Cardinality(DirectoriesOf(S)),
       descendantFiles |-> Cardinality(FilesOf(S)),
       physicalLines |-> Lines(FilesOf(S), {".go", ".gooo", ""}),
       goLines |-> Lines(FilesOf(S), {".go"}),
       goooLines |-> Lines(FilesOf(S), {".gooo"})] \in InventoryMetrics
  <2> HIDE DEF InventoryMetrics
  <2> QED BY <1>1, <1>3, <1>4
<1>6. MetricsOf(S) =
        [descendantDirs |-> Cardinality(DirectoriesOf(S)),
         descendantFiles |-> Cardinality(FilesOf(S)),
         physicalLines |-> Lines(FilesOf(S), {".go", ".gooo", ""}),
         goLines |-> Lines(FilesOf(S), {".go"}),
         goooLines |-> Lines(FilesOf(S), {".gooo"})]
  BY MetricsFields
<1> QED BY <1>5, <1>6, Zenon

(* More entries, greater counts.                                           *)
LEMMA MetricsMonotone ==
  ASSUME NEW T \in SUBSET Entries, NEW S \in SUBSET T
  PROVE  AtMost(MetricsOf(S), MetricsOf(T))
<1>1. S \in SUBSET Entries
  OBVIOUS
<1>2. FilesOf(S) \in SUBSET FilesOf(T) /\ DirectoriesOf(S) \in SUBSET DirectoriesOf(T)
  BY DEF FilesOf, DirectoriesOf
<1>3. /\ Cardinality(FilesOf(S)) <= Cardinality(FilesOf(T))
      /\ Cardinality(DirectoriesOf(S)) <= Cardinality(DirectoriesOf(T))
  BY <1>2, MetricsFields, FS_Subset
<1>4. FilesOf(T) \in SUBSET Entries
  BY MetricsFields
<1>5. /\ Lines(FilesOf(S), {".go", ".gooo", ""}) <= Lines(FilesOf(T), {".go", ".gooo", ""})
      /\ Lines(FilesOf(S), {".go"}) <= Lines(FilesOf(T), {".go"})
      /\ Lines(FilesOf(S), {".gooo"}) <= Lines(FilesOf(T), {".gooo"})
  BY <1>2, <1>4, LinesMonotone
<1> DEFINE s == MetricsOf(S)
           t == MetricsOf(T)
<1>6. /\ DOMAIN s = {"descendantDirs", "descendantFiles", "physicalLines", "goLines", "goooLines"}
      /\ s.descendantDirs = Cardinality(DirectoriesOf(S))
      /\ s.descendantFiles = Cardinality(FilesOf(S))
      /\ s.physicalLines = Lines(FilesOf(S), {".go", ".gooo", ""})
      /\ s.goLines = Lines(FilesOf(S), {".go"}) /\ s.goooLines = Lines(FilesOf(S), {".gooo"})
  BY <1>1 DEF MetricsOf, FilesOf, DirectoriesOf
<1>7. /\ t.descendantDirs = Cardinality(DirectoriesOf(T))
      /\ t.descendantFiles = Cardinality(FilesOf(T))
      /\ t.physicalLines = Lines(FilesOf(T), {".go", ".gooo", ""})
      /\ t.goLines = Lines(FilesOf(T), {".go"}) /\ t.goooLines = Lines(FilesOf(T), {".gooo"})
  BY DEF MetricsOf, FilesOf, DirectoriesOf
<1> HIDE DEF s, t
<1>8. \A f \in DOMAIN s : s[f] <= t[f]
  BY <1>3, <1>5, <1>6, <1>7
<1> QED BY <1>8 DEF s, t, AtMost

LEMMA DirectoryCounted ==
  ASSUME NEW S \in SUBSET Entries, NEW n \in Entries, n \notin S, Kind[n] = "directory",
         NEW old, old = MetricsOf(S),
         NEW new, new = [old EXCEPT !.descendantDirs = @ + 1]
  PROVE  new = MetricsOf(S \cup {n})
<1>1. S \cup {n} \in SUBSET Entries
  OBVIOUS
<1>2. /\ FilesOf(S \cup {n}) = FilesOf(S)
      /\ DirectoriesOf(S \cup {n}) = DirectoriesOf(S) \cup {n}
      /\ n \notin DirectoriesOf(S)
  BY DEF FilesOf, DirectoriesOf
<1>3. Cardinality(DirectoriesOf(S \cup {n})) = Cardinality(DirectoriesOf(S)) + 1
  BY <1>2, MetricsFields, FS_AddElement
<1> DEFINE names == {"descendantDirs", "descendantFiles", "physicalLines", "goLines", "goooLines"}
           all   == MetricsOf(S \cup {n})
<1>4. /\ old = [f \in names |-> old[f]] /\ new = [f \in names |-> new[f]]
      /\ all = [f \in names |-> all[f]]
  BY DEF MetricsOf
<1>5. /\ old.descendantDirs = Cardinality(DirectoriesOf(S))
      /\ old.descendantFiles = Cardinality(FilesOf(S))
      /\ old.physicalLines = Lines(FilesOf(S), {".go", ".gooo", ""})
      /\ old.goLines = Lines(FilesOf(S), {".go"}) /\ old.goooLines = Lines(FilesOf(S), {".gooo"})
  BY DEF MetricsOf, FilesOf, DirectoriesOf
<1>6. /\ all.descendantDirs = Cardinality(DirectoriesOf(S \cup {n}))
      /\ all.descendantFiles = Cardinality(FilesOf(S \cup {n}))
      /\ all.physicalLines = Lines(FilesOf(S \cup {n}), {".go", ".gooo", ""})
      /\ all.goLines = Lines(FilesOf(S \cup {n}), {".go"})
      /\ all.goooLines = Lines(FilesOf(S \cup {n}), {".gooo"})
  BY DEF MetricsOf, FilesOf, DirectoriesOf
<1> HIDE DEF all
<1>7. \A f \in names : new[f] = all[f]
  BY <1>2, <1>3, <1>4, <1>5, <1>6
<1>8. new = all
  <2> HIDE DEF names
  <2> QED BY <1>4, <1>7
<1> QED BY <1>8 DEF all

MetricNames ==
  {"descendantDirs", "descendantFiles", "physicalLines", "goLines", "goooLines"}

LEMMA FileCounted ==
  ASSUME NEW S \in SUBSET Entries, NEW n \in Entries, n \notin S, Kind[n] = "file",
         NEW old, old = MetricsOf(S), NEW lines, lines = physicalLines(Content[n]),
         NEW new, new = [f \in MetricNames |-> new[f]],
         new.descendantDirs = old.descendantDirs,
         new.descendantFiles = old.descendantFiles + 1,
         new.physicalLines = old.physicalLines + lines,
         new.goLines = old.goLines + (IF Extension[n] = ".go" THEN lines ELSE 0),
         new.goooLines = old.goooLines + (IF Extension[n] = ".gooo" THEN lines ELSE 0)
  PROVE  new = MetricsOf(S \cup {n})
<1> DEFINE files == FilesOf(S)
           more  == FilesOf(S \cup {n})
           all   == MetricsOf(S \cup {n})
           names == MetricNames
<1>1. /\ more = files \cup {n} /\ n \notin files /\ files \in SUBSET Entries
      /\ DirectoriesOf(S \cup {n}) = DirectoriesOf(S)
  BY DEF FilesOf, DirectoriesOf
<1>2. Cardinality(more) = Cardinality(files) + 1
  <2> IsFiniteSet(files)
    BY MetricsFields
  <2> HIDE DEF files, more
  <2> QED BY <1>1, FS_AddElement
<1>3. /\ old = [f \in names |-> old[f]] /\ new = [f \in names |-> new[f]]
      /\ all = [f \in names |-> all[f]]
  BY DEF MetricsOf, MetricNames
<1>4. /\ old.descendantDirs = Cardinality(DirectoriesOf(S))
      /\ old.descendantFiles = Cardinality(files)
      /\ old.physicalLines = Lines(files, {".go", ".gooo", ""})
      /\ old.goLines = Lines(files, {".go"}) /\ old.goooLines = Lines(files, {".gooo"})
  BY DEF MetricsOf, FilesOf, DirectoriesOf
<1>5. /\ all.descendantDirs = Cardinality(DirectoriesOf(S \cup {n}))
      /\ all.descendantFiles = Cardinality(more)
      /\ all.physicalLines = Lines(more, {".go", ".gooo", ""})
      /\ all.goLines = Lines(more, {".go"}) /\ all.goooLines = Lines(more, {".gooo"})
  BY DEF MetricsOf, FilesOf, DirectoriesOf
<1> HIDE DEF files, more, all
<1>7. ASSUME NEW extensions
      PROVE  /\ Lines(files, extensions) \in Nat
             /\ Extension[n] \in extensions =>
                  Lines(more, extensions) = Lines(files, extensions) + lines
             /\ Extension[n] \notin extensions =>
                  Lines(more, extensions) = Lines(files, extensions)
  BY <1>1, LinesAdded
<1>8. Lines(more, {".go", ".gooo", ""}) = Lines(files, {".go", ".gooo", ""}) + lines
  <2>1. Extension[n] \in {".go", ".gooo", ""}
    BY TreeShape
  <2> QED BY <1>7, <2>1
<1>9. Lines(more, {".go"})
        = Lines(files, {".go"}) + (IF Extension[n] = ".go" THEN lines ELSE 0)
  <2>1. Lines(files, {".go"}) \in Nat
    BY <1>7
  <2>2. CASE Extension[n] = ".go"
    <3>1. Lines(more, {".go"}) = Lines(files, {".go"}) + lines
      BY <1>7, <2>2
    <3> QED BY <2>2, <3>1
  <2>3. CASE Extension[n] # ".go"
    <3>1. Lines(more, {".go"}) = Lines(files, {".go"})
      BY <1>7, <2>3
    <3> QED BY <2>1, <2>3, <3>1
  <2> QED BY <2>2, <2>3
<1>10. Lines(more, {".gooo"})
         = Lines(files, {".gooo"}) + (IF Extension[n] = ".gooo" THEN lines ELSE 0)
  <2>1. Lines(files, {".gooo"}) \in Nat
    BY <1>7
  <2>2. CASE Extension[n] = ".gooo"
    <3>1. Lines(more, {".gooo"}) = Lines(files, {".gooo"}) + lines
      BY <1>7, <2>2
    <3> QED BY <2>2, <3>1
  <2>3. CASE Extension[n] # ".gooo"
    <3>1. Lines(more, {".gooo"}) = Lines(files, {".gooo"})
      BY <1>7, <2>3
    <3> QED BY <2>1, <2>3, <3>1
  <2> QED BY <2>2, <2>3
<1>11. \A f \in names : new[f] = all[f]
  BY <1>1, <1>2, <1>4, <1>5, <1>8, <1>9, <1>10 DEF MetricNames
<1>12. new = all
  <2> HIDE DEF names
  <2> QED BY <1>3, <1>11
<1> QED BY <1>12 DEF all

-----------------------------------------------------------------------------
(* The steps of the walk.                                                  *)

(* Only the entry itself can exclude more than its directory did.          *)
LEMMA ExcludedByParent ==
  ASSUME root \in Entries, NEW n \in Entries, n # Top, root \in Above[Parent[n]],
         ~Excluded(Parent[n])
  PROVE  /\ root \in Above[n] /\ root # n
         /\ Excluded(n) <=> n \in Git /\ Kind[n] = "directory"
<1>1. Parent[n] \in Entries /\ Above[n] = {n} \cup Above[Parent[n]] /\ Parent[n] \in Above[n]
  BY AboveParent
<1>2. root # n
  <2>1. ASSUME root = n PROVE FALSE
    <3>1. Parent[n] = n
      BY <1>1, <2>1, AboveAntisymmetric
    <3>2. Place(Parent[n]) < Place(n) /\ Place(n) \in Int
      BY ParentBefore, PlaceType
    <3> QED BY <3>1, <3>2
  <2> QED BY <2>1
<1>3. root \in Above[n]
  BY <1>1
<1>4. ASSUME n \in Git, Kind[n] = "directory" PROVE Excluded(n)
  BY <1>2, <1>3, <1>4, AboveSelf DEF Excluded
<1>5. ASSUME Excluded(n) PROVE n \in Git /\ Kind[n] = "directory"
  <2>1. PICK g \in Git : g \in Above[n] /\ root \in Above[g] \ {g} /\ Kind[g] = "directory"
    BY <1>5 DEF Excluded
  <2>2. g \notin Above[Parent[n]]
    BY <2>1 DEF Excluded
  <2> QED BY <1>1, <2>1, <2>2
<1> QED BY <1>2, <1>3, <1>4, <1>5

LEMMA RootNotExcluded ==
  ASSUME root \in Entries
  PROVE  ~Excluded(root)
<1>1. ASSUME NEW g \in Git, g \in Above[root], root \in Above[g] \ {g} PROVE FALSE
  BY <1>1, AboveAntisymmetric
<1> QED BY <1>1 DEF Excluded

LEMMA TypeFacts ==
  ASSUME WalkInv
  PROVE  /\ root \in Entries /\ Seen \in SUBSET Entries /\ before \in SUBSET Entries
         /\ present \in SUBSET Entries
         /\ pending \in Seq(Task) /\ Len(pending) \in Nat
         /\ \A i \in 1..Len(pending) : pending[i] \in Task
         /\ \A i \in 1..Len(pending) :
              pending[i].entry \in Entries /\ pending[i].do \in {"root", "visit", "list"}
         /\ Counted(Seen) \in SUBSET Entries
<1>1. /\ root \in Entries /\ Seen \in SUBSET Entries /\ before \in SUBSET Entries
      /\ present \in SUBSET Entries
  BY TreeShape DEF WalkInv, TypeOK, Seen
<1>2. pending \in Seq(Task) /\ Len(pending) \in Nat
  BY LenProperties DEF WalkInv, TypeOK
<1>3. \A i \in 1..Len(pending) : pending[i] \in Task
  BY <1>2, ElementOfSeq
<1>4. \A t \in Task : t.entry \in Entries /\ t.do \in {"root", "visit", "list"}
  BY DEF Task
<1>5. Counted(Seen) \in SUBSET Entries
  BY <1>1 DEF Counted, Descendants
<1> QED BY <1>1, <1>2, <1>3, <1>4, <1>5

LEMMA Concatenated ==
  ASSUME NEW p \in Seq(Task), p # <<>>, NEW ts \in Seq(Task), NEW q, q = ts \o Tail(p)
  PROVE  /\ q \in Seq(Task)
         /\ \A i \in 1..Len(q) :
              \/ \E k \in 1..Len(ts) : i = k /\ q[i] = ts[k]
              \/ \E j \in 2..Len(p) : i = Len(ts) + j - 1 /\ q[i] = p[j]
         /\ \A k \in 1..Len(ts) : k \in 1..Len(q) /\ q[k] = ts[k]
         /\ \A j \in 2..Len(p) : Len(ts) + j - 1 \in 1..Len(q) /\ q[Len(ts) + j - 1] = p[j]
<1>1. /\ Len(p) \in Nat /\ Len(p) > 0 /\ Len(ts) \in Nat
      /\ Tail(p) \in Seq(Task) /\ Len(Tail(p)) = Len(p) - 1
      /\ \A i \in 1..Len(Tail(p)) : Tail(p)[i] = p[i + 1]
  BY LenProperties, HeadTailProperties, EmptySeq
<1>2. /\ q \in Seq(Task) /\ Len(q) = Len(ts) + Len(Tail(p))
      /\ \A i \in 1..Len(ts) + Len(Tail(p)) :
           q[i] = IF i <= Len(ts) THEN ts[i] ELSE Tail(p)[i - Len(ts)]
  BY <1>1, ConcatProperties
<1>3. ASSUME NEW i \in 1..Len(q), ~(i <= Len(ts))
      PROVE  \E j \in 2..Len(p) : i = Len(ts) + j - 1 /\ q[i] = p[j]
  <2>1. i - Len(ts) \in 1..Len(Tail(p)) /\ q[i] = Tail(p)[i - Len(ts)]
    BY <1>1, <1>2, <1>3
  <2>2. i - Len(ts) + 1 \in 2..Len(p) /\ i = Len(ts) + (i - Len(ts) + 1) - 1
        /\ q[i] = p[i - Len(ts) + 1]
    BY <1>1, <2>1
  <2> QED BY <2>2
<1>4. ASSUME NEW i \in 1..Len(q), i <= Len(ts)
      PROVE  i \in 1..Len(ts) /\ q[i] = ts[i]
  BY <1>1, <1>2, <1>4
<1>5. ASSUME NEW k \in 1..Len(ts) PROVE k \in 1..Len(q) /\ q[k] = ts[k]
  BY <1>1, <1>2
<1>6. ASSUME NEW j \in 2..Len(p)
      PROVE  Len(ts) + j - 1 \in 1..Len(q) /\ q[Len(ts) + j - 1] = p[j]
  <2>1. /\ Len(ts) + j - 1 \in 1..(Len(ts) + Len(Tail(p))) /\ ~(Len(ts) + j - 1 <= Len(ts))
        /\ (Len(ts) + j - 1) - Len(ts) = j - 1 /\ j - 1 \in 1..Len(Tail(p)) /\ (j - 1) + 1 = j
    BY <1>1
  <2> QED BY <1>1, <1>2, <2>1
<1> QED BY <1>2, <1>3, <1>4, <1>5, <1>6

(* A step of the walk does the next task: it replaces it by others, which  *)
(* share out what the task leads to, with what is counted at once.         *)
LEMMA TaskDone ==
  ASSUME WalkInv, pc = "walk", pending # <<>>, UNCHANGED tree, pc' = pc,
         NEW ts \in Seq(Task), pending' = ts \o Tail(pending),
         \A k \in 1..Len(ts) : Due(ts[k]),
         \A k \in 1..Len(ts), n \in Entries : Owns(ts[k], n) => Owns(pending[1], n),
         \A j, k \in 1..Len(ts), n \in Entries :
           Owns(ts[j], n) /\ Owns(ts[k], n) => j = k,
         NEW V \in SUBSET Entries, IsCounted(V),
         NEW W \in SUBSET Counted(Seen), V \subseteq W,
         metrics' = MetricsOf(W), metrics' \in InventoryMetrics,
         \A n \in W \ V : Owns(pending[1], n),
         \A k \in 1..Len(ts), n \in W \ V : ~Owns(ts[k], n),
         \A n \in Counted(before \ gone) :
           Owns(pending[1], n) => n \in W \/ \E k \in 1..Len(ts) : Owns(ts[k], n)
  PROVE  WalkInv'
<1> DEFINE p == pending
           q == pending'
<1>0. p \in Seq(Task) /\ Len(p) \in Nat /\ 1 \in 1..Len(p) /\ Len(ts) \in Nat
  BY TypeFacts, LenProperties, EmptySeq
<1>1. /\ q \in Seq(Task)
      /\ \A i \in 1..Len(q) :
           \/ \E k \in 1..Len(ts) : i = k /\ q[i] = ts[k]
           \/ \E j \in 2..Len(p) : i = Len(ts) + j - 1 /\ q[i] = p[j]
      /\ \A k \in 1..Len(ts) : k \in 1..Len(q) /\ q[k] = ts[k]
      /\ \A j \in 2..Len(p) : Len(ts) + j - 1 \in 1..Len(q) /\ q[Len(ts) + j - 1] = p[j]
  BY <1>0, Concatenated
<1>u. UNCHANGED <<root, present, barred, before, come, gone, refused, changes>>
  BY DEF tree
<1>j. \A j \in 2..Len(p) : j \in 1..Len(p) /\ j # 1 /\ j \in Int
  OBVIOUS
<1>2. TypeOK'
  BY <1>1, <1>u DEF WalkInv, TypeOK
<1>3. Remembered' /\ OnlyWalking' /\ FailsOnlyWhenDisturbed'
  BY <1>u DEF WalkInv, Remembered, OnlyWalking, FailsOnlyWhenDisturbed, Seen
<1>4. ASSUME NEW i \in 1..Len(q) PROVE Due(q[i])
  <2>1. CASE \E k \in 1..Len(ts) : i = k /\ q[i] = ts[k]
    BY <2>1
  <2>2. CASE \E j \in 2..Len(p) : i = Len(ts) + j - 1 /\ q[i] = p[j]
    BY <1>j, <2>2 DEF WalkInv
  <2> QED BY <1>1, <2>1, <2>2
<1>5. \A i \in 1..Len(pending') : Due(pending[i])'
  <2>1. ASSUME NEW i \in 1..Len(q), Due(q[i]) PROVE Due(pending[i])'
    <3> HIDE DEF Descendants
    <3> QED BY <1>u, <2>1 DEF Due, Seen, Excluded
  <2> QED BY <1>4, <2>1
<1>6. ASSUME NEW h \in 1..Len(q), NEW i \in 1..Len(q), NEW n \in Entries,
             Owns(q[h], n), Owns(q[i], n)
      PROVE  h = i
  <2>1. ASSUME NEW k \in 1..Len(ts), NEW j \in 2..Len(p), Owns(ts[k], n), Owns(p[j], n)
        PROVE  FALSE
    <3>1. Owns(p[1], n)
      BY <2>1
    <3>2. j = 1
      BY <1>0, <1>j, <2>1, <3>1 DEF WalkInv, Apart
    <3> QED BY <1>j, <3>2
  <2>2. CASE (\E k \in 1..Len(ts) : h = k /\ q[h] = ts[k])
             /\ (\E k \in 1..Len(ts) : i = k /\ q[i] = ts[k])
    BY <1>6, <2>2
  <2>3. CASE (\E j \in 2..Len(p) : h = Len(ts) + j - 1 /\ q[h] = p[j])
             /\ (\E j \in 2..Len(p) : i = Len(ts) + j - 1 /\ q[i] = p[j])
    BY <1>6, <1>j, <2>3 DEF WalkInv, Apart
  <2>4. ASSUME NEW k \in 1..Len(ts), q[h] = ts[k], NEW j \in 2..Len(p), q[i] = p[j]
        PROVE  FALSE
    BY <1>6, <2>1, <2>4
  <2>5. ASSUME NEW k \in 1..Len(ts), q[i] = ts[k], NEW j \in 2..Len(p), q[h] = p[j]
        PROVE  FALSE
    BY <1>6, <2>1, <2>5
  <2>6. /\ \/ \E k \in 1..Len(ts) : h = k /\ q[h] = ts[k]
           \/ \E j \in 2..Len(p) : h = Len(ts) + j - 1 /\ q[h] = p[j]
        /\ \/ \E k \in 1..Len(ts) : i = k /\ q[i] = ts[k]
           \/ \E j \in 2..Len(p) : i = Len(ts) + j - 1 /\ q[i] = p[j]
    BY <1>1
  <2> HIDE DEF p, q
  <2> QED BY <2>2, <2>3, <2>4, <2>5, <2>6, Zenon
<1>7. Apart'
  <2> HIDE DEF q
  <2>1. \A h, i \in 1..Len(q), n \in Entries : Owns(q[h], n) /\ Owns(q[i], n) => h = i
    BY <1>6
  <2> QED BY <2>1 DEF Apart, q, Owns
<1>8. W \in SUBSET Counted(Seen)'
  BY <1>u DEF Counted, Seen, Descendants, Excluded
<1>9. ASSUME NEW i \in 1..Len(q), NEW n \in W PROVE ~Owns(q[i], n)
  <2>1. n \in Entries
    BY TypeFacts
  <2>2. CASE n \in V
    <3>1. ASSUME NEW j \in 1..Len(p) PROVE ~Owns(p[j], n)
      BY <2>2 DEF IsCounted
    <3>2. ASSUME NEW k \in 1..Len(ts) PROVE ~Owns(ts[k], n)
      BY <1>0, <2>1, <3>1
    <3> QED BY <1>1, <1>j, <3>1, <3>2
  <2>3. CASE n \notin V
    <3>1. Owns(p[1], n)
      BY <2>3
    <3>2. ASSUME NEW j \in 2..Len(p) PROVE ~Owns(p[j], n)
      BY <1>0, <1>j, <2>1, <3>1 DEF WalkInv, Apart
    <3> QED BY <1>1, <2>3, <3>2
  <2> QED BY <2>2, <2>3
<1>10. ASSUME NEW n \in Counted(before \ gone)
       PROVE  n \in W \/ \E i \in 1..Len(q) : Owns(q[i], n)
  <2>1. n \in V \/ \E j \in 1..Len(p) : Owns(p[j], n)
    BY DEF IsCounted
  <2>2. CASE Owns(p[1], n)
    BY <1>1, <2>2
  <2>3. ASSUME NEW j \in 1..Len(p), j # 1, Owns(p[j], n)
        PROVE  \E i \in 1..Len(q) : Owns(q[i], n)
    <3>1. j \in 2..Len(p)
      BY <1>0, <2>3
    <3> QED BY <1>1, <2>3, <3>1
  <2> QED BY <2>1, <2>2, <2>3
<1>11. Counted(before \ gone)' = Counted(before \ gone)
  BY <1>u DEF Counted, Descendants, Excluded
<1>12. IsCounted(W)'
  <2>1. \A i \in 1..Len(pending'), n \in W : ~Owns(pending[i], n)'
    BY <1>9 DEF Owns
  <2>2. ASSUME NEW n \in Counted(before \ gone)'
        PROVE  n \in W \/ \E i \in 1..Len(pending') : Owns(pending[i], n)'
    <3>1. n \in W \/ \E i \in 1..Len(q) : Owns(q[i], n)
      BY <1>10, <1>11
    <3>2. ASSUME NEW i \in 1..Len(q), Owns(q[i], n) PROVE Owns(pending[i], n)'
      BY <3>2 DEF Owns
    <3> QED BY <3>1, <3>2
  <2> QED BY <1>8, <2>1, <2>2 DEF IsCounted
<1>13. W \in SUBSET Entries
  BY TypeFacts
<1>14. \E X \in SUBSET Entries : IsCounted(X)'
  BY <1>12, <1>13
<1> QED BY <1>2, <1>3, <1>5, <1>7, <1>14 DEF WalkInv

(* A walk fails with a reason.                                             *)
LEMMA WalkFailed ==
  ASSUME WalkInv, Fail, UNCHANGED tree, pc \in {"stat", "walk"},
         \/ root \notin before
         \/ \E n \in {root} \cup Counted(before \cup come) : n \in gone \cup refused
         \/ \E n \in Counted(before \cup come) : Kind[n] = "link"
  PROVE  WalkInv'
<1>u. /\ UNCHANGED <<root, present, barred, before, come, gone, refused, changes>>
      /\ pc' = "failed" /\ pending' = <<>> /\ metrics' = metrics
  BY DEF tree, Fail
<1>0. <<>> \in Seq(Task) /\ Len(<<>>) = 0
  BY EmptySeq
<1>i. \A i : ~(i \in 1..Len(pending'))
  BY <1>u, <1>0
<1>2. TypeOK'
  BY <1>u, <1>0 DEF WalkInv, TypeOK
<1>3. Remembered' /\ OnlyWalking'
  BY <1>u DEF WalkInv, Remembered, OnlyWalking, Seen
<1>4. Counted(before \cup come)' = Counted(before \cup come)
  BY <1>u DEF Counted, Descendants, Excluded
<1>5. FailsOnlyWhenDisturbed'
  BY <1>u, <1>4 DEF FailsOnlyWhenDisturbed
<1>6. (\A i \in 1..Len(pending) : Due(pending[i]))' /\ Apart'
  BY <1>i DEF Apart
<1>7. PICK V \in SUBSET Entries : IsCounted(V)
  BY DEF WalkInv
<1>8. IsCounted(V)'
  BY <1>u, <1>i, <1>4, <1>7 DEF IsCounted, Seen
<1> QED BY <1>2, <1>3, <1>5, <1>6, <1>8 DEF WalkInv

LEMMA NextTask ==
  ASSUME WalkInv, NEW task, Do(task)
  PROVE  /\ pc = "walk" /\ pending # <<>> /\ pending[1].do = task
         /\ entry = pending[1].entry /\ pending[1] \in Task
         /\ entry \in Entries /\ entry \in Seen /\ root \in Entries
         /\ Due(pending[1]) /\ 1 \in 1..Len(pending)
<1>1. pc = "walk" /\ pending # <<>> /\ Head(pending).do = task
  BY DEF Do
<1>2. Head(pending) = pending[1]
  BY <1>1
<1>3. 1 \in 1..Len(pending)
  BY <1>1, TypeFacts, EmptySeq
<1> QED BY <1>1, <1>2, <1>3, TypeFacts DEF entry, WalkInv, Due

LEMMA StayingType ==
  ASSUME WalkInv
  PROVE  Counted(before \ gone) \in SUBSET Entries
<1>1. before \in SUBSET Entries
  BY TypeFacts
<1> QED BY <1>1 DEF Counted, Descendants

LEMMA CountedType ==
  ASSUME WalkInv, NEW V \in SUBSET Entries, IsCounted(V)
  PROVE  V \in SUBSET Counted(Seen)
BY DEF IsCounted

(* What a visited file or directory is counted for.                        *)
LEMMA VisitedIsCounted ==
  ASSUME WalkInv, Do("visit"), Kind[entry] = "directory" => entry \notin Git
  PROVE  entry \in Counted(Seen)
<1>1. /\ entry \in Entries /\ entry \in Seen /\ root \in Entries
      /\ Due(pending[1]) /\ pending[1].do = "visit" /\ entry = pending[1].entry
  BY NextTask
<1>2. CASE Kind[root] = "file"
  BY <1>1, <1>2 DEF Due, Counted
<1>3. CASE Kind[root] # "file"
  <2>1. entry # Top /\ root \in Above[Parent[entry]] /\ ~Excluded(Parent[entry])
    BY <1>1, <1>3 DEF Due
  <2>2. root \in Above[entry] /\ root # entry /\ ~Excluded(entry)
    BY <1>1, <2>1, ExcludedByParent
  <2> QED BY <1>1, <1>3, <2>2 DEF Counted, Descendants
<1> QED BY <1>2, <1>3

LEMMA TaskClosed ==
  ASSUME WalkInv, pc = "walk", pending # <<>>, UNCHANGED tree, Continue(<<>>),
         NEW V \in SUBSET Entries, IsCounted(V),
         NEW W \in SUBSET Counted(Seen), V \subseteq W,
         metrics' = MetricsOf(W), metrics' \in InventoryMetrics,
         \A n \in W \ V : Owns(pending[1], n),
         \A n \in Counted(before \ gone) : Owns(pending[1], n) => n \in W
  PROVE  WalkInv'
<1> DEFINE ts == <<>>
<1>1. ts \in Seq(Task) /\ Len(ts) = 0
  BY EmptySeq
<1>2. pending' = ts \o Tail(pending) /\ pc' = pc
  BY DEF Continue
<1> HIDE DEF ts
<1>3. \A k : ~(k \in 1..Len(ts))
  BY <1>1
<1>4. /\ \A k \in 1..Len(ts) : Due(ts[k])
      /\ \A k \in 1..Len(ts), n \in Entries : Owns(ts[k], n) => Owns(pending[1], n)
      /\ \A j, k \in 1..Len(ts), n \in Entries : Owns(ts[j], n) /\ Owns(ts[k], n) => j = k
      /\ \A k \in 1..Len(ts), n \in W \ V : ~Owns(ts[k], n)
      /\ \A n \in Counted(before \ gone) :
           Owns(pending[1], n) => n \in W \/ \E k \in 1..Len(ts) : Owns(ts[k], n)
  BY <1>3
<1> QED BY <1>1, <1>2, <1>4, TaskDone

LEMMA StatKeeps ==
  ASSUME WalkInv, StatRoot
  PROVE  WalkInv'
<1>u. /\ UNCHANGED <<root, present, barred, before, come, gone, refused, changes>> /\ pc = "stat"
      /\ UNCHANGED tree
  BY DEF StatRoot, tree
<1>t. root \in Entries /\ Seen \in SUBSET Entries
  BY TypeFacts
<1>1. CASE root \notin present
  <2>1. root \notin before \/ root \in gone
    BY <1>1 DEF WalkInv, Remembered, Seen
  <2> QED BY <1>1, <1>u, <2>1, WalkFailed DEF StatRoot
<1>2. CASE root \in present
  <2> DEFINE task == [do |-> IF Kind[root] = "file" THEN "visit" ELSE "root", entry |-> root]
  <2>1. pc' = "walk" /\ pending' = <<task>> /\ metrics' = metrics /\ metrics = Nothing
    BY <1>2, <1>u DEF StatRoot, WalkInv, OnlyWalking
  <2>2. task \in Task /\ task.entry = root
        /\ task.do = (IF Kind[root] = "file" THEN "visit" ELSE "root")
    BY <1>t DEF Task
  <2>3. <<task>> \in Seq(Task) /\ Len(<<task>>) = 1 /\ <<task>>[1] = task
    BY <2>2
  <2> HIDE DEF task
  <2>i. /\ \A i \in 1..Len(pending') : i = 1 /\ pending'[i] = task
        /\ 1 \in 1..Len(pending') /\ pending'[1] = task
    BY <2>1, <2>3
  <2>4. TypeOK'
    BY <1>u, <2>1, <2>3 DEF WalkInv, TypeOK
  <2>5. Remembered' /\ OnlyWalking' /\ FailsOnlyWhenDisturbed'
    BY <1>u, <2>1 DEF WalkInv, Remembered, OnlyWalking, FailsOnlyWhenDisturbed, Seen
  <2>6. Due(task)
    <3>1. root \in Seen
      BY <1>2 DEF WalkInv, Remembered
    <3> QED BY <2>2, <3>1 DEF Due
  <2>7. (\A i \in 1..Len(pending) : Due(pending[i]))'
    <3>1. ASSUME NEW i \in 1..Len(pending'), Due(pending'[i]) PROVE Due(pending[i])'
      BY <1>u, <3>1 DEF Due, Seen, Excluded
    <3> QED BY <2>i, <2>6, <3>1
  <2>8. Apart'
    BY <2>i DEF Apart
  <2>9. IsCounted({})'
    <3>1. metrics' = MetricsOf({})
      BY <2>1, NothingCounted
    <3>2. ASSUME NEW n \in Counted(before \ gone)' PROVE Owns(pending[1], n)'
      <4>1. n \in Counted(before \ gone)
        BY <1>u DEF Counted, Descendants, Excluded
      <4>2. CASE Kind[root] = "file"
        <5>1. n = root /\ root \in Above[n]
          BY <1>t, <4>1, <4>2, AboveSelf DEF Counted
        <5> QED BY <2>2, <2>i, <4>2, <5>1 DEF Owns
      <4>3. CASE Kind[root] # "file"
        <5>1. root \in Above[n] \ {n}
          BY <4>1, <4>3 DEF Counted, Descendants
        <5> QED BY <2>2, <2>i, <4>3, <5>1 DEF Owns
      <4> QED BY <4>2, <4>3
    <3>3. \A n \in Counted(before \ gone)' : \E i \in 1..Len(pending') : Owns(pending[i], n)'
      <4>1. ASSUME NEW n \in Counted(before \ gone)'
            PROVE  \E i \in 1..Len(pending') : Owns(pending[i], n)'
        <5>1. Owns(pending[1], n)'
          BY <3>2
        <5>2. Owns(pending'[1], n)
          BY <5>1 DEF Owns
        <5>3. \E i \in 1..Len(pending') : Owns(pending'[i], n)
          BY <2>i, <5>2
        <5> QED BY <5>3 DEF Owns
      <4> QED BY <4>1
    <3> QED BY <3>1, <3>3 DEF IsCounted
  <2>10. {} \in SUBSET Entries
    OBVIOUS
  <2>11. \E V \in SUBSET Entries : IsCounted(V)'
    BY <2>9, <2>10
  <2> QED BY <2>4, <2>5, <2>7, <2>8, <2>11 DEF WalkInv
<1> QED BY <1>1, <1>2

LEMMA RootKeeps ==
  ASSUME WalkInv, VisitRoot
  PROVE  WalkInv'
<1>1. /\ pc = "walk" /\ pending # <<>> /\ pending[1].do = "root"
      /\ root \in Entries /\ Due(pending[1]) /\ UNCHANGED tree
  BY NextTask DEF VisitRoot
<1>2. pending[1].entry = root /\ Kind[root] # "file" /\ root \in Seen
  BY <1>1 DEF Due
<1>3. PICK V \in SUBSET Entries : IsCounted(V)
  BY DEF WalkInv
<1>4. V \in SUBSET Counted(Seen) /\ metrics = MetricsOf(V) /\ metrics \in InventoryMetrics
  BY <1>3, CountedType DEF IsCounted, WalkInv, TypeOK
<1>5. CASE root \notin present
  <2>1. root \in gone
    BY <1>2, <1>5 DEF WalkInv, Remembered
  <2> QED BY <1>1, <1>5, <2>1, WalkFailed DEF VisitRoot
<1>6. CASE root \in present /\ Kind[root] = "directory"
  <2> DEFINE task == [do |-> "list", entry |-> root]
             ts   == <<task>>
  <2>1. pending' = ts \o Tail(pending) /\ pc' = pc /\ metrics' = metrics
    BY <1>6 DEF VisitRoot, Continue
  <2>2. task \in Task /\ task.do = "list" /\ task.entry = root
    BY <1>1 DEF Task
  <2>3. ts \in Seq(Task) /\ Len(ts) = 1 /\ ts[1] = task
    BY <2>2
  <2> HIDE DEF task
  <2>4. \A k \in 1..Len(ts) : k = 1 /\ ts[k] = task
    BY <2>3
  <2>5. Due(task)
    BY <1>1, <1>2, <1>6, <2>2, AboveSelf, RootNotExcluded DEF Due
  <2>6. \A n : Owns(task, n) <=> Owns(pending[1], n)
    BY <1>1, <1>2, <2>2 DEF Owns
  <2>7. 1 \in 1..Len(ts)
    BY <2>3
  <2>8. \A k \in 1..Len(ts) : Due(ts[k])
    BY <2>4, <2>5
  <2>9. \A k \in 1..Len(ts), n \in Entries : Owns(ts[k], n) => Owns(pending[1], n)
    BY <2>4, <2>6
  <2>10. \A n \in Counted(before \ gone) :
           Owns(pending[1], n) => n \in V \/ \E k \in 1..Len(ts) : Owns(ts[k], n)
    BY <2>3, <2>6, <2>7
  <2>11. \A j, k \in 1..Len(ts), n \in Entries : Owns(ts[j], n) /\ Owns(ts[k], n) => j = k
    BY <2>4
  <2> HIDE DEF ts
  <2> QED BY <1>1, <1>3, <1>4, <2>1, <2>3, <2>8, <2>9, <2>10, <2>11, TaskDone
<1>7. CASE root \in present /\ Kind[root] # "directory"
  <2>1. Continue(<<>>) /\ metrics' = metrics
    BY <1>7 DEF VisitRoot
  <2>2. ASSUME NEW n \in Counted(before \ gone), Owns(pending[1], n) PROVE FALSE
    <3>1. n \in Entries
      BY <2>2, StayingType
    <3>2. root \in Above[n] /\ root # n
      BY <1>1, <1>2, <2>2 DEF Owns
    <3> QED BY <1>7, <3>1, <3>2, AboveDirectory
  <2> QED BY <1>1, <1>3, <1>4, <2>1, <2>2, TaskClosed
<1> QED BY <1>5, <1>6, <1>7 DEF VisitRoot

LEMMA DirectoryKeeps ==
  ASSUME WalkInv, VisitDirectory
  PROVE  WalkInv'
<1>1. /\ pc = "walk" /\ pending # <<>> /\ pending[1].do = "visit" /\ UNCHANGED tree
      /\ entry = pending[1].entry /\ entry \in Entries /\ entry \in Seen
      /\ root \in Entries /\ Due(pending[1]) /\ 1 \in 1..Len(pending)
      /\ Do("visit") /\ Kind[entry] = "directory"
  BY NextTask DEF VisitDirectory
<1>2. Kind[root] # "file"
  BY <1>1 DEF Due
<1>3. entry # Top /\ root \in Above[Parent[entry]] /\ ~Excluded(Parent[entry])
  BY <1>1, <1>2 DEF Due
<1>4. /\ root \in Above[entry] /\ root # entry
      /\ Excluded(entry) <=> entry \in Git /\ Kind[entry] = "directory"
  BY <1>1, <1>3, ExcludedByParent
<1>5. PICK V \in SUBSET Entries : IsCounted(V)
  BY DEF WalkInv
<1>6. /\ V \in SUBSET Counted(Seen) /\ metrics = MetricsOf(V) /\ metrics \in InventoryMetrics
      /\ entry \notin V
  <2>1. Owns(pending[1], entry)
    BY <1>1, AboveSelf DEF Owns
  <2> QED BY <1>1, <1>5, <2>1, CountedType DEF IsCounted, WalkInv, TypeOK
<1>7. CASE entry \in Git
  <2>1. Continue(<<>>) /\ metrics' = metrics
    BY <1>7 DEF VisitDirectory
  <2>2. ASSUME NEW n \in Counted(before \ gone), Owns(pending[1], n) PROVE FALSE
    <3>1. ~Excluded(n)
      BY <1>2, <2>2 DEF Counted
    <3>2. entry \in Above[n]
      BY <1>1, <2>2 DEF Owns
    <3> QED BY <1>1, <1>4, <1>7, <3>1, <3>2 DEF Excluded
  <2> QED BY <1>1, <1>5, <1>6, <2>1, <2>2, TaskClosed
<1>8. CASE entry \notin Git
  <2> DEFINE task == [do |-> "list", entry |-> entry]
             ts   == <<task>>
             W    == V \cup {entry}
  <2>1. /\ pending' = ts \o Tail(pending) /\ pc' = pc
        /\ metrics' = [metrics EXCEPT !.descendantDirs = @ + 1]
    BY <1>8 DEF VisitDirectory, Continue
  <2>2. task \in Task /\ task.do = "list" /\ task.entry = entry
    BY <1>1 DEF Task
  <2>3. ts \in Seq(Task) /\ Len(ts) = 1 /\ ts[1] = task
    BY <2>2
  <2> HIDE DEF task
  <2>4. (\A k \in 1..Len(ts) : k = 1 /\ ts[k] = task) /\ 1 \in 1..Len(ts)
    BY <2>3
  <2>5. Due(task)
    BY <1>1, <1>4, <1>8, <2>2 DEF Due
  <2>6. \A n : Owns(pending[1], n) <=> entry \in Above[n]
    BY <1>1 DEF Owns
  <2>7. \A n : Owns(task, n) <=> entry \in Above[n] /\ entry # n
    BY <2>2 DEF Owns
  <2>8. W \in SUBSET Counted(Seen) /\ V \subseteq W
    BY <1>1, <1>6, <1>8, VisitedIsCounted
  <2>9. metrics' = MetricsOf(W)
    BY <1>1, <1>6, <2>1, DirectoryCounted
  <2>10. metrics' \in InventoryMetrics
    BY <1>6, <2>1 DEF InventoryMetrics
  <2>11. \A n \in W \ V : n = entry /\ Owns(pending[1], n) /\ ~Owns(task, n)
    BY <1>1, <2>6, <2>7, AboveSelf
  <2>12. \A k \in 1..Len(ts) : Due(ts[k])
    BY <2>4, <2>5
  <2>13. \A k \in 1..Len(ts), n \in Entries : Owns(ts[k], n) => Owns(pending[1], n)
    BY <2>4, <2>6, <2>7
  <2>14. \A j, k \in 1..Len(ts), n \in Entries : Owns(ts[j], n) /\ Owns(ts[k], n) => j = k
    BY <2>4
  <2>15. \A k \in 1..Len(ts), n \in W \ V : ~Owns(ts[k], n)
    BY <2>4, <2>11
  <2>16. \A n \in Counted(before \ gone) :
           Owns(pending[1], n) => n \in W \/ \E k \in 1..Len(ts) : Owns(ts[k], n)
    BY <2>4, <2>6, <2>7
  <2>17. \A n \in W \ V : Owns(pending[1], n)
    BY <2>11
  <2>18. pc = "walk" /\ pending # <<>> /\ UNCHANGED tree
    BY <1>1
  <2>19. pending' = ts \o Tail(pending) /\ pc' = pc
    BY <2>1
  <2>20. ts \in Seq(Task)
    BY <2>3
  <2> HIDE DEF ts, W
  <2> QED BY <1>5, <2>8, <2>9, <2>10, <2>12, <2>13, <2>14, <2>15, <2>16, <2>17, <2>18,
             <2>19, <2>20, TaskDone
<1> QED BY <1>7, <1>8

(* A function on 1..n is a sequence.                                       *)
LEMMA Listing ==
  ASSUME NEW T, NEW n \in Nat, NEW f \in [1..n -> T]
  PROVE  f \in Seq(T) /\ Len(f) = n
BY SeqDef, LenProperties

LEMMA ListKeeps ==
  ASSUME WalkInv, ListDirectory
  PROVE  WalkInv'
<1>1. /\ pc = "walk" /\ pending # <<>> /\ pending[1].do = "list" /\ UNCHANGED tree
      /\ entry = pending[1].entry /\ entry \in Entries /\ entry \in Seen
      /\ root \in Entries /\ Due(pending[1])
  BY NextTask DEF ListDirectory
<1>2. Kind[entry] = "directory" /\ root \in Above[entry] /\ ~Excluded(entry)
  BY <1>1 DEF Due
<1>3. Kind[root] # "file"
  BY <1>1, <1>2, AboveDirectory
<1>4. PICK V \in SUBSET Entries : IsCounted(V)
  BY DEF WalkInv
<1>5. V \in SUBSET Counted(Seen) /\ metrics = MetricsOf(V) /\ metrics \in InventoryMetrics
  BY <1>4, CountedType DEF IsCounted, WalkInv, TypeOK
<1>6. CASE ~CanRead(entry)
  <2>1. entry \in gone \cup refused
    BY <1>1, <1>6 DEF WalkInv, Remembered, CanRead
  <2>2. entry = root \/ entry \in Counted(before \cup come)
    BY <1>1, <1>2, <1>3 DEF Counted, Descendants, Seen
  <2> QED BY <1>1, <1>6, <2>1, <2>2, WalkFailed DEF ListDirectory
<1>7. CASE CanRead(entry)
  <2> DEFINE S      == Children(entry) \cap present
             listed == Sorted(S)
             ts     == [k \in DOMAIN listed |-> [do |-> "visit", entry |-> listed[k]]]
  <2>1. Continue(ts) /\ metrics' = metrics
    BY <1>7 DEF ListDirectory
  <2>2. S \in SUBSET Entries
    BY DEF Children
  <2>3. /\ listed \in Seq(S) /\ Len(listed) \in Nat
        /\ \A k \in 1..Len(listed) : listed[k] \in S
        /\ \A j, k \in 1..Len(listed) : listed[j] = listed[k] => j = k
        /\ \A n \in S : \E k \in 1..Len(listed) : listed[k] = n
    <3> HIDE DEF S
    <3> QED BY <2>2, SortedLists
  <2>4. DOMAIN listed = 1..Len(listed)
    <3> HIDE DEF listed
    <3> QED BY <2>3, LenProperties
  <2>5. /\ ts \in Seq(Task) /\ Len(ts) = Len(listed)
        /\ \A k \in 1..Len(ts) : ts[k].do = "visit" /\ ts[k].entry = listed[k]
    <3>1. \A k \in 1..Len(listed) : [do |-> "visit", entry |-> listed[k]] \in Task
      BY <2>2, <2>3 DEF Task
    <3> HIDE DEF listed
    <3>2. ts \in [1..Len(listed) -> Task]
      BY <2>4, <3>1
    <3>3. ts \in Seq(Task) /\ Len(ts) = Len(listed)
      <4> HIDE DEF ts
      <4> QED BY <2>3, <3>2, Listing
    <3>4. \A k \in 1..Len(listed) : ts[k] = [do |-> "visit", entry |-> listed[k]]
      BY <2>4
    <3> HIDE DEF ts
    <3>5. ASSUME NEW k \in 1..Len(ts) PROVE ts[k].do = "visit" /\ ts[k].entry = listed[k]
      <4>1. k \in 1..Len(listed)
        BY <3>3
      <4>2. ts[k] = [do |-> "visit", entry |-> listed[k]]
        BY <3>4, <4>1
      <4> QED BY <4>2
    <3> QED BY <3>3, <3>5
  <2>6. ASSUME NEW c \in S
        PROVE  /\ c \in Entries /\ c \in Children(entry) /\ c \in present /\ c # Top
               /\ Parent[c] = entry /\ entry \in Above[c] /\ entry # c
    BY <1>1, <2>2, ChildrenType
  <2>c. \A n \in Entries : entry \in Above[n] /\ entry # n =>
                             \E c \in Children(entry) : c \in Above[n]
    BY <1>1, BelowIsBelowChild
  <2> HIDE DEF S, listed, ts
  <2>7. \A k \in 1..Len(ts) : listed[k] \in S
    BY <2>3, <2>5
  <2>8. \A k \in 1..Len(ts) : Due(ts[k])
    <3>1. ASSUME NEW k \in 1..Len(ts) PROVE Due(ts[k])
      <4>1. listed[k] \in Seen
        BY <2>6, <2>7 DEF WalkInv, Remembered
      <4> QED BY <1>2, <1>3, <2>5, <2>6, <2>7, <4>1 DEF Due
    <3> QED BY <3>1
  <2>9. \A k \in 1..Len(ts), n \in Entries :
          Owns(ts[k], n) => Owns(pending[1], n) /\ listed[k] \in Above[n]
    <3>1. ASSUME NEW k \in 1..Len(ts), NEW n \in Entries, Owns(ts[k], n)
          PROVE  Owns(pending[1], n) /\ listed[k] \in Above[n]
      <4>1. listed[k] \in Above[n]
        BY <2>5, <3>1 DEF Owns
      <4>2. entry \in Above[listed[k]] /\ entry # listed[k] /\ listed[k] \in Entries
        BY <2>6, <2>7
      <4>3. entry \in Above[n]
        BY <4>1, <4>2, AboveTransitive
      <4>4. entry # n
        BY <1>1, <4>1, <4>2, AboveAntisymmetric
      <4> QED BY <1>1, <4>1, <4>3, <4>4 DEF Owns
    <3> QED BY <3>1
  <2>10. \A j, k \in 1..Len(ts), n \in Entries : Owns(ts[j], n) /\ Owns(ts[k], n) => j = k
    <3>1. ASSUME NEW j \in 1..Len(ts), NEW k \in 1..Len(ts), NEW n \in Entries,
                 Owns(ts[j], n), Owns(ts[k], n)
          PROVE  j = k
      <4>1. listed[j] \in Above[n] /\ listed[k] \in Above[n]
        BY <2>9, <3>1
      <4>2. listed[j] \in Children(entry) /\ listed[k] \in Children(entry)
        BY <2>6, <2>7
      <4>3. listed[j] = listed[k]
        BY <1>1, <4>1, <4>2, SiblingsApart
      <4> QED BY <2>3, <2>5, <4>3
    <3> QED BY <3>1
  <2>11. ASSUME NEW n \in Counted(before \ gone), Owns(pending[1], n)
         PROVE  \E k \in 1..Len(ts) : Owns(ts[k], n)
    <3>1. n \in Entries /\ entry \in Above[n] /\ entry # n
      BY <1>1, <2>11, StayingType DEF Owns
    <3>2. PICK c \in Children(entry) : c \in Above[n]
      BY <2>c, <3>1
    <3>3. n \in present
      <4>1. n \in before \ gone
        BY <2>11 DEF Counted, Descendants
      <4> QED BY <4>1 DEF WalkInv, Remembered, Seen
    <3>4. c \in present
      BY <3>2, <3>3 DEF WalkInv, TypeOK, Closed
    <3>5. c \in S
      BY <3>2, <3>4 DEF S
    <3>6. PICK k \in 1..Len(ts) : listed[k] = c
      BY <2>3, <2>5, <3>5
    <3>7. Owns(ts[k], n)
      BY <2>5, <3>2, <3>6 DEF Owns
    <3> QED BY <3>7
  <2>12. pending' = ts \o Tail(pending) /\ pc' = pc
    BY <2>1 DEF Continue
  <2>13. \A k \in 1..Len(ts), n \in Entries : Owns(ts[k], n) => Owns(pending[1], n)
    BY <2>9
  <2>14. V \ V = {}
    OBVIOUS
  <2>15. \A n \in Counted(before \ gone) :
           Owns(pending[1], n) => n \in V \/ \E k \in 1..Len(ts) : Owns(ts[k], n)
    BY <2>11
  <2> QED BY <1>1, <1>4, <1>5, <2>1, <2>5, <2>8, <2>10, <2>12, <2>13, <2>14, <2>15, TaskDone
<1> QED BY <1>6, <1>7

LEMMA FileKeeps ==
  ASSUME WalkInv, CountFile
  PROVE  WalkInv'
<1>1. /\ pc = "walk" /\ pending # <<>> /\ pending[1].do = "visit" /\ UNCHANGED tree
      /\ entry = pending[1].entry /\ entry \in Entries /\ entry \in Seen
      /\ root \in Entries /\ Due(pending[1]) /\ 1 \in 1..Len(pending)
      /\ Do("visit") /\ Kind[entry] # "directory"
  BY NextTask DEF CountFile
<1>2. entry \in Counted(Seen)
  BY <1>1, VisitedIsCounted
<1>3. PICK V \in SUBSET Entries : IsCounted(V)
  BY DEF WalkInv
<1>4. /\ V \in SUBSET Counted(Seen) /\ metrics = MetricsOf(V) /\ metrics \in InventoryMetrics
      /\ entry \notin V
  <2>1. Owns(pending[1], entry)
    BY <1>1, AboveSelf DEF Owns
  <2> QED BY <1>1, <1>3, <2>1, CountedType DEF IsCounted, WalkInv, TypeOK
<1>5. CASE ~CanRead(entry)
  <2>1. entry \in gone \cup refused
    BY <1>1, <1>5 DEF WalkInv, Remembered, CanRead
  <2>2. entry \in Counted(before \cup come)
    BY <1>2 DEF Seen
  <2> QED BY <1>1, <1>5, <2>1, <2>2, WalkFailed DEF CountFile
<1>6. CASE Kind[entry] = "link"
  <2>1. \E n \in Counted(before \cup come) : Kind[n] = "link"
    BY <1>2, <1>6 DEF Seen
  <2> QED BY <1>1, <1>6, <2>1, WalkFailed DEF CountFile
<1>7. CASE CanRead(entry) /\ Kind[entry] # "link"
  <2> DEFINE W == V \cup {entry}
             lines == physicalLines(Content[entry])
  <2>1. Kind[entry] = "file"
    BY <1>1, <1>7, TreeShape
  <2>2. /\ Continue(<<>>)
        /\ metrics' = [metrics EXCEPT
                         !.descendantFiles = @ + 1,
                         !.physicalLines = @ + lines,
                         !.goLines = @ + (IF Extension[entry] = ".go" THEN lines ELSE 0),
                         !.goooLines = @ + (IF Extension[entry] = ".gooo" THEN lines ELSE 0)]
    BY <1>7 DEF CountFile
  <2>3. lines \in Nat
    BY <1>1, LinesCounted
  <2>4. metrics' = MetricsOf(W)
    <3>1. lines = physicalLines(Content[entry])
      OBVIOUS
    <3>2. metrics'
            = [metrics EXCEPT
                 !.descendantFiles = @ + 1,
                 !.physicalLines = @ + lines,
                 !.goLines = @ + (IF Extension[entry] = ".go" THEN lines ELSE 0),
                 !.goooLines = @ + (IF Extension[entry] = ".gooo" THEN lines ELSE 0)]
      BY <2>2
    <3>3. metrics = MetricsOf(V) /\ entry \in Entries /\ entry \notin V
      BY <1>1, <1>4
    <3>4. metrics = [f \in MetricNames |-> metrics[f]] /\ DOMAIN metrics = MetricNames
      BY <3>3 DEF MetricsOf, MetricNames
    <3> HIDE DEF lines
    <3>5. /\ metrics' = [f \in MetricNames |-> metrics'[f]]
          /\ metrics'.descendantDirs = metrics.descendantDirs
          /\ metrics'.descendantFiles = metrics.descendantFiles + 1
          /\ metrics'.physicalLines = metrics.physicalLines + lines
          /\ metrics'.goLines
               = metrics.goLines + (IF Extension[entry] = ".go" THEN lines ELSE 0)
          /\ metrics'.goooLines
               = metrics.goooLines + (IF Extension[entry] = ".gooo" THEN lines ELSE 0)
      BY <3>2, <3>4 DEF MetricNames
    <3> QED BY <2>1, <3>1, <3>3, <3>5, FileCounted
  <2>5. metrics' \in InventoryMetrics
    <3>1. W \in SUBSET Entries
      BY <1>1
    <3> HIDE DEF W
    <3> QED BY <2>4, <3>1, MetricsType
  <2>6. W \in SUBSET Counted(Seen) /\ V \subseteq W
    BY <1>2, <1>4
  <2>7. \A n \in W \ V : Owns(pending[1], n)
    BY <1>1, AboveSelf DEF Owns
  <2>8. ASSUME NEW n \in Counted(before \ gone), Owns(pending[1], n) PROVE n \in W
    <3>1. n \in Entries /\ entry \in Above[n]
      BY <1>1, <2>8, StayingType DEF Owns
    <3>2. entry = n
      BY <1>1, <3>1, AboveDirectory
    <3> QED BY <3>2
  <2> HIDE DEF W
  <2> QED BY <1>1, <1>3, <2>2, <2>4, <2>5, <2>6, <2>7, <2>8, TaskClosed
<1> QED BY <1>5, <1>6, <1>7

LEMMA ReturnKeeps ==
  ASSUME WalkInv, ReturnMetrics
  PROVE  WalkInv'
<1>u. /\ UNCHANGED <<root, present, barred, before, come, gone, refused, changes, pending, metrics>>
      /\ pc = "walk" /\ pc' = "done" /\ pending = <<>>
  BY DEF ReturnMetrics, tree
<1>0. Len(<<>>) = 0
  OBVIOUS
<1>i. \A i : ~(i \in 1..Len(pending'))
  BY <1>u, <1>0
<1>1. TypeOK'
  BY <1>u DEF WalkInv, TypeOK
<1>2. Remembered' /\ OnlyWalking' /\ FailsOnlyWhenDisturbed'
  BY <1>u DEF WalkInv, Remembered, OnlyWalking, FailsOnlyWhenDisturbed, Seen
<1>3. (\A i \in 1..Len(pending) : Due(pending[i]))' /\ Apart'
  BY <1>i DEF Apart
<1>4. PICK V \in SUBSET Entries : IsCounted(V)
  BY DEF WalkInv
<1>5. /\ Counted(before \cup come)' = Counted(before \cup come)
      /\ Counted(before \ gone)' = Counted(before \ gone)
  BY <1>u DEF Counted, Descendants, Excluded
<1>6. \A n \in Counted(before \ gone) : n \in V
  BY <1>u, <1>4, <1>0 DEF IsCounted
<1>7. IsCounted(V)'
  BY <1>u, <1>i, <1>4, <1>5, <1>6 DEF IsCounted, Seen
<1> QED BY <1>1, <1>2, <1>3, <1>7 DEF WalkInv

(* What is to be counted of more entries is more.                          *)
LEMMA CountedMonotone ==
  ASSUME NEW T, NEW S \in SUBSET T
  PROVE  Counted(S) \subseteq Counted(T)
BY DEF Counted, Descendants

(* A change of the tree leaves the walk what it has done and has to do.    *)
LEMMA TreeChanged ==
  ASSUME WalkInv, UNCHANGED <<root, before, pending, metrics, pc>>,
         present' \in SUBSET Entries, Closed(present'), changes' \in 0..MaxChanges,
         come' \in SUBSET Entries, come \subseteq come',
         gone' \in SUBSET Entries, gone \subseteq gone',
         barred' \in SUBSET Entries, refused' \in SUBSET Entries, refused \subseteq refused',
         Remembered'
  PROVE  WalkInv'
<1>1. TypeOK'
  BY DEF WalkInv, TypeOK
<1>2. OnlyWalking'
  BY DEF WalkInv, OnlyWalking
<1>3. Seen \subseteq Seen'
  BY DEF Seen
<1>4. ASSUME NEW i \in 1..Len(pending) PROVE Due(pending[i])'
  <2>1. Due(pending[i])
    BY DEF WalkInv
  <2> QED BY <1>3, <2>1 DEF Due, Excluded
<1>5. (\A i \in 1..Len(pending) : Due(pending[i]))'
  BY <1>4
<1>6. Apart'
  BY DEF WalkInv, Apart, Owns
<1>7. PICK V \in SUBSET Entries : IsCounted(V)
  BY DEF WalkInv
<1>8. /\ Counted(Seen) \subseteq Counted(Seen)'
      /\ Counted(before \ gone)' \subseteq Counted(before \ gone)
  <2>1. Seen \in SUBSET Seen' /\ (before \ gone)' \in SUBSET (before \ gone)
    BY <1>3
  <2> QED BY <2>1 DEF Counted, Descendants, Excluded
<1>9. IsCounted(V)'
  BY <1>7, <1>8 DEF IsCounted, Owns
<1>10. FailsOnlyWhenDisturbed'
  BY <1>8 DEF WalkInv, FailsOnlyWhenDisturbed, Seen
<1> QED BY <1>1, <1>2, <1>5, <1>6, <1>9, <1>10 DEF WalkInv

LEMMA ChangeKeeps ==
  ASSUME WalkInv, Change
  PROVE  WalkInv'
<1>1. /\ UNCHANGED <<root, before, pending, metrics, pc>> /\ changes' \in 0..MaxChanges
      /\ present \in SUBSET Entries /\ Closed(present) /\ Top \in Entries
      /\ come \in SUBSET Entries /\ gone \in SUBSET Entries
      /\ barred \in SUBSET Entries /\ refused \in SUBSET Entries
  <2>1. changes < MaxChanges /\ changes' = changes + 1
        /\ UNCHANGED <<root, before, pending, metrics, pc>>
    BY DEF Change
  <2>2. MaxChanges \in Nat /\ Top \in Entries
    BY InventoryAssumption
  <2>3. /\ changes \in 0..MaxChanges /\ present \in SUBSET Entries /\ Closed(present)
        /\ come \in SUBSET Entries /\ gone \in SUBSET Entries
        /\ barred \in SUBSET Entries /\ refused \in SUBSET Entries
    BY DEF WalkInv, TypeOK
  <2> QED BY <2>1, <2>2, <2>3
<1>2. CASE \E n \in Entries \ present :
             /\ n # Top => Parent[n] \in present /\ Kind[Parent[n]] = "directory"
             /\ present' = present \cup {n}
             /\ come' = come \cup {n}
             /\ UNCHANGED <<gone, barred, refused>>
  <2>1. PICK n \in Entries \ present :
             /\ n # Top => Parent[n] \in present
             /\ present' = present \cup {n}
             /\ come' = come \cup {n}
             /\ UNCHANGED <<gone, barred, refused>>
    BY <1>2
  <2>2. Above[n] \subseteq present'
    <3>1. CASE n = Top
      BY <2>1, <3>1, AboveTop
    <3>2. CASE n # Top
      BY <1>1, <2>1, <3>2, AboveParent DEF Closed
    <3> QED BY <3>1, <3>2
  <2>3. Closed(present')
    BY <1>1, <2>1, <2>2 DEF Closed
  <2>4. Remembered'
    BY <1>1, <2>1 DEF WalkInv, Remembered, Seen
  <2> QED BY <1>1, <2>1, <2>3, <2>4, TreeChanged
<1>3. CASE \E n \in present :
             /\ present' = present \ Below(n)
             /\ gone' = gone \cup (present \cap Below(n))
             /\ UNCHANGED <<come, barred, refused>>
  <2>1. PICK n \in present :
             /\ present' = present \ Below(n)
             /\ gone' = gone \cup (present \cap Below(n))
             /\ UNCHANGED <<come, barred, refused>>
    BY <1>3
  <2>2. ASSUME NEW m \in present', NEW a \in Above[m] PROVE a \in present'
    <3>1. m \in present /\ m \in Entries /\ m \notin Below(n)
      BY <1>1, <2>1
    <3>2. a \in present /\ a \in Entries
      BY <1>1, <3>1 DEF Closed
    <3>3. ASSUME n \in Above[a] PROVE FALSE
      <4>1. n \in Above[m]
        BY <1>1, <3>1, <3>2, <3>3, AboveTransitive
      <4> QED BY <3>1, <4>1 DEF Below
    <3> QED BY <2>1, <3>2, <3>3 DEF Below
  <2>3. Closed(present')
    BY <2>2 DEF Closed
  <2>4. Remembered'
    BY <1>1, <2>1 DEF WalkInv, Remembered, Seen
  <2> QED BY <1>1, <2>1, <2>3, <2>4, TreeChanged
<1>4. CASE \E n \in present :
             /\ barred' = IF n \in barred THEN barred \ {n} ELSE barred \cup {n}
             /\ refused' = refused \cup barred'
             /\ UNCHANGED <<present, come, gone>>
  <2>1. /\ barred' \in SUBSET Entries /\ refused' = refused \cup barred'
        /\ UNCHANGED <<present, come, gone>>
    BY <1>1, <1>4
  <2>2. Closed(present') /\ refused' \in SUBSET Entries
    BY <1>1, <2>1
  <2>3. Remembered'
    BY <1>1, <2>1 DEF WalkInv, Remembered, Seen
  <2> QED BY <1>1, <2>1, <2>2, <2>3, TreeChanged
<1> QED BY <1>2, <1>3, <1>4 DEF Change

-----------------------------------------------------------------------------
(* The walk keeps its invariant: main.go:315-366, with any changes of the  *)
(* tree before, between and after the steps of filepath.WalkDir.           *)
THEOREM WalkInvariant == Spec => []WalkInv
<1>1. Init => WalkInv
  <2> SUFFICES ASSUME Init PROVE WalkInv
    OBVIOUS
  <2>1. /\ root \in Roots /\ present \in SUBSET Entries /\ Closed(present)
        /\ before = present /\ come = {} /\ gone = {} /\ changes = 0
        /\ barred \in SUBSET Entries /\ refused = barred
        /\ pending = <<>> /\ metrics = Nothing /\ pc = "stat"
    BY InventoryAssumption DEF Init
  <2>2. <<>> \in Seq(Task) /\ Len(<<>>) = 0
    BY EmptySeq
  <2>3. Nothing \in InventoryMetrics /\ 0 \in 0..MaxChanges
    <3>1. MaxChanges \in Nat
      BY InventoryAssumption
    <3>2. Nothing \in InventoryMetrics
      BY DEF Nothing, InventoryMetrics
    <3> QED BY <3>1, <3>2
  <2>i. \A i : ~(i \in 1..Len(pending))
    BY <2>1, <2>2
  <2>4. TypeOK
    BY <2>1, <2>2, <2>3 DEF TypeOK
  <2>5. Remembered /\ OnlyWalking /\ FailsOnlyWhenDisturbed
    BY <2>1 DEF Remembered, OnlyWalking, FailsOnlyWhenDisturbed, Seen
  <2>6. (\A i \in 1..Len(pending) : Due(pending[i])) /\ Apart
    BY <2>i DEF Apart
  <2>7. {} \in SUBSET Entries /\ IsCounted({})
    BY <2>1, NothingCounted DEF IsCounted
  <2> QED BY <2>4, <2>5, <2>6, <2>7 DEF WalkInv
<1>2. WalkInv /\ [Next]_vars => WalkInv'
  <2> SUFFICES ASSUME WalkInv, [Next]_vars PROVE WalkInv'
    OBVIOUS
  <2>1. CASE StatRoot
    BY <2>1, StatKeeps
  <2>2. CASE VisitRoot
    BY <2>2, RootKeeps
  <2>3. CASE VisitDirectory
    BY <2>3, DirectoryKeeps
  <2>4. CASE ListDirectory
    BY <2>4, ListKeeps
  <2>5. CASE CountFile
    BY <2>5, FileKeeps
  <2>6. CASE ReturnMetrics
    BY <2>6, ReturnKeeps
  <2>7. CASE Change
    BY <2>7, ChangeKeeps
  <2>8. CASE UNCHANGED vars
    <3>1. UNCHANGED <<root, before, pending, metrics, pc, present, changes, come, gone,
                      barred, refused>>
      BY <2>8 DEF vars, tree
    <3>2. /\ present' \in SUBSET Entries /\ Closed(present') /\ changes' \in 0..MaxChanges
          /\ come' \in SUBSET Entries /\ gone' \in SUBSET Entries
          /\ barred' \in SUBSET Entries /\ refused' \in SUBSET Entries
      BY <3>1 DEF WalkInv, TypeOK
    <3>3. Remembered'
      BY <3>1 DEF WalkInv, Remembered, Seen
    <3> QED BY <3>1, <3>2, <3>3, TreeChanged
  <2> QED BY <2>1, <2>2, <2>3, <2>4, <2>5, <2>6, <2>7, <2>8 DEF Next, Step, Returned
<1> QED BY <1>1, <1>2, PTL DEF Spec

(* Every variable of the walk holds a value of its kind, no count is below *)
(* 0, and no entry is there without its directory (main.go:315-366).       *)
THEOREM TypeCorrect == Spec => []TypeOK
<1>1. WalkInv => TypeOK
  BY DEF WalkInv
<1> QED BY <1>1, WalkInvariant, PTL

(* The counts of measureInventory (main.go:315-366) are at least those of  *)
(* the entries that stay and at most those of all that ever were there,    *)
(* whatever is created and removed while the walk goes on; when nothing is *)
(* they are those of the tree.                                             *)
THEOREM StayingCounted == Spec => []CountsWhatStays
<1>1. WalkInv => CountsWhatStays
  <2> SUFFICES ASSUME WalkInv, pc = "done"
               PROVE  /\ AtMost(MetricsOf(Counted(before \ gone)), metrics)
                      /\ AtMost(metrics, MetricsOf(Counted(before \cup come)))
    BY DEF CountsWhatStays
  <2>1. PICK V \in SUBSET Entries : IsCounted(V)
    BY DEF WalkInv
  <2>2. \A i : ~(i \in 1..Len(pending))
    <3>1. pending = <<>> /\ Len(<<>>) = 0
      BY DEF WalkInv, OnlyWalking
    <3> QED BY <3>1
  <2>3. metrics = MetricsOf(V) /\ V \in SUBSET Counted(Seen)
        /\ Counted(before \ gone) \in SUBSET V
    BY <2>1, <2>2 DEF IsCounted
  <2>4. Counted(Seen) \in SUBSET Entries
    <3>1. Seen \in SUBSET Entries
      BY TypeFacts
    <3> QED BY <3>1 DEF Counted, Descendants
  <2>5. AtMost(MetricsOf(Counted(before \ gone)), MetricsOf(V))
    BY <2>3, MetricsMonotone
  <2>6. AtMost(MetricsOf(V), MetricsOf(Counted(Seen)))
    BY <2>3, <2>4, MetricsMonotone
  <2> QED BY <2>3, <2>5, <2>6 DEF Seen
<1> QED BY <1>1, WalkInvariant, PTL

(* measureInventory (main.go:315-366) returns an error only for a root     *)
(* that was not there, or for the root or an entry that is to be counted   *)
(* and was removed, could not be read at some time, or is a link to a      *)
(* directory, whatever else is created, removed or barred meanwhile.       *)
THEOREM FailsForReason == Spec => []FailsOnlyWhenDisturbed
<1>1. WalkInv => FailsOnlyWhenDisturbed
  BY DEF WalkInv
<1> QED BY <1>1, WalkInvariant, PTL
=============================================================================
