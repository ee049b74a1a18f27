------------------------ MODULE ProtectiveGroups_proofs ------------------------
(***************************************************************************)
(* Proofs about ProtectiveGroups, for any number of entries and any sizes. *)
(*                                                                         *)
(* Fits carries PollFits through a poll: while it maintains the legs, what *)
(* a group may still take of the holding (Share) is its target as long as  *)
(* the poll has to visit it, and what its guard covers from then on, and   *)
(* all shares together are within the holding, but for what submits have   *)
(* slipped out of it since.  Alone says what a guard is while its          *)
(* successor is placed, for GuardsOwned; Noticed, that a filled guard is   *)
(* known as such before anything is sized, for NeverRearmed.               *)
(***************************************************************************)
EXTENDS ProtectiveGroups, FiniteSetTheorems, TLAPS

LEMMA Induction ==
  ASSUME NEW T, 0 \in T, \A n \in Nat : n \in T => n + 1 \in T
  PROVE  \A n \in Nat : n \in T
<1>1. SUFFICES ASSUME Nat \ T # {} PROVE FALSE
  OBVIOUS
<1> DEFINE R == OpToRel(<, Nat)
<1>2. IsWellFoundedOn(R, Nat)
  BY NatLessThanWellFounded
<1>3. R = {pair \in Nat \X Nat : pair[1] < pair[2]}
  BY DEF OpToRel
<1> HIDE DEF R
<1>4. PICK n \in Nat \ T : \A m \in Nat \ T : ~ (<<m, n>> \in R)
  <2> DEFINE U == Nat \ T
  <2>1. U \subseteq Nat /\ U # {}
    BY <1>1
  <2> HIDE DEF U
  <2>2. \E x \in U : \A y \in U : ~ (<<y, x>> \in R)
    BY <1>2, <2>1, WFMin
  <2> QED BY <2>2 DEF U
<1>5. n # 0 /\ n - 1 \in Nat
  OBVIOUS
<1>6. <<n - 1, n>> \in R
  BY ONLY n \in Nat, <1>3, <1>5
<1>7. n - 1 \in T
  BY <1>4, <1>5, <1>6
<1> QED BY <1>5, <1>7

----------------------------------------------------------------------------
(* Sums.                                                                   *)

First(s) == CHOOSE x \in s : TRUE
IsFold(f, S, g) == g = [s \in SUBSET S |-> IF s = {} THEN 0 ELSE f[First(s)] + g[s \ {First(s)}]]

LEMMA Sizes ==
  ASSUME NEW S, IsFiniteSet(S), NEW s \in SUBSET S
  PROVE  /\ Cardinality(s) \in Nat
         /\ s # {} => /\ First(s) \in s /\ s \ {First(s)} \in SUBSET S
                      /\ Cardinality(s) >= 1 /\ Cardinality(s \ {First(s)}) = Cardinality(s) - 1
<1>1. IsFiniteSet(s) /\ Cardinality(s) \in Nat
  BY FS_Subset, FS_CardinalityType
<1>2. ASSUME s # {}
      PROVE  /\ First(s) \in s /\ s \ {First(s)} \in SUBSET S
             /\ Cardinality(s) >= 1 /\ Cardinality(s \ {First(s)}) = Cardinality(s) - 1
  <2>1. First(s) \in s
    BY <1>2 DEF First
  <2> DEFINE x == First(s)
  <2> HIDE DEF x
  <2>2. Cardinality(s \ {x}) = IF x \in s THEN Cardinality(s) - 1 ELSE Cardinality(s)
    BY ONLY <1>1, FS_RemoveElement
  <2>3. Cardinality(s) # 0
    BY <1>1, <1>2, FS_EmptySet
  <2> QED BY <1>1, <2>1, <2>2, <2>3 DEF x
<1> QED BY <1>1, <1>2

LEMMA FoldExists ==
  ASSUME NEW S, IsFiniteSet(S), NEW f, \A x \in S : f[x] \in Nat
  PROVE  \E g : IsFold(f, S, g)
<1> DEFINE Right(n) ==
             {g \in [SUBSET S -> Nat] : \A s \in SUBSET S : Cardinality(s) <= n =>
                g[s] = IF s = {} THEN 0 ELSE f[First(s)] + g[s \ {First(s)}]}
           T == {n \in Nat : Right(n) # {}}
<1>1. 0 \in T
  <2> DEFINE z == [s \in SUBSET S |-> 0]
  <2>1. ASSUME NEW s \in SUBSET S, Cardinality(s) <= 0 PROVE s = {}
    <3>1. s # {} => Cardinality(s) >= 1 /\ Cardinality(s) \in Nat
      BY Sizes
    <3> QED BY <2>1, <3>1
  <2>2. z \in [SUBSET S -> Nat] /\ \A s \in SUBSET S : z[s] = 0
    OBVIOUS
  <2> HIDE DEF z
  <2>3. z \in Right(0)
    BY <2>1, <2>2
  <2> HIDE DEF Right
  <2> QED BY <2>3
<1>2. ASSUME NEW n \in Nat, n \in T PROVE n + 1 \in T
  <2>1. PICK g : g \in Right(n)
    <3> HIDE DEF Right
    <3> QED BY <1>2
  <2> DEFINE h == [s \in SUBSET S |-> IF s = {} THEN 0 ELSE f[First(s)] + g[s \ {First(s)}]]
  <2>2. /\ g \in [SUBSET S -> Nat]
        /\ \A s \in SUBSET S : Cardinality(s) <= n => g[s] = h[s]
    BY <2>1
  <2>3. \A s \in SUBSET S : /\ h[s] = IF s = {} THEN 0 ELSE f[First(s)] + g[s \ {First(s)}]
                            /\ h[s] \in Nat
    <3> TAKE s \in SUBSET S
    <3>1. h[s] = IF s = {} THEN 0 ELSE f[First(s)] + g[s \ {First(s)}]
      OBVIOUS
    <3>2. s # {} => First(s) \in S /\ s \ {First(s)} \in SUBSET S
      BY Sizes
    <3> HIDE DEF h
    <3>3. s # {} => f[First(s)] \in Nat /\ g[s \ {First(s)}] \in Nat
      BY <2>2, <3>2
    <3> QED BY <3>1, <3>3
  <2>4. h \in [SUBSET S -> Nat]
    BY <2>3
  <2> HIDE DEF h
  <2>5. \A s \in SUBSET S : Cardinality(s) <= n + 1 =>
          h[s] = IF s = {} THEN 0 ELSE f[First(s)] + h[s \ {First(s)}]
    <3> TAKE s \in SUBSET S
    <3> HAVE Cardinality(s) <= n + 1
    <3>1. ASSUME s # {} PROVE h[s \ {First(s)}] = g[s \ {First(s)}]
      <4>1. /\ Cardinality(s) \in Nat /\ s \ {First(s)} \in SUBSET S
            /\ Cardinality(s \ {First(s)}) = Cardinality(s) - 1
        BY <3>1, Sizes
      <4>2. Cardinality(s \ {First(s)}) <= n
        BY <4>1
      <4> QED BY <2>2, <4>1, <4>2
    <3> QED BY <2>3, <3>1
  <2>6. h \in Right(n + 1)
    BY <2>4, <2>5
  <2> HIDE DEF Right
  <2> QED BY <2>6
<1>3. Cardinality(S) \in T
  <2>1. Cardinality(S) \in Nat
    BY FS_CardinalityType
  <2> HIDE DEF T
  <2> QED BY <1>1, <1>2, <2>1, Induction
<1>4. PICK g : g \in Right(Cardinality(S))
  <2> HIDE DEF Right
  <2> QED BY <1>3
<1>5. \A s \in SUBSET S : Cardinality(s) <= Cardinality(S)
  BY FS_Subset
<1>6. g = [s \in SUBSET S |-> IF s = {} THEN 0 ELSE f[First(s)] + g[s \ {First(s)}]]
  BY <1>4, <1>5
<1> QED BY <1>6 DEF IsFold

LEMMA SumIsFold ==
  ASSUME NEW S, IsFiniteSet(S), NEW f, \A x \in S : f[x] \in Nat
  PROVE  \E g : IsFold(f, S, g) /\ SumFunctionOnSet(f, S) = g[S]
<1> DEFINE g == CHOOSE g : IsFold(f, S, g)
<1>1. IsFold(f, S, g)
  BY FoldExists
<1>2. SumFunctionOnSet(f, S) = g[S]
  BY DEF SumFunctionOnSet, FoldFunctionOnSet, MapThenFoldSet, IsFold, First
<1> QED BY <1>1, <1>2

(* A summand that is q larger makes the sum q larger.                      *)
Larger(S, f, h, at, q) == \A x \in S : f[x] \in Nat /\ h[x] = f[x] + (IF x = at THEN q ELSE 0)

LEMMA FoldsDiffer ==
  ASSUME NEW S, IsFiniteSet(S), NEW f, NEW h, NEW at, NEW q \in Nat, Larger(S, f, h, at, q),
         NEW g, IsFold(f, S, g), NEW k, IsFold(h, S, k)
  PROVE  g[S] \in Nat /\ k[S] = g[S] + (IF at \in S THEN q ELSE 0)
<1> DEFINE T == {n \in Nat : \A s \in SUBSET S : Cardinality(s) = n =>
                    g[s] \in Nat /\ k[s] = g[s] + (IF at \in s THEN q ELSE 0)}
<1>0. \A s \in SUBSET S : /\ g[s] = IF s = {} THEN 0 ELSE f[First(s)] + g[s \ {First(s)}]
                          /\ k[s] = IF s = {} THEN 0 ELSE h[First(s)] + k[s \ {First(s)}]
  BY DEF IsFold
<1>1. 0 \in T
  <2>1. ASSUME NEW s \in SUBSET S, Cardinality(s) = 0 PROVE s = {}
    <3>1. s # {} => Cardinality(s) >= 1
      BY Sizes
    <3> QED BY <2>1, <3>1
  <2>2. g[{}] = 0 /\ k[{}] = 0
    BY <1>0
  <2> QED BY <2>1, <2>2
<1>2. ASSUME NEW n \in Nat, n \in T PROVE n + 1 \in T
  <2>1. ASSUME NEW s \in SUBSET S, Cardinality(s) = n + 1
        PROVE  g[s] \in Nat /\ k[s] = g[s] + (IF at \in s THEN q ELSE 0)
    <3>1. s # {}
      BY <2>1, FS_EmptySet
    <3> DEFINE x == First(s)
               r == s \ {x}
    <3>2. x \in s /\ x \in S /\ r \in SUBSET S /\ Cardinality(r) = n /\ (at \in r <=> at \in s /\ at # x)
      BY <2>1, <3>1, Sizes
    <3>3. g[s] = f[x] + g[r] /\ k[s] = h[x] + k[r]
      BY <1>0, <3>1
    <3> HIDE DEF x, r
    <3>4. g[r] \in Nat /\ k[r] = g[r] + (IF at \in r THEN q ELSE 0)
      BY <1>2, <3>2
    <3>5. f[x] \in Nat /\ h[x] = f[x] + (IF x = at THEN q ELSE 0)
      BY <3>2 DEF Larger
    <3> QED BY <3>2, <3>3, <3>4, <3>5
  <2> QED BY <2>1
<1> HIDE DEF T
<1>3. Cardinality(S) \in T
  BY FS_CardinalityType, <1>1, <1>2, Induction
<1> QED BY <1>3 DEF T

LEMMA SumGrows ==
  ASSUME NEW S, IsFiniteSet(S), NEW f, NEW h, NEW at, NEW q \in Nat, Larger(S, f, h, at, q)
  PROVE  SumFunctionOnSet(h, S) = SumFunctionOnSet(f, S) + (IF at \in S THEN q ELSE 0)
<1>1. ASSUME NEW x \in S PROVE f[x] \in Nat /\ h[x] \in Nat
  <2>1. f[x] \in Nat /\ h[x] = f[x] + (IF x = at THEN q ELSE 0)
    BY DEF Larger
  <2> QED BY <2>1
<1>2. PICK g : IsFold(f, S, g) /\ SumFunctionOnSet(f, S) = g[S]
  BY <1>1, SumIsFold
<1>3. PICK k : IsFold(h, S, k) /\ SumFunctionOnSet(h, S) = k[S]
  BY <1>1, SumIsFold
<1>4. k[S] = g[S] + (IF at \in S THEN q ELSE 0)
  BY <1>2, <1>3, FoldsDiffer
<1> QED BY <1>2, <1>3, <1>4

LEMMA SumIsNat ==
  ASSUME NEW S, IsFiniteSet(S), NEW f, \A x \in S : f[x] \in Nat
  PROVE  SumFunctionOnSet(f, S) \in Nat
<1>1. PICK g : IsFold(f, S, g) /\ SumFunctionOnSet(f, S) = g[S]
  BY SumIsFold
<1>2. Larger(S, f, f, S, 0)
  <2>1. \A x \in S : (IF x = S THEN 0 ELSE 0) = 0
    OBVIOUS
  <2> QED BY <2>1 DEF Larger
<1>3. g[S] \in Nat
  <2>1. 0 \in Nat
    OBVIOUS
  <2> QED BY <1>1, <1>2, <2>1, FoldsDiffer
<1> QED BY <1>1, <1>3

LEMMA SumMoves ==
  ASSUME NEW S, IsFiniteSet(S), NEW f, NEW h, NEW at \in S,
         \A x \in S : f[x] \in Nat /\ h[x] \in Nat, \A x \in S \ {at} : h[x] = f[x]
  PROVE  SumFunctionOnSet(h, S) + f[at] = SumFunctionOnSet(f, S) + h[at]
<1> DEFINE b == [x \in S |-> IF x = at THEN 0 ELSE f[x]]
<1>1. \A x \in S : b[x] \in Nat /\ b[x] = IF x = at THEN 0 ELSE f[x]
  OBVIOUS
<1> HIDE DEF b
<1>2. Larger(S, b, f, at, f[at]) /\ Larger(S, b, h, at, h[at])
  BY <1>1 DEF Larger
<1>3. f[at] \in Nat /\ h[at] \in Nat
  OBVIOUS
<1>4. SumFunctionOnSet(f, S) = SumFunctionOnSet(b, S) + f[at]
  BY <1>2, <1>3, SumGrows
<1>5. SumFunctionOnSet(h, S) = SumFunctionOnSet(b, S) + h[at]
  BY <1>2, <1>3, SumGrows
<1>6. SumFunctionOnSet(b, S) \in Nat
  BY <1>1, SumIsNat
<1> QED BY <1>3, <1>4, <1>5, <1>6

LEMMA SumOfNothing ==
  ASSUME NEW S, IsFiniteSet(S), NEW f, \A x \in S : f[x] = 0
  PROVE  SumFunctionOnSet(f, S) = 0
<1> DEFINE z == [s \in SUBSET S |-> 0]
<1>1. IsFold(f, S, z)
  <2>1. ASSUME NEW s \in SUBSET S, s # {} PROVE First(s) \in S /\ s \ {First(s)} \in SUBSET S
    BY <2>1, Sizes
  <2>2. ASSUME NEW s \in SUBSET S
        PROVE  0 = IF s = {} THEN 0 ELSE f[First(s)] + z[s \ {First(s)}]
    <3>1. s # {} => f[First(s)] = 0 /\ z[s \ {First(s)}] = 0
      BY <2>1
    <3> HIDE DEF z
    <3> QED BY <3>1
  <2> QED BY <2>2 DEF IsFold
<1>2. PICK g : IsFold(f, S, g) /\ SumFunctionOnSet(f, S) = g[S]
  BY SumIsFold
<1>3. Larger(S, f, f, S, 0)
  <2>1. \A x \in S : (IF x = S THEN 0 ELSE 0) = 0
    OBVIOUS
  <2> QED BY <2>1 DEF Larger
<1>4. g[S] \in Nat /\ z[S] = g[S] + (IF S \in S THEN 0 ELSE 0)
  <2> HIDE DEF z
  <2>1. 0 \in Nat
    OBVIOUS
  <2> QED BY <1>1, <1>2, <1>3, <2>1, FoldsDiffer
<1>5. z[S] = 0
  OBVIOUS
<1> QED BY <1>2, <1>4, <1>5

LEMMA Least ==
  ASSUME NEW S, S \subseteq Nat, S # {}
  PROVE  \E n \in S : \A m \in S : n <= m
<1> DEFINE R == OpToRel(<, Nat)
<1>1. IsWellFoundedOn(R, Nat)
  BY NatLessThanWellFounded
<1>2. R = {pair \in Nat \X Nat : pair[1] < pair[2]}
  BY DEF OpToRel
<1> HIDE DEF R
<1>3. PICK n \in S : \A m \in S : ~ (<<m, n>> \in R)
  BY <1>1, WFMin
<1>4. \A m \in S : n <= m
  <2> TAKE m \in S
  <2>1. m \in Nat /\ n \in Nat /\ ~ (<<m, n>> \in R)
    BY <1>3
  <2> QED BY ONLY <2>1, <1>2
<1> QED BY <1>4

LEMMA Bounded ==
  ASSUME NEW S, S \subseteq Nat, IsFiniteSet(S)
  PROVE  \E b \in Nat : \A x \in S : x < b
<1> DEFINE T == {n \in Nat : \A s \in SUBSET S : Cardinality(s) = n => \E b \in Nat : \A x \in s : x < b}
<1>1. 0 \in T
  <2>1. ASSUME NEW s \in SUBSET S, Cardinality(s) = 0 PROVE s = {}
    <3>1. s # {} => Cardinality(s) >= 1
      BY Sizes
    <3> QED BY <2>1, <3>1
  <2> QED BY <2>1
<1>2. ASSUME NEW n \in Nat, n \in T PROVE n + 1 \in T
  <2>1. \A s \in SUBSET S : Cardinality(s) = n => \E b \in Nat : \A x \in s : x < b
    BY <1>2
  <2>2. ASSUME NEW s \in SUBSET S, Cardinality(s) = n + 1 PROVE \E b \in Nat : \A x \in s : x < b
    <3>1. s # {}
      BY <2>2, FS_EmptySet
    <3>0. /\ Cardinality(s) \in Nat /\ First(s) \in s /\ s \ {First(s)} \in SUBSET S
          /\ Cardinality(s \ {First(s)}) = Cardinality(s) - 1
      BY ONLY IsFiniteSet(S), s \in SUBSET S, <3>1, Sizes
    <3> DEFINE y == First(s)
               r == s \ {y}
    <3>2. y \in s /\ r \in SUBSET S /\ Cardinality(r) = n
      BY <2>2, <3>0
    <3>3. y \in Nat /\ \A x \in s : x = y \/ x \in r
      BY <3>2
    <3> HIDE DEF y, r
    <3>4. PICK b \in Nat : \A x \in r : x < b
      BY <2>1, <3>2
    <3>5. \A x \in r : x \in Nat
      BY <3>2
    <3> DEFINE c == IF y < b THEN b ELSE y + 1
    <3>6. c \in Nat /\ \A x \in s : x < c
      BY <3>3, <3>4, <3>5
    <3> HIDE DEF c
    <3> QED BY <3>6
  <2> QED BY <2>2
<1> HIDE DEF T
<1>3. Cardinality(S) \in T
  BY FS_CardinalityType, <1>1, <1>2, Induction
<1> QED BY <1>3 DEF T

----------------------------------------------------------------------------
(* Orders and their places.                                                *)

LEMMA IdFacts ==
  /\ \A g \in Entries : /\ Guard(g) \in Ids /\ Entry(g) \in Ids /\ g \in Groups /\ g \in Nat
                        /\ Guard(g)[1] = g /\ Guard(g)[2] = "guard" /\ g # Exit /\ g # None
  /\ \A g \in Groups : Entry(g) \in Ids /\ Entry(g)[1] = g /\ Entry(g)[2] = "order"
  /\ \A id \in Ids : /\ id[1] \in Groups /\ id[2] \in {"order", "guard"}
                     /\ id[2] = "guard" => id[1] \in Entries /\ id = Guard(id[1])
                     /\ id[2] = "order" => id = Entry(id[1])
                     /\ id = <<id[1], id[2]>>
  /\ \A g, h : Guard(g) = Guard(h) => g = h
  /\ \A g, h : Guard(g) # Entry(h)
  /\ IsFiniteSet(Entries)
BY EntriesAssumption, NoneAssumption DEF Guard, Entry, Ids, Groups

LEMMA TrackedFacts ==
  ASSUME TypeOK
  PROVE  /\ Len(tracked) \in Nat /\ DOMAIN tracked = 1..Len(tracked)
         /\ \A i \in DOMAIN tracked : tracked[i] \in Groups
         /\ \A i, j \in DOMAIN tracked : tracked[i] = tracked[j] => i = j
         /\ \A g : Tracked(g) => /\ g \in Groups /\ Position(g) \in DOMAIN tracked
                                 /\ Position(g) \in Nat /\ tracked[Position(g)] = g
<1>1. /\ Len(tracked) \in Nat /\ DOMAIN tracked = 1..Len(tracked)
      /\ \A i \in DOMAIN tracked : tracked[i] \in Groups
  BY DEF TypeOK
<1>2. \A i, j \in DOMAIN tracked : tracked[i] = tracked[j] => i = j
  BY DEF TypeOK, IsInjective
<1>3. ASSUME NEW g, Tracked(g)
      PROVE  Position(g) \in DOMAIN tracked /\ tracked[Position(g)] = g
  BY <1>3 DEF Tracked, Position
<1>4. \A i \in DOMAIN tracked : i \in Nat
  BY <1>1
<1> QED BY <1>1, <1>2, <1>3, <1>4

LEMMA Ranks ==
  ASSUME TypeOK, NEW x \in Polled, NEW y \in Polled
  PROVE  Rank(x) \in Nat /\ (Rank(x) = Rank(y) => x = y)
<1>1. /\ Position(x[1]) \in Nat /\ tracked[Position(x[1])] = x[1]
      /\ Position(y[1]) \in Nat /\ tracked[Position(y[1])] = y[1]
  BY TrackedFacts DEF Polled
<1>2. x[2] \in {"order", "guard"} /\ y[2] \in {"order", "guard"}
      /\ x = <<x[1], x[2]>> /\ y = <<y[1], y[2]>>
  BY IdFacts DEF Polled
<1>3. PICK p, q : p = Position(x[1]) /\ q = Position(y[1])
  OBVIOUS
<1>4. /\ Rank(x) = 2 * p + (IF x[2] = "guard" THEN 1 ELSE 0)
      /\ Rank(y) = 2 * q + (IF y[2] = "guard" THEN 1 ELSE 0)
  BY <1>3 DEF Rank
<1>5. p \in Nat /\ q \in Nat
  BY <1>1, <1>3
<1>6. Rank(x) \in Nat
  BY <1>4, <1>5
<1>7. Rank(x) = Rank(y) => p = q /\ (x[2] = "guard" <=> y[2] = "guard")
  BY <1>4, <1>5
<1>8. p = q => x[1] = y[1]
  BY <1>1, <1>3
<1>9. (x[2] = "guard" <=> y[2] = "guard") => x[2] = y[2]
  BY <1>2
<1> QED BY <1>2, <1>6, <1>7, <1>8, <1>9

(* Every stage has a next order to visit, and no more than one.            *)
LEMMA ForemostFacts ==
  ASSUME TypeOK, queue \subseteq Polled, queue # {}
  PROVE  /\ Foremost \in queue /\ Foremost \in Ids /\ Tracked(Foremost[1])
         /\ \A other \in queue : Rank(Foremost) <= Rank(other)
         /\ \A id \in queue : (\A other \in queue : Rank(id) <= Rank(other)) => id = Foremost
<1> DEFINE ranks == {Rank(id) : id \in queue}
<1>1. \A id \in queue : Rank(id) \in Nat
  BY Ranks
<1>2. PICK id \in queue : \A other \in queue : Rank(id) <= Rank(other)
  <2>1. ranks \subseteq Nat /\ ranks # {}
    BY <1>1
  <2> HIDE DEF ranks
  <2>2. PICK r \in ranks : \A o \in ranks : r <= o
    BY <2>1, Least
  <2> USE DEF ranks
  <2> QED BY <2>2
<1>3. Foremost \in queue /\ \A other \in queue : Rank(Foremost) <= Rank(other)
  BY <1>2 DEF Foremost
<1>4. \A x \in queue : (\A other \in queue : Rank(x) <= Rank(other)) => x = Foremost
  <2> TAKE x \in queue
  <2> HAVE \A other \in queue : Rank(x) <= Rank(other)
  <2>1. Rank(x) <= Rank(Foremost) /\ Rank(Foremost) <= Rank(x)
    BY <1>3
  <2>2. Rank(x) \in Nat /\ Rank(Foremost) \in Nat
    BY <1>1, <1>3
  <2>3. Rank(x) = Rank(Foremost)
    BY <2>1, <2>2
  <2>4. x \in Polled /\ Foremost \in Polled
    BY <1>3
  <2> QED BY <2>3, <2>4, Ranks
<1> QED BY <1>3, <1>4 DEF Polled

----------------------------------------------------------------------------
(* The targets of a poll.                                                  *)

LEMMA Sizeable ==
  ASSUME TypeOK
  PROVE  /\ \A id \in Ids : /\ venue[id] \in Order /\ venue[id].filled \in Nat /\ venue[id].qty \in Nat
                            /\ venue[id].filled <= venue[id].qty
                            /\ IsOpen(venue[id]) => venue[id].filled < venue[id].qty
                            /\ Remaining(venue[id]) \in Nat
                            /\ mem[id] \in Order /\ mem[id].filled \in Nat /\ mem[id].qty \in Nat
                            /\ mem[id].filled <= mem[id].qty
                            /\ IsOpen(mem[id]) => mem[id].filled < mem[id].qty
                            /\ Remaining(mem[id]) \in Nat /\ Remaining(mem[id]) <= mem[id].qty
         /\ held \in Nat /\ Budget \in Nat /\ Budget <= held
<1>1. ASSUME NEW o \in Order
      PROVE  /\ o.filled \in Nat /\ o.qty \in Nat /\ o.filled <= o.qty
             /\ IsOpen(o) => o.filled < o.qty
             /\ Remaining(o) \in Nat /\ Remaining(o) <= o.qty
  BY DEF Order, Remaining
<1>2. \A id \in Ids : venue[id] \in Order /\ mem[id] \in Order
  BY DEF TypeOK
<1>3. held \in Nat /\ Committed \in Nat
  BY <1>1, <1>2, IdFacts DEF TypeOK, Committed, Groups
<1>4. Budget \in Nat /\ Budget <= held
  BY <1>3 DEF Budget, AtLeastZero
<1> QED BY <1>1, <1>2, <1>3, <1>4

Upto(k) == [g \in Entries |-> IF g \in Protectable /\ g < k THEN Target(g) ELSE 0]

LEMMA TargetTyped ==
  ASSUME TypeOK
  PROVE  /\ \A k : \A g \in Entries : Tighter(k)[g] \in Nat
         /\ \A k \in Nat : Total(Tighter(k), Entries) \in Nat
         /\ \A g \in Entries : Target(g) \in Nat /\ Target(g) <= mem[Entry(g)].filled
         /\ \A k : \A g \in Entries : Upto(k)[g] \in Nat
<1>1. \A g \in Entries : mem[Entry(g)].filled \in Nat
  BY IdFacts, Sizeable
<1>2. ASSUME NEW k PROVE \A g \in Entries : Tighter(k)[g] \in Nat
  BY <1>1 DEF Tighter
<1>3. ASSUME NEW k PROVE Total(Tighter(k), Entries) \in Nat
  BY <1>2, IdFacts, SumIsNat DEF Total
<1>4. ASSUME NEW g \in Entries PROVE Target(g) \in Nat /\ Target(g) <= mem[Entry(g)].filled
  <2> DEFINE t == Total(Tighter(g), Entries)
             f == mem[Entry(g)].filled
  <2>1. t \in Nat /\ f \in Nat /\ Budget \in Nat
    BY <1>1, <1>3, Sizeable
  <2>2. Target(g) = AtMost(f, AtLeastZero(Budget - t))
    BY DEF Target
  <2>3. PICK n, m : n = t /\ m = f
    OBVIOUS
  <2> HIDE DEF t, f
  <2>4. n \in Nat /\ m \in Nat /\ Target(g) = AtMost(m, AtLeastZero(Budget - n))
    BY <2>1, <2>2, <2>3
  <2>5. Target(g) \in Nat /\ Target(g) <= m
    BY ONLY <2>1, <2>4 DEF AtMost, AtLeastZero
  <2> QED BY <2>3, <2>5 DEF f
<1>5. ASSUME NEW k PROVE \A g \in Entries : Upto(k)[g] \in Nat
  BY <1>4 DEF Upto
<1> QED BY <1>2, <1>3, <1>4, <1>5

LEMMA PrefixFits ==
  ASSUME TypeOK
  PROVE  \A k \in Nat : /\ Total(Upto(k), Entries) <= Budget
                        /\ Total(Upto(k), Entries) <= Total(Tighter(k), Entries)
<1> DEFINE T == {k \in Nat : /\ Total(Upto(k), Entries) <= Budget
                             /\ Total(Upto(k), Entries) <= Total(Tighter(k), Entries)}
<1>0. IsFiniteSet(Entries) /\ Entries \subseteq Nat
  BY EntriesAssumption
<1>1. 0 \in T
  <2>1. \A g \in Entries : Upto(0)[g] = 0
    BY <1>0 DEF Upto
  <2>2. Total(Upto(0), Entries) = 0
    BY <1>0, <2>1, SumOfNothing DEF Total
  <2>3. Total(Tighter(0), Entries) \in Nat /\ Budget \in Nat
    BY TargetTyped, Sizeable
  <2> QED BY <2>2, <2>3
<1>2. ASSUME NEW k \in Nat, k \in T PROVE k + 1 \in T
  <2> DEFINE a == Total(Upto(k), Entries)
             b == Total(Tighter(k), Entries)
             c == Total(Upto(k + 1), Entries)
             d == Total(Tighter(k + 1), Entries)
  <2>1. a <= Budget /\ a <= b
    BY <1>2
  <2>2. a \in Nat /\ b \in Nat /\ Budget \in Nat
    BY <1>0, TargetTyped, SumIsNat, Sizeable DEF Total
  <2>3. CASE k \in Protectable
    <3>1. k \in Entries
      BY <2>3 DEF Protectable
    <3> DEFINE t == Target(k)
               f == mem[Entry(k)].filled
    <3>2. t \in Nat /\ f \in Nat /\ t <= f
      BY <3>1, TargetTyped, IdFacts, Sizeable
    <3>3. t = AtMost(f, AtLeastZero(Budget - b))
      BY DEF Target
    <3>4. Larger(Entries, Upto(k), Upto(k + 1), k, t)
      <4>1. ASSUME NEW g \in Entries
            PROVE  Upto(k)[g] \in Nat /\ Upto(k + 1)[g] = Upto(k)[g] + (IF g = k THEN t ELSE 0)
        <5>1. Target(g) \in Nat /\ g \in Nat /\ (g < k + 1 <=> g < k \/ g = k)
          BY <1>0, TargetTyped
        <5>2. /\ Upto(k)[g] = IF g \in Protectable /\ g < k THEN Target(g) ELSE 0
              /\ Upto(k + 1)[g] = IF g \in Protectable /\ g < k + 1 THEN Target(g) ELSE 0
          BY DEF Upto
        <5> QED BY <2>3, <5>1, <5>2
      <4> QED BY <4>1 DEF Larger
    <3>5. Larger(Entries, Tighter(k), Tighter(k + 1), k, f)
      <4>1. ASSUME NEW g \in Entries
            PROVE  Tighter(k)[g] \in Nat /\ Tighter(k + 1)[g] = Tighter(k)[g] + (IF g = k THEN f ELSE 0)
        <5>1. mem[Entry(g)].filled \in Nat /\ g \in Nat /\ (g < k + 1 <=> g < k \/ g = k)
          BY <1>0, IdFacts, Sizeable
        <5>2. /\ Tighter(k)[g] = IF g \in Protectable /\ g < k THEN mem[Entry(g)].filled ELSE 0
              /\ Tighter(k + 1)[g] = IF g \in Protectable /\ g < k + 1 THEN mem[Entry(g)].filled ELSE 0
          BY DEF Tighter
        <5> QED BY <2>3, <5>1, <5>2
      <4> QED BY <4>1 DEF Larger
    <3> HIDE DEF t, f
    <3>6. c = a + t /\ d = b + f
      BY <1>0, <3>1, <3>2, <3>4, <3>5, SumGrows DEF Total
    <3> HIDE DEF a, b, c, d
    <3>7. c <= Budget /\ c <= d
      BY <2>1, <2>2, <3>2, <3>3, <3>6 DEF AtMost, AtLeastZero
    <3> QED BY <3>7 DEF a, b, c, d
  <2>4. CASE k \notin Protectable
    <3>1. Upto(k + 1) = Upto(k) /\ Tighter(k + 1) = Tighter(k)
      <4>1. \A g \in Entries : g \in Protectable => (g < k + 1 <=> g < k)
        BY <1>0, <2>4
      <4> QED BY <4>1 DEF Upto, Tighter
    <3> QED BY <2>1, <3>1
  <2> QED BY <2>3, <2>4
<1> HIDE DEF T
<1>3. \A k \in Nat : k \in T
  BY <1>1, <1>2, Induction
<1> QED BY <1>3 DEF T

(* However the holding was reduced, the targets are within it.             *)
LEMMA TargetsFit ==
  ASSUME TypeOK, NEW f, f = [g \in Entries |-> IF g \in Protectable THEN Target(g) ELSE 0]
  PROVE  f \in [Entries -> Nat] /\ Total(f, Entries) <= held
<1>1. PICK k \in Nat : \A g \in Entries : g < k
  BY Bounded, EntriesAssumption
<1>2. f = Upto(k)
  BY <1>1 DEF Upto
<1>3. f \in [Entries -> Nat]
  BY TargetTyped
<1>4. Total(Upto(k), Entries) \in Nat
  BY TargetTyped, SumIsNat, EntriesAssumption DEF Total
<1>5. Total(Upto(k), Entries) <= Budget /\ Budget \in Nat /\ Budget <= held /\ held \in Nat
  BY PrefixFits, Sizeable
<1> QED BY <1>2, <1>3, <1>4, <1>5

----------------------------------------------------------------------------
(* The invariant.                                                          *)

(* What the monitor believes to be working is the order the venue has.     *)
Copies ==
  \A id \in Ids : IsOpen(mem[id]) =>
    mem[id].qty = venue[id].qty /\ mem[id].filled <= venue[id].filled

(* A group that is tracked, or being submitted, has an entry, and there is *)
(* no guard without one; before its submit ends a group is neither tracked *)
(* nor guarded.                                                            *)
Known(id) == venue[id].state # "none"
Entered ==
  /\ \A g \in Groups : Tracked(g) => Known(Entry(g))
  /\ \A g \in submitting : Known(Entry(g)) /\ ~Tracked(g) /\ (g \in Entries => ~Known(Guard(g)))
  /\ \A g \in Entries : Known(Guard(g)) => Known(Entry(g))

(* The books of a working guard: it rests for what was requested.          *)
Legs ==
  \A g \in Entries : IsOpen(mem[Guard(g)]) =>
    Tracked(g) /\ mem[Guard(g)].qty = requested[g] /\ refused[g] = None

(* Where a poll can be.                                                    *)
Resizing == stage \in {"place", "confirm"}
Rounds ==
  /\ poller = None <=> stage = "rest"
  /\ poller = "cycle" => settling # None
  /\ settling # None => Tracked(settling)
  /\ queue \subseteq Polled
  /\ stage = "rest" => queue = {}
  /\ stage = "expire" => queue # {} /\ Foremost[2] = "order"
  /\ stage \in {"maintain", "place", "confirm"} => \A id \in queue : id[2] = "guard"
  /\ Resizing => /\ queue # {} /\ ~IsOpen(mem[Foremost]) /\ mem[Foremost].state # "filled"
                 /\ targets[Foremost[1]] > 0
  /\ stage = "confirm" => venue[Foremost].qty = targets[Foremost[1]]

(* While legs are maintained, what each group may still take is held, or   *)
(* has been sold by a submit since the targets were computed.              *)
Share(g) == IF Guard(g) \in queue THEN targets[g] ELSE Remaining(mem[Guard(g)])
Shares == [g \in Entries |-> Share(g)]
Fits == stage \in {"maintain", "place", "confirm"} => Total(Shares, Entries) <= held + slipped

Inv == TypeOK /\ Copies /\ Entered /\ Legs /\ Rounds /\ Fits

(* For GuardsOwned: no guard rests while its successor is placed, and one  *)
(* just placed has not been filled in part when the placing raises.        *)
Alone ==
  /\ stage = "place" => ~IsOpen(venue[Foremost])
  /\ stage = "confirm" => venue[Foremost].filled = 0 \/ ~IsOpen(venue[Foremost])

(* For NeverRearmed: a filled guard is known as filled, or this poll has   *)
(* yet to read it.                                                         *)
Unvisited(g) == stage = "rest" \/ (stage \in {"sync", "expire"} /\ Guard(g) \in queue)
Noticed ==
  \A g \in Entries :
    Tracked(g) /\ venue[Guard(g)].state = "filled" =>
      \/ mem[Guard(g)].state = "filled"
      \/ IsOpen(mem[Guard(g)]) /\ Unvisited(g)

----------------------------------------------------------------------------
(* What becomes of an order, and what a step can leave alone.              *)

LEMMA Orders ==
  /\ NoOrder \in Order /\ ~IsOpen(NoOrder) /\ NoOrder.state = "none"
  /\ \A q \in Nat \ {0} : /\ Placed(q) \in Order /\ IsOpen(Placed(q)) /\ Placed(q).state = "open"
                          /\ Placed(q).qty = q /\ Placed(q).filled = 0
  /\ \A o \in Order : /\ Ended(o) \in Order /\ ~IsOpen(Ended(o))
                      /\ Ended(o).qty = o.qty /\ Ended(o).filled = o.filled
                      /\ Ended(o).state = "none" <=> o.state = "none"
                      /\ Ended(o).state = "filled" <=> o.state = "filled"
                      /\ o.state \in {"none", "open", "filled", "cancelled"}
BY DEF NoOrder, Order, IsOpen, Placed, Ended

LEMMA Executions ==
  ASSUME NEW o \in Order, IsOpen(o), NEW units \in 1..Remaining(o)
  PROVE  /\ Executed(o, units) \in Order
         /\ Executed(o, units).qty = o.qty /\ o.filled <= Executed(o, units).filled
         /\ Executed(o, units).state \in {"open", "filled"}
         /\ units = Remaining(o) => Executed(o, units).state = "filled"
<1>1. /\ o.state = "open" /\ o.qty \in Nat /\ o.filled \in Nat /\ o.filled < o.qty
      /\ o = [state |-> o.state, qty |-> o.qty, filled |-> o.filled]
  BY DEF Order, IsOpen
<1>2. units \in Nat /\ 1 <= units /\ units <= o.qty - o.filled /\ Remaining(o) = o.qty - o.filled
  BY <1>1 DEF Remaining
<1>3. PICK q, f : q = o.qty /\ f = o.filled /\ o = [state |-> "open", qty |-> q, filled |-> f]
  BY <1>1
<1>5. Executed(o, units) =
        [state |-> IF f + units = q THEN "filled" ELSE "open", qty |-> q, filled |-> f + units]
  <2>1. o \in [state : {"none", "open", "filled", "cancelled"}, qty : Nat, filled : Nat]
    BY DEF Order
  <2>2. f + units \in Nat /\ units \in Int
    BY <1>1, <1>2, <1>3
  <2>3. Executed(o, units) = [o EXCEPT !.filled = f + units, !.state = IF f + units = q THEN "filled" ELSE "open"]
    BY <1>3 DEF Executed
  <2> QED BY ONLY <1>3, <2>1, <2>2, <2>3
<1>4. f + units \in Nat /\ f + units <= q /\ f <= f + units /\ q \in Nat
      /\ (f + units # q => f + units < q) /\ (units = Remaining(o) => f + units = q)
  BY ONLY <1>1, <1>2, <1>3
<1> QED BY <1>3, <1>4, <1>5 DEF Order, IsOpen

LEMMA SameRoutes ==
  ASSUME UNCHANGED tracked
  PROVE  /\ \A g : Tracked(g)' <=> Tracked(g)
         /\ Polled' = Polled
         /\ \A id : Rank(id)' = Rank(id)
         /\ queue' = queue => Foremost' = Foremost
BY DEF Tracked, Polled, Rank, Position, Foremost

LEMMA SameShares ==
  ASSUME queue' = queue, targets' = targets, \A g \in Entries : mem'[Guard(g)] = mem[Guard(g)]
  PROVE  Shares' = Shares
BY DEF Shares, Share

LEMMA SharesAreNat ==
  ASSUME TypeOK
  PROVE  (\A g \in Entries : Shares[g] \in Nat) /\ Total(Shares, Entries) \in Nat
<1>1. \A g \in Entries : Shares[g] \in Nat
  BY IdFacts, Sizeable DEF Shares, Share, TypeOK
<1> QED BY <1>1, IdFacts, SumIsNat DEF Total

----------------------------------------------------------------------------
(* Steps of the world: an order at the venue fills or is withdrawn.        *)
Moves(id, o) ==
  /\ IsOpen(venue[id]) /\ venue' = [venue EXCEPT ![id] = o]
  /\ o \in Order /\ o.qty = venue[id].qty /\ venue[id].filled <= o.filled /\ o.state # "none"
  /\ holding' \in Int
  /\ UNCHANGED <<submitVars, stray, mem, held, tracked, bookVars, settling, pollVars>>

LEMMA WorldInv ==
  ASSUME Inv, NEW id \in Ids, NEW o, Moves(id, o)
  PROVE  Inv'
<1>1. /\ UNCHANGED <<submitting, slipped, stray, mem, held, tracked, requested, refused, settling>>
      /\ UNCHANGED <<poller, stage, queue, targets>> /\ holding' \in Int
  BY DEF Moves, submitVars, bookVars, pollVars
<1>2. /\ venue' \in [Ids -> Order]
      /\ \A x \in Ids : /\ venue'[x].qty = venue[x].qty /\ venue[x].filled <= venue'[x].filled
                        /\ venue[x].state # "none" => venue'[x].state # "none"
                        /\ venue'[x].state # "none" => venue[x].state # "none"
  <2>1. venue \in [Ids -> Order] /\ \A x \in Ids : venue[x].filled \in Nat
    BY Sizeable DEF Inv, TypeOK
  <2>2. venue[id].state # "none"
    BY DEF Moves, IsOpen
  <2>3. \A x \in Ids : venue'[x] = IF x = id THEN o ELSE venue[x]
    BY <2>1 DEF Moves
  <2> QED BY <2>1, <2>2, <2>3 DEF Moves
<1>3. /\ \A g : Tracked(g)' <=> Tracked(g)
      /\ Polled' = Polled /\ Foremost' = Foremost
  BY <1>1, SameRoutes
<1>4. TypeOK'
  BY <1>1, <1>2 DEF Inv, TypeOK
<1>5. Copies'
  <2> SUFFICES ASSUME NEW x \in Ids, IsOpen(mem'[x])
               PROVE  mem'[x].qty = venue'[x].qty /\ mem'[x].filled <= venue'[x].filled
    BY DEF Copies
  <2>1. mem[x].qty = venue[x].qty /\ mem[x].filled <= venue[x].filled /\ mem'[x] = mem[x]
    BY <1>1 DEF Inv, Copies
  <2>2. mem[x].filled \in Nat /\ venue[x].filled \in Nat /\ venue'[x].filled \in Nat
    BY <1>2, <1>4, Sizeable DEF Inv, Order
  <2>3. venue'[x].qty = venue[x].qty /\ venue[x].filled <= venue'[x].filled
    BY <1>2
  <2> QED BY ONLY <2>1, <2>2, <2>3
<1>6. Entered'
  <2>1. \A g \in Groups : Entry(g) \in Ids
    BY IdFacts
  <2>2. submitting \subseteq Groups
    BY DEF Inv, TypeOK
  <2> QED BY <1>1, <1>2, <1>3, <2>1, <2>2, IdFacts DEF Inv, Entered, Known
<1>7. Legs'
  BY <1>1, <1>3 DEF Inv, Legs
<1>8. Rounds'
  <2>1. stage = "confirm" => Foremost \in Ids
    BY ForemostFacts DEF Inv, Rounds, Resizing
  <2> QED BY <1>1, <1>2, <1>3, <2>1 DEF Inv, Rounds, Resizing
<1>9. Fits'
  <2>1. Shares' = Shares
    BY <1>1, SameShares
  <2> QED BY <1>1, <2>1 DEF Inv, Fits, Total
<1> QED BY <1>4, <1>5, <1>6, <1>7, <1>8, <1>9 DEF Inv

LEMMA EntryFillsMoves ==
  ASSUME Inv, NEW g \in Groups, EntryFills(g)
  PROVE  \E o : Moves(Entry(g), o)
<1>1. Entry(g) \in Ids /\ venue[Entry(g)] \in Order /\ IsOpen(venue[Entry(g)])
  BY IdFacts, Sizeable DEF Inv, EntryFills
<1>2. 1 \in 1..Remaining(venue[Entry(g)])
  BY <1>1, Sizeable DEF Inv, Remaining
<1>3. holding' \in Int
  BY DEF Inv, TypeOK, EntryFills
<1>4. Moves(Entry(g), Executed(venue[Entry(g)], 1))
  BY <1>1, <1>2, <1>3, Executions DEF EntryFills, Moves
<1> QED BY <1>4

LEMMA GuardFillsMoves ==
  ASSUME Inv, NEW g \in Entries, GuardFills(g)
  PROVE  \E o : /\ Moves(Guard(g), o) /\ o.state \in {"open", "filled"}
                /\ poller = None \/ "race" \in Faults
                /\ o.state = "filled" \/ "partial" \in Faults
<1>1. Guard(g) \in Ids /\ venue[Guard(g)] \in Order /\ IsOpen(venue[Guard(g)])
      /\ Remaining(venue[Guard(g)]) \in Nat
  BY IdFacts, Sizeable DEF Inv, GuardFills
<1>2. PICK units \in 1..Remaining(venue[Guard(g)]) :
        /\ units = Remaining(venue[Guard(g)]) \/ "partial" \in Faults
        /\ venue' = [venue EXCEPT ![Guard(g)] = Executed(@, units)]
        /\ holding' = holding - units
  BY DEF GuardFills
<1>3. holding' \in Int
  BY <1>1, <1>2 DEF Inv, TypeOK
<1> DEFINE o == Executed(venue[Guard(g)], units)
<1>4. /\ o \in Order /\ o.qty = venue[Guard(g)].qty /\ venue[Guard(g)].filled <= o.filled
      /\ o.state \in {"open", "filled"}
      /\ units = Remaining(venue[Guard(g)]) => o.state = "filled"
  BY <1>1, Executions
<1>5. venue' = [venue EXCEPT ![Guard(g)] = o]
  BY <1>2
<1> HIDE DEF o
<1>6. Moves(Guard(g), o)
  BY <1>1, <1>3, <1>4, <1>5 DEF GuardFills, Moves
<1> QED BY <1>2, <1>4, <1>6 DEF GuardFills

LEMMA GuardWithdrawnMoves ==
  ASSUME Inv, NEW g \in Entries, GuardWithdrawn(g)
  PROVE  Moves(Guard(g), Ended(venue[Guard(g)]))
<1>1. Guard(g) \in Ids /\ venue[Guard(g)] \in Order /\ IsOpen(venue[Guard(g)])
      /\ venue[Guard(g)].filled \in Nat
  BY IdFacts, Sizeable DEF Inv, GuardWithdrawn
<1>2. holding' \in Int
  BY DEF Inv, TypeOK, GuardWithdrawn
<1> DEFINE o == Ended(venue[Guard(g)])
<1>3. o \in Order /\ o.qty = venue[Guard(g)].qty /\ o.filled = venue[Guard(g)].filled /\ o.state # "none"
  BY <1>1, Orders DEF IsOpen
<1>4. venue' = [venue EXCEPT ![Guard(g)] = o]
  BY DEF GuardWithdrawn
<1>5. UNCHANGED <<submitVars, stray, mem, held, tracked, bookVars, settling, pollVars>>
  BY DEF GuardWithdrawn
<1> HIDE DEF o
<1>6. venue[Guard(g)].filled <= o.filled
  BY <1>1, <1>3
<1>7. Moves(Guard(g), o)
  BY <1>1, <1>2, <1>3, <1>4, <1>5, <1>6 DEF Moves
<1> QED BY <1>7 DEF o

----------------------------------------------------------------------------
(* Steps of the poll.  At the venue most of them end orders at the most.   *)
Ends == venue' \in [Ids -> Order] /\ \A x \in Ids : venue'[x] \in {venue[x], Ended(venue[x])}

LEMMA EndsFacts ==
  ASSUME TypeOK, Ends, NEW x \in Ids
  PROVE  /\ venue'[x].qty = venue[x].qty /\ venue'[x].filled = venue[x].filled
         /\ venue'[x].state = "none" <=> venue[x].state = "none"
         /\ venue'[x].state = "filled" <=> venue[x].state = "filled"
         /\ IsOpen(venue'[x]) => venue'[x] = venue[x]
<1>1. venue[x] \in Order /\ venue'[x] \in {venue[x], Ended(venue[x])}
  BY Sizeable DEF Ends
<1>2. /\ ~IsOpen(Ended(venue[x])) /\ Ended(venue[x]).qty = venue[x].qty
      /\ Ended(venue[x]).filled = venue[x].filled
      /\ Ended(venue[x]).state = "none" <=> venue[x].state = "none"
      /\ Ended(venue[x]).state = "filled" <=> venue[x].state = "filled"
  BY <1>1, Orders
<1> QED BY <1>1, <1>2

LEMMA NoChangeEnds ==
  ASSUME TypeOK, UNCHANGED venue
  PROVE  Ends
BY DEF Ends, TypeOK

LEMMA EndsOne ==
  ASSUME TypeOK, NEW id \in Ids, venue' = [venue EXCEPT ![id] = Ended(@)]
  PROVE  Ends
<1>1. venue \in [Ids -> Order] /\ Ended(venue[id]) \in Order
  BY Orders, Sizeable DEF TypeOK
<1> QED BY <1>1 DEF Ends

LEMMA EnteredByEnds ==
  ASSUME Inv, Ends, UNCHANGED <<tracked, submitting>>
  PROVE  Entered'
<1>1. \A g : Tracked(g)' <=> Tracked(g)
  BY SameRoutes
<1>2. \A x \in Ids : venue'[x].state = "none" <=> venue[x].state = "none"
  BY EndsFacts DEF Inv
<1>3. \A g \in submitting : Entry(g) \in Ids
  BY IdFacts DEF Inv, TypeOK
<1> QED BY <1>1, <1>2, <1>3, IdFacts DEF Inv, Entered, Known

LEMMA RaiseInv ==
  ASSUME Inv, Raise, Ends, UNCHANGED <<stray, holding, mem>>, held' \in Nat
  PROVE  Inv'
<1>1. /\ poller' = None /\ stage' = "rest" /\ queue' = {} /\ targets' = NoTargets
      /\ settling' = (IF poller = "cycle" THEN None ELSE settling)
      /\ UNCHANGED <<submitting, slipped, tracked, requested, refused>>
  BY DEF Raise, submitVars
<1>2. \A g : Tracked(g)' <=> Tracked(g)
  BY <1>1, SameRoutes
<1>3. TypeOK'
  <2>1. targets' \in [Entries -> Nat]
    BY <1>1 DEF NoTargets
  <2>2. settling' \in Entries \cup {None}
    BY <1>1 DEF Inv, TypeOK
  <2> QED BY <1>1, <2>1, <2>2 DEF Inv, TypeOK, Ends
<1>4. Copies'
  <2>1. \A x \in Ids : venue'[x].qty = venue[x].qty /\ venue'[x].filled = venue[x].filled
    BY EndsFacts DEF Inv
  <2> QED BY <2>1 DEF Inv, Copies
<1>5. Entered'
  BY <1>1, EnteredByEnds
<1>6. Legs'
  BY <1>1, <1>2 DEF Inv, Legs
<1>7. Rounds'
  <2>1. settling' # None => Tracked(settling')
    BY <1>1 DEF Inv, Rounds
  <2>2. poller' # "cycle"
    BY <1>1, NoneAssumption
  <2> QED BY <1>1, <1>2, <2>1, <2>2 DEF Rounds, Resizing
<1>8. Fits'
  BY <1>1 DEF Fits
<1> QED BY <1>3, <1>4, <1>5, <1>6, <1>7, <1>8 DEF Inv

LEMMA PollBeginInv ==
  ASSUME Inv, NEW who \in {"sweep", "cycle"}, PollBegin(who)
  PROVE  Inv'
<1>1. /\ poller' = who /\ stage' = "sync" /\ queue' = Polled /\ (who = "cycle" => settling # None)
      /\ UNCHANGED <<submitting, slipped, venue, stray, holding, mem, held, tracked, requested, refused, settling, targets>>
  BY DEF PollBegin, submitVars, venueVars, bookVars
<1>2. (\A g : Tracked(g)' <=> Tracked(g)) /\ Polled' = Polled
  BY <1>1, SameRoutes
<1>3. TypeOK'
  <2>1. queue' \subseteq Ids
    BY <1>1 DEF Polled
  <2> QED BY <1>1, <2>1 DEF Inv, TypeOK
<1>4. Copies'
  BY <1>1 DEF Inv, Copies
<1>5. Entered'
  BY <1>1, <1>2 DEF Inv, Entered, Known
<1>6. Legs'
  BY <1>1, <1>2 DEF Inv, Legs
<1>7. Rounds'
  <2>1. poller' # None
    BY <1>1, NoneAssumption
  <2>2. settling' # None => Tracked(settling')
    BY <1>1 DEF Inv, Rounds
  <2>3. queue' \subseteq Polled'
    BY <1>1, <1>2
  <2> QED BY <1>1, <1>2, <2>1, <2>2, <2>3 DEF Rounds, Resizing
<1>8. Fits'
  BY <1>1 DEF Fits
<1> QED BY <1>3, <1>4, <1>5, <1>6, <1>7, <1>8 DEF Inv

LEMMA ComputeTargetsInv ==
  ASSUME Inv, ComputeTargets
  PROVE  Inv'
<1>1. /\ stage = "sync" /\ stage' = "maintain"
      /\ targets' = [g \in Entries |-> IF g \in Protectable THEN Target(g) ELSE 0]
      /\ queue' = {id \in Polled : id[2] = "guard"}
      /\ slipped' = 0 /\ UNCHANGED <<submitting, venue, stray, holding, mem, held, tracked, requested, refused, settling, poller>>
  BY DEF ComputeTargets, venueVars, bookVars
<1>2. (\A g : Tracked(g)' <=> Tracked(g)) /\ Polled' = Polled
  BY <1>1, SameRoutes
<1>3. targets' \in [Entries -> Nat] /\ Total(targets', Entries) <= held
  BY <1>1, TargetsFit DEF Inv
<1>4. TypeOK'
  <2>1. queue' \subseteq Ids
    BY <1>1 DEF Polled
  <2> QED BY <1>1, <1>3, <2>1 DEF Inv, TypeOK
<1>5. Copies'
  BY <1>1 DEF Inv, Copies
<1>6. Entered'
  BY <1>1, <1>2 DEF Inv, Entered, Known
<1>7. Legs'
  BY <1>1, <1>2 DEF Inv, Legs
<1>8. Rounds'
  <2>1. settling' # None => Tracked(settling')
    BY <1>1 DEF Inv, Rounds
  <2>2. queue' \subseteq Polled' /\ \A id \in queue' : id[2] = "guard"
    BY <1>1, <1>2
  <2>3. poller' # None /\ (poller' = "cycle" => settling' # None)
    BY <1>1 DEF Inv, Rounds
  <2> QED BY <1>1, <1>2, <2>1, <2>2, <2>3 DEF Rounds, Resizing
<1>9. Fits'
  <2>1. Shares' = targets'
    <3>1. \A g \in Entries : Guard(g) \in queue' <=> Tracked(g)
      BY <1>1, IdFacts DEF Polled
    <3>2. \A g \in Entries : ~Tracked(g) => targets'[g] = 0 /\ Remaining(mem[Guard(g)]) = 0
      BY <1>1 DEF Protectable, Remaining, Inv, Legs
    <3>3. Shares' = [g \in Entries |-> IF Guard(g) \in queue' THEN targets'[g] ELSE Remaining(mem'[Guard(g)])]
      BY DEF Shares, Share
    <3>4. \A g \in Entries : (IF Guard(g) \in queue' THEN targets'[g] ELSE Remaining(mem'[Guard(g)])) = targets'[g]
      BY <1>1, <3>1, <3>2
    <3> QED BY <1>3, <3>3, <3>4
  <2>2. Total(Shares', Entries) <= held' + slipped'
    <3>1. held \in Nat
      BY DEF Inv, TypeOK
    <3>2. Total(targets', Entries) <= held' + slipped'
      <4>1. PICK t : t = Total(targets', Entries)
        OBVIOUS
      <4>2. t <= held
        BY <1>3, <4>1
      <4>3. held' = held /\ slipped' = 0 /\ held + 0 = held
        BY <1>1, <3>1
      <4> QED BY <4>1, <4>2, <4>3
    <3> QED BY <2>1, <3>2
  <2> QED BY <1>1, <2>2 DEF Fits, Total
<1> QED BY <1>4, <1>5, <1>6, <1>7, <1>8, <1>9 DEF Inv

(* The visit of a stage to an order: only the maintaining of a guard, and  *)
(* its placing, can do more than end it.                                   *)
LEMMA ForemostGuard ==
  ASSUME Inv, NEW g \in Entries, Guard(g) = Foremost, queue # {}
  PROVE  Guard(g) \in queue /\ Tracked(g) /\ Guard(g) \in Ids
<1>1. Foremost \in queue /\ Foremost \in Ids /\ Tracked(Foremost[1])
  BY ForemostFacts DEF Inv, Rounds
<1>2. Foremost[1] = g
  BY IdFacts
<1> QED BY <1>1, <1>2

Turns(g) ==
  /\ stage \in {"maintain", "place", "confirm"} /\ stage' = "maintain"
  /\ queue # {} /\ Guard(g) = Foremost /\ queue' = queue \ {Foremost}
  /\ UNCHANGED <<submitting, slipped, stray, holding, tracked, settling, poller, targets>>

LEMMA TurnInv ==
  ASSUME Inv, NEW g \in Entries, Turns(g), Ends,
         mem' \in [Ids -> Order], held' \in Nat,
         requested' \in [Entries -> Nat], refused' \in [Entries -> Nat \cup {None}],
         \A h \in Entries : h # g =>
           mem'[Guard(h)] = mem[Guard(h)] /\ requested'[h] = requested[h] /\ refused'[h] = refused[h],
         IsOpen(mem'[Guard(g)]) => mem'[Guard(g)].qty = requested'[g] /\ refused'[g] = None,
         Copies',
         Remaining(mem'[Guard(g)]) + (held - held') <= targets[g]
  PROVE  Inv'
<1>1. /\ stage' = "maintain" /\ queue' = queue \ {Guard(g)} /\ stage # "rest"
      /\ UNCHANGED <<submitting, slipped, stray, holding, tracked, settling, poller, targets>>
  BY DEF Turns
<1>2. (\A h : Tracked(h)' <=> Tracked(h)) /\ Polled' = Polled
  BY <1>1, SameRoutes
<1>3. Guard(g) \in queue /\ Tracked(g)
  BY ForemostGuard DEF Turns
<1>4. TypeOK'
  BY <1>1 DEF Inv, TypeOK, Ends
<1>5. Entered'
  BY <1>1, EnteredByEnds
<1>6. Legs'
  <2> SUFFICES ASSUME NEW h \in Entries, IsOpen(mem'[Guard(h)])
               PROVE  Tracked(h)' /\ mem'[Guard(h)].qty = requested'[h] /\ refused'[h] = None
    BY DEF Legs
  <2>1. CASE h = g
    BY <1>2, <1>3, <2>1
  <2>2. CASE h # g
    BY <1>2, <2>2 DEF Inv, Legs
  <2> QED BY <2>1, <2>2
<1>7. Rounds'
  <2>1. settling' # None => Tracked(settling')
    BY <1>1 DEF Inv, Rounds
  <2>2. queue' \subseteq Polled' /\ \A id \in queue' : id[2] = "guard"
    BY <1>1, <1>2 DEF Inv, Rounds, Turns
  <2>3. poller' # None /\ (poller' = "cycle" => settling' # None)
    BY <1>1 DEF Inv, Rounds
  <2> QED BY <1>1, <1>2, <2>1, <2>2, <2>3 DEF Rounds, Resizing
<1>8. Fits'
  <2>1. PICK a, b : a = Shares /\ b = Shares'
    OBVIOUS
  <2>2. /\ \A h \in Entries : a[h] = IF Guard(h) \in queue THEN targets[h] ELSE Remaining(mem[Guard(h)])
        /\ \A h \in Entries : b[h] = IF Guard(h) \in queue' THEN targets'[h] ELSE Remaining(mem'[Guard(h)])
    BY <2>1 DEF Shares, Share
  <2>3. a[g] = targets[g] /\ b[g] = Remaining(mem'[Guard(g)])
    BY <1>1, <1>3, <2>2
  <2>4. \A h \in Entries \ {g} : b[h] = a[h]
    <3>1. \A h \in Entries \ {g} : Guard(h) \in queue' <=> Guard(h) \in queue
      BY <1>1, IdFacts
    <3> QED BY <1>1, <2>2, <3>1
  <2>5. \A h \in Entries : a[h] \in Nat /\ b[h] \in Nat
    <3>1. \A h \in Entries : a[h] \in Nat
      BY <2>1, SharesAreNat DEF Inv
    <3>2. b[g] \in Nat
      <4>1. mem'[Guard(g)] \in Order
        BY IdFacts
      <4> QED BY <2>3, <4>1 DEF Remaining, Order
    <3> QED BY <2>4, <3>1, <3>2
  <2>6. Total(b, Entries) + a[g] = Total(a, Entries) + b[g]
    BY <2>4, <2>5, SumMoves, IdFacts DEF Total
  <2>7. Total(a, Entries) <= held + slipped /\ Total(a, Entries) \in Nat /\ Total(b, Entries) \in Nat
    <3>1. Total(a, Entries) <= held + slipped
      BY <2>1 DEF Inv, Fits, Turns
    <3>2. Total(a, Entries) \in Nat /\ Total(b, Entries) \in Nat
      BY <2>5, SumIsNat, IdFacts DEF Total
    <3> QED BY <3>1, <3>2
  <2>8. b[g] + (held - held') <= a[g] /\ a[g] \in Nat /\ b[g] \in Nat /\ held \in Nat /\ held' \in Nat
    BY <2>3, <2>5 DEF Inv, TypeOK
  <2>9. slipped \in Nat /\ slipped' = slipped
    BY <1>1 DEF Inv, TypeOK
  <2>10. Total(b, Entries) <= held' + slipped'
    BY ONLY <2>6, <2>7, <2>8, <2>9
  <2> QED BY <2>1, <2>10 DEF Fits, Total
<1> QED BY <1>4, <1>5, <1>6, <1>7, <1>8 DEF Inv

(* Cancelling: an order that was working is over, at the venue too.        *)
LEMMA Cancels ==
  ASSUME Inv, NEW id \in Ids, Cancel(id)
  PROVE  /\ Ends /\ mem' \in [Ids -> Order] /\ Copies'
         /\ \A x \in Ids : x # id => mem'[x] = mem[x]
         /\ ~IsOpen(mem'[id]) /\ Remaining(mem'[id]) = 0
         /\ mem'[id].state = "filled" <=> mem[id].state = "filled"
         /\ IsOpen(mem[id]) => ~IsOpen(venue'[id])
         /\ ~IsOpen(mem[id]) => UNCHANGED <<venue, mem>>
<1>1. mem[id] \in Order /\ mem \in [Ids -> Order] /\ venue \in [Ids -> Order] /\ venue[id] \in Order
  BY DEF Inv, TypeOK
<1>2. /\ Ended(mem[id]) \in Order /\ ~IsOpen(Ended(mem[id])) /\ ~IsOpen(Ended(venue[id]))
      /\ Ended(mem[id]).state = "filled" <=> mem[id].state = "filled"
  BY <1>1, Orders
<1>3. CASE IsOpen(mem[id])
  <2>1. venue' = [venue EXCEPT ![id] = Ended(@)] /\ mem' = [mem EXCEPT ![id] = Ended(@)]
    BY <1>3 DEF Cancel
  <2>2. Ends
    BY <2>1, EndsOne DEF Inv
  <2>3. /\ mem' \in [Ids -> Order] /\ mem'[id] = Ended(mem[id]) /\ venue'[id] = Ended(venue[id])
        /\ \A x \in Ids : x # id => mem'[x] = mem[x]
    BY <1>1, <1>2, <2>1
  <2>4. Copies'
    <3>1. \A x \in Ids : venue'[x].qty = venue[x].qty /\ venue'[x].filled = venue[x].filled
      BY <2>2, EndsFacts DEF Inv
    <3> QED BY <1>2, <2>3, <3>1 DEF Inv, Copies
  <2> QED BY <1>2, <1>3, <2>2, <2>3, <2>4 DEF Remaining
<1>4. CASE ~IsOpen(mem[id])
  <2>1. UNCHANGED <<venue, mem>>
    BY <1>4 DEF Cancel
  <2>2. Ends
    BY <2>1, NoChangeEnds DEF Inv
  <2>3. Copies'
    BY <2>1 DEF Inv, Copies
  <2> QED BY <1>1, <1>4, <2>1, <2>2, <2>3 DEF Remaining
<1> QED BY <1>3, <1>4

LEMMA LeaveInv ==
  ASSUME Inv, NEW g \in Entries, Leave(g)
  PROVE  Inv'
<1>1. Turns(g)
  BY DEF Leave, Maintaining, Done, Turns, submitVars, venueVars
<1>2. UNCHANGED <<venue, mem, held, requested, refused>>
  BY DEF Leave, venueVars, bookVars
<1>3. Ends
  BY <1>2, NoChangeEnds DEF Inv
<1>4. Copies'
  BY <1>2 DEF Inv, Copies
<1>5. IsOpen(mem[Guard(g)]) => mem[Guard(g)].qty = requested[g] /\ refused[g] = None
  BY DEF Inv, Legs
<1>6. Remaining(mem[Guard(g)]) <= targets[g]
  <2>1. /\ targets[g] \in Nat /\ Remaining(mem[Guard(g)]) \in Nat
        /\ Remaining(mem[Guard(g)]) <= mem[Guard(g)].qty
    BY IdFacts, Sizeable DEF Inv, TypeOK
  <2>2. CASE IsOpen(mem[Guard(g)])
    <3>1. targets[g] # refused[g]
      BY <1>5, <2>1, <2>2, NoneAssumption
    <3>2. targets[g] = requested[g]
      BY <3>1 DEF Leave, Replaces, NeedsNewLegs
    <3> QED BY <1>5, <2>1, <2>2, <3>2
  <2>3. CASE ~IsOpen(mem[Guard(g)])
    BY <2>1, <2>3 DEF Remaining
  <2> QED BY <2>2, <2>3
<1>7. Remaining(mem'[Guard(g)]) + (held - held') <= targets[g]
  <2>1. /\ targets[g] \in Nat /\ Remaining(mem[Guard(g)]) \in Nat /\ held \in Nat
    BY IdFacts, Sizeable DEF Inv, TypeOK
  <2> QED BY <1>2, <1>6, <2>1
<1>8. /\ mem' \in [Ids -> Order] /\ held' \in Nat /\ requested' \in [Entries -> Nat]
      /\ refused' \in [Entries -> Nat \cup {None}]
  BY <1>2 DEF Inv, TypeOK
<1> QED BY <1>1, <1>2, <1>3, <1>4, <1>5, <1>7, <1>8, TurnInv

LEMMA CloseGroupInv ==
  ASSUME Inv, NEW g \in Entries, CloseGroup(g)
  PROVE  Inv'
<1>1. Turns(g)
  BY DEF CloseGroup, Maintaining, Done, Turns, submitVars
<1>2. UNCHANGED <<held, requested, refused>> /\ Cancel(Entry(g)) /\ Closing(g)
  BY DEF CloseGroup, bookVars
<1>3. /\ Ends /\ mem' \in [Ids -> Order] /\ Copies'
      /\ \A x \in Ids : x # Entry(g) => mem'[x] = mem[x]
  BY <1>2, Cancels, IdFacts
<1>4. \A h \in Entries : mem'[Guard(h)] = mem[Guard(h)]
  BY <1>3, IdFacts
<1>5. IsOpen(mem'[Guard(g)]) => mem'[Guard(g)].qty = requested'[g] /\ refused'[g] = None
  BY <1>2, <1>4 DEF Inv, Legs
<1>6. Remaining(mem'[Guard(g)]) + (held - held') <= targets[g]
  <2>1. Remaining(mem'[Guard(g)]) = 0
    BY <1>2, <1>4 DEF Closing, IsOpen, Remaining
  <2>2. targets[g] \in Nat /\ held \in Nat
    BY DEF Inv, TypeOK
  <2> QED BY <1>2, <2>1, <2>2
<1>7. held' \in Nat /\ requested' \in [Entries -> Nat] /\ refused' \in [Entries -> Nat \cup {None}]
  BY <1>2 DEF Inv, TypeOK
<1> QED BY <1>1, <1>2, <1>3, <1>4, <1>5, <1>6, <1>7, TurnInv

LEMMA UnguardInv ==
  ASSUME Inv, NEW g \in Entries, Release(g) \/ RefuseTarget(g)
  PROVE  Inv'
<1>1. Turns(g)
  BY DEF Release, RefuseTarget, Maintaining, Done, Turns, submitVars
<1>2. /\ held' = held /\ Cancel(Guard(g)) /\ requested' = [requested EXCEPT ![g] = 0]
      /\ refused' = [refused EXCEPT ![g] = None] \/ refused' = [refused EXCEPT ![g] = targets[g]]
  BY DEF Release, RefuseTarget
<1>3. /\ Ends /\ mem' \in [Ids -> Order] /\ Copies'
      /\ \A x \in Ids : x # Guard(g) => mem'[x] = mem[x]
      /\ ~IsOpen(mem'[Guard(g)]) /\ Remaining(mem'[Guard(g)]) = 0
  BY <1>2, Cancels, IdFacts
<1>4. \A h \in Entries : h # g => mem'[Guard(h)] = mem[Guard(h)]
  BY <1>3, IdFacts
<1>5. targets[g] \in Nat /\ held \in Nat /\ held' \in Nat
  BY <1>2 DEF Inv, TypeOK
<1>6. requested' \in [Entries -> Nat] /\ refused' \in [Entries -> Nat \cup {None}]
  BY <1>2, <1>5 DEF Inv, TypeOK
<1>7. \A h \in Entries : h # g => requested'[h] = requested[h] /\ refused'[h] = refused[h]
  BY <1>2 DEF Inv, TypeOK
<1>8. Remaining(mem'[Guard(g)]) + (held - held') <= targets[g]
  BY <1>2, <1>3, <1>5
<1> QED BY <1>1, <1>3, <1>4, <1>5, <1>6, <1>7, <1>8, TurnInv

LEMMA RejectSingleInv ==
  ASSUME Inv, NEW g \in Entries, RejectSingle(g)
  PROVE  Inv'
<1>1. Turns(g)
  BY DEF RejectSingle, Placing, Turns, submitVars, venueVars, Inv, Rounds, Resizing
<1>2. /\ UNCHANGED <<venue, held>> /\ requested' = [requested EXCEPT ![g] = targets[g]]
      /\ refused' = [refused EXCEPT ![g] = None]
      /\ mem' = [mem EXCEPT ![Guard(g)] = Ended(Placed(targets[g]))]
  BY DEF RejectSingle, venueVars
<1>3. Ends
  BY <1>2, NoChangeEnds DEF Inv
<1>4. targets[g] \in Nat \ {0}
  BY IdFacts DEF RejectSingle, Placing, Inv, Rounds, Resizing, TypeOK
<1>5. /\ Ended(Placed(targets[g])) \in Order /\ ~IsOpen(Ended(Placed(targets[g])))
  BY <1>4, Orders
<1>6. /\ mem' \in [Ids -> Order] /\ ~IsOpen(mem'[Guard(g)])
      /\ \A x \in Ids : x # Guard(g) => mem'[x] = mem[x]
  BY <1>2, <1>5, IdFacts DEF Inv, TypeOK
<1>7. Copies'
  BY <1>2, <1>6 DEF Inv, Copies
<1>8. \A h \in Entries : h # g => mem'[Guard(h)] = mem[Guard(h)]
  BY <1>6, IdFacts
<1>9. /\ requested' \in [Entries -> Nat] /\ refused' \in [Entries -> Nat \cup {None}]
      /\ \A h \in Entries : h # g => requested'[h] = requested[h] /\ refused'[h] = refused[h]
  BY <1>2, <1>4 DEF Inv, TypeOK
<1>10. held' \in Nat /\ Remaining(mem'[Guard(g)]) + (held - held') <= targets[g]
  <2>1. Remaining(mem'[Guard(g)]) = 0 /\ held \in Nat
    BY <1>6 DEF Remaining, Inv, TypeOK
  <2> QED BY <1>2, <1>4, <2>1
<1> QED BY <1>1, <1>3, <1>6, <1>7, <1>8, <1>9, <1>10, TurnInv

LEMMA ConfirmInv ==
  ASSUME Inv, NEW g \in Entries, Confirm(g)
  PROVE  Inv'
<1>1. Turns(g)
  BY DEF Confirm, Turns, submitVars, venueVars, Inv, Rounds, Resizing
<1>2. /\ UNCHANGED venue /\ requested' = [requested EXCEPT ![g] = targets[g]]
      /\ held' = held - venue[Guard(g)].filled /\ venue[Guard(g)].filled <= held
      /\ refused' = [refused EXCEPT ![g] = None]
      /\ mem' = [mem EXCEPT ![Guard(g)] = venue[Guard(g)]]
  BY DEF Confirm, venueVars
<1>3. Ends
  BY <1>2, NoChangeEnds DEF Inv
<1>4. /\ Guard(g) \in Ids /\ venue[Guard(g)] \in Order /\ venue[Guard(g)].filled \in Nat
      /\ venue[Guard(g)].qty \in Nat /\ venue[Guard(g)].filled <= venue[Guard(g)].qty
  BY IdFacts, Sizeable DEF Inv
<1>5. targets[g] \in Nat /\ venue[Guard(g)].qty = targets[g]
  BY IdFacts DEF Confirm, Inv, Rounds, TypeOK
<1>6. /\ mem' \in [Ids -> Order] /\ mem'[Guard(g)] = venue[Guard(g)]
      /\ \A x \in Ids : x # Guard(g) => mem'[x] = mem[x]
  BY <1>2, <1>4 DEF Inv, TypeOK
<1>7. Copies'
  BY <1>2, <1>4, <1>6 DEF Inv, Copies
<1>8. \A h \in Entries : h # g => mem'[Guard(h)] = mem[Guard(h)]
  BY <1>6, IdFacts
<1>9. /\ requested' \in [Entries -> Nat] /\ refused' \in [Entries -> Nat \cup {None}]
      /\ requested'[g] = targets[g] /\ refused'[g] = None
      /\ \A h \in Entries : h # g => requested'[h] = requested[h] /\ refused'[h] = refused[h]
  BY <1>2, <1>5 DEF Inv, TypeOK
<1>10. held' \in Nat /\ Remaining(mem'[Guard(g)]) + (held - held') <= targets[g]
  <2>1. held \in Nat
    BY DEF Inv, TypeOK
  <2>2. Remaining(mem'[Guard(g)]) + venue[Guard(g)].filled <= targets[g]
    BY <1>4, <1>5, <1>6 DEF Remaining
  <2> QED BY <1>2, <1>4, <1>5, <2>1, <2>2
<1>11. IsOpen(mem'[Guard(g)]) => mem'[Guard(g)].qty = requested'[g] /\ refused'[g] = None
  BY <1>5, <1>6, <1>9
<1> QED BY <1>1, <1>3, <1>6, <1>7, <1>8, <1>9, <1>10, <1>11, TurnInv

LEMMA CancelForResizeInv ==
  ASSUME Inv, NEW g \in Entries, CancelForResize(g)
  PROVE  Inv'
<1>1. /\ stage = "maintain" /\ queue # {} /\ Guard(g) = Foremost
      /\ ~Closing(g) /\ targets[g] >= MinLeg /\ Cancel(Guard(g))
      /\ requested' = [requested EXCEPT ![g] = 0] /\ stage' = "place"
      /\ UNCHANGED <<submitting, slipped, stray, holding, held, tracked, refused, settling, poller, queue, targets>>
  BY DEF CancelForResize, submitVars, Maintaining, Replaces
<1>2. (\A h : Tracked(h)' <=> Tracked(h)) /\ Polled' = Polled /\ Foremost' = Foremost
  BY <1>1, SameRoutes
<1>3. Guard(g) \in queue /\ Guard(g) \in Ids
  BY <1>1, ForemostGuard
<1>4. /\ Ends /\ mem' \in [Ids -> Order] /\ Copies'
      /\ \A x \in Ids : x # Guard(g) => mem'[x] = mem[x]
      /\ ~IsOpen(mem'[Guard(g)])
      /\ mem'[Guard(g)].state = "filled" <=> mem[Guard(g)].state = "filled"
  BY <1>1, <1>3, Cancels
<1>5. \A h \in Entries : h # g => mem'[Guard(h)] = mem[Guard(h)]
  BY <1>4, IdFacts
<1>6. TypeOK'
  <2>1. requested' \in [Entries -> Nat]
    BY <1>1 DEF Inv, TypeOK
  <2> QED BY <1>1, <1>4, <2>1 DEF Inv, TypeOK, Ends
<1>7. Entered'
  BY <1>1, <1>4, EnteredByEnds
<1>8. Legs'
  <2>1. \A h \in Entries : h # g => requested'[h] = requested[h]
    BY <1>1 DEF Inv, TypeOK
  <2> SUFFICES ASSUME NEW h \in Entries, IsOpen(mem'[Guard(h)])
               PROVE  Tracked(h)' /\ mem'[Guard(h)].qty = requested'[h] /\ refused'[h] = None
    BY DEF Legs
  <2>2. h # g
    BY <1>4
  <2> QED BY <1>1, <1>2, <1>5, <2>1, <2>2 DEF Inv, Legs
<1>9. Rounds'
  <2>1. settling' # None => Tracked(settling')
    BY <1>1 DEF Inv, Rounds
  <2>2. /\ queue' \subseteq Polled' /\ queue' # {} /\ \A id \in queue' : id[2] = "guard"
    BY <1>1, <1>2 DEF Inv, Rounds
  <2>3. poller' # None /\ (poller' = "cycle" => settling' # None)
    BY <1>1 DEF Inv, Rounds
  <2>4. ~IsOpen(mem'[Foremost']) /\ mem'[Foremost'].state # "filled"
    BY <1>1, <1>2, <1>4 DEF Closing
  <2>5. targets'[Foremost'[1]] > 0
    <3>1. targets[g] \in Nat /\ MinLeg \in Nat /\ MinLeg > 0
      BY SizesAssumption DEF Inv, TypeOK
    <3>2. Foremost'[1] = g
      BY <1>1, <1>2, IdFacts
    <3> QED BY <1>1, <3>1, <3>2
  <2> QED BY <1>1, <1>2, <2>1, <2>2, <2>3, <2>4, <2>5 DEF Rounds, Resizing
<1>10. Fits'
  <2>1. \A h \in Entries : Share(h)' = Share(h)
    <3> TAKE h \in Entries
    <3>1. CASE h = g
      BY <1>1, <1>3, <3>1 DEF Share
    <3>2. CASE h # g
      BY <1>1, <1>5, <3>2 DEF Share
    <3> QED BY <3>1, <3>2
  <2>2. Shares' = Shares
    BY <2>1 DEF Shares
  <2> QED BY <1>1, <2>2 DEF Inv, Fits, Total
<1> QED BY <1>4, <1>6, <1>7, <1>8, <1>9, <1>10 DEF Inv

LEMMA PlaceGuardInv ==
  ASSUME Inv, NEW g \in Entries, PlaceGuard(g)
  PROVE  Inv'
<1>1. /\ stage = "place" /\ Guard(g) = Foremost /\ stage' = "confirm"
      /\ stray' = [stray EXCEPT ![g] = @ + Remaining(venue[Guard(g)])]
      /\ venue' = [venue EXCEPT ![Guard(g)] = Placed(targets[g])]
      /\ UNCHANGED <<submitting, slipped, holding, mem, held, tracked, requested, refused, settling, poller, queue, targets>>
  BY DEF PlaceGuard, Placing, submitVars, bookVars
<1>2. (\A h : Tracked(h)' <=> Tracked(h)) /\ Polled' = Polled /\ Foremost' = Foremost
  BY <1>1, SameRoutes
<1>3. queue # {} /\ ~IsOpen(mem[Guard(g)]) /\ mem[Guard(g)].state # "filled" /\ targets[Foremost[1]] > 0
  BY <1>1 DEF Inv, Rounds, Resizing
<1>4. Guard(g) \in queue /\ Guard(g) \in Ids /\ Tracked(g) /\ Foremost[1] = g
  BY <1>1, <1>3, ForemostGuard, IdFacts
<1>5. targets[g] \in Nat \ {0} /\ Placed(targets[g]) \in Order /\ Placed(targets[g]).qty = targets[g]
      /\ Placed(targets[g]).state = "open"
  <2>1. targets[g] \in Nat \ {0}
    BY <1>3, <1>4 DEF Inv, TypeOK
  <2> QED BY <2>1, Orders
<1>6. /\ venue' \in [Ids -> Order] /\ venue'[Guard(g)] = Placed(targets[g])
      /\ \A x \in Ids : x # Guard(g) => venue'[x] = venue[x]
  BY <1>1, <1>4, <1>5 DEF Inv, TypeOK
<1>7. TypeOK'
  <2>1. stray' \in [Entries -> Nat]
    <3>1. Remaining(venue[Guard(g)]) \in Nat /\ stray \in [Entries -> Nat]
      BY <1>4, Sizeable DEF Inv, TypeOK
    <3> QED BY <1>1, <3>1
  <2> QED BY <1>1, <1>6, <2>1 DEF Inv, TypeOK
<1>8. Copies'
  BY <1>1, <1>3, <1>6 DEF Inv, Copies
<1>9. Entered'
  <2>1. \A h \in Entries : Guard(h) = Guard(g) => h = g
    BY IdFacts
  <2>2. \A h \in Groups : venue'[Entry(h)] = venue[Entry(h)]
    BY <1>6, IdFacts
  <2>3. \A h \in Entries : h # g => venue'[Guard(h)] = venue[Guard(h)]
    BY <1>6, <2>1, IdFacts
  <2>4. Known(Entry(g)) /\ g \in Groups
    BY <1>4, IdFacts DEF Inv, Entered
  <2>5. submitting' = submitting /\ submitting \subseteq Groups /\ g \notin submitting
    BY <1>1, <1>4 DEF Inv, TypeOK, Entered
  <2>6. /\ \A h \in Groups : Known(Entry(h))' <=> Known(Entry(h))
        /\ \A h \in Entries : h # g => (Known(Guard(h))' <=> Known(Guard(h)))
    BY <2>2, <2>3 DEF Known
  <2>7. \A h \in Groups : Tracked(h)' => Known(Entry(h))'
    BY <1>2, <2>6 DEF Inv, Entered
  <2>8. \A h \in submitting' : Known(Entry(h))' /\ ~Tracked(h)' /\ (h \in Entries => ~Known(Guard(h))')
    BY <1>2, <2>5, <2>6 DEF Inv, Entered
  <2>9. \A h \in Entries : Known(Guard(h))' => Known(Entry(h))'
    BY <2>4, <2>6, IdFacts DEF Inv, Entered
  <2> QED BY <2>7, <2>8, <2>9 DEF Entered
<1>10. Legs'
  BY <1>1, <1>2 DEF Inv, Legs
<1>11. Rounds'
  <2>1. settling' # None => Tracked(settling')
    BY <1>1 DEF Inv, Rounds
  <2>2. /\ queue' \subseteq Polled' /\ queue' # {} /\ \A id \in queue' : id[2] = "guard"
    BY <1>1, <1>2, <1>3 DEF Inv, Rounds
  <2>3. poller' # None /\ (poller' = "cycle" => settling' # None)
    BY <1>1 DEF Inv, Rounds
  <2>4. venue'[Foremost'].qty = targets'[Foremost'[1]]
    BY <1>1, <1>2, <1>4, <1>5, <1>6
  <2> QED BY <1>1, <1>2, <1>3, <2>1, <2>2, <2>3, <2>4 DEF Rounds, Resizing
<1>12. Fits'
  <2>1. Shares' = Shares
    BY <1>1, SameShares
  <2> QED BY <1>1, <2>1 DEF Inv, Fits, Total
<1> QED BY <1>7, <1>8, <1>9, <1>10, <1>11, <1>12 DEF Inv

(* Reading the orders.                                                     *)
LEMMA SyncSettledInv ==
  ASSUME Inv, SyncSettled
  PROVE  Inv'
<1>1. /\ stage = "sync" /\ queue' = queue \ {Foremost}
      /\ UNCHANGED <<submitting, slipped, venue, stray, holding, mem, held, tracked, requested, refused, settling>>
      /\ UNCHANGED <<poller, stage, targets>>
  BY DEF SyncSettled, Done, submitVars, venueVars, bookVars
<1>2. (\A h : Tracked(h)' <=> Tracked(h)) /\ Polled' = Polled
  BY <1>1, SameRoutes
<1>3. TypeOK'
  <2>1. queue' \subseteq Ids
    BY <1>1 DEF Inv, TypeOK
  <2> QED BY <1>1, <2>1 DEF Inv, TypeOK
<1>4. Copies'
  BY <1>1 DEF Inv, Copies
<1>5. Entered'
  BY <1>1, <1>2 DEF Inv, Entered, Known
<1>6. Legs'
  BY <1>1, <1>2 DEF Inv, Legs
<1>7. Rounds'
  <2>1. settling' # None => Tracked(settling')
    BY <1>1 DEF Inv, Rounds
  <2>2. queue' \subseteq Polled' /\ poller' # None /\ (poller' = "cycle" => settling' # None)
    BY <1>1, <1>2 DEF Inv, Rounds
  <2> QED BY <1>1, <1>2, <2>1, <2>2 DEF Rounds, Resizing
<1>8. Fits'
  BY <1>1 DEF Fits
<1> QED BY <1>3, <1>4, <1>5, <1>6, <1>7, <1>8 DEF Inv

LEMMA ReadInv ==
  ASSUME Inv, Read,
         \/ stage' = "sync" /\ queue' = queue \ {Foremost}
         \/ stage' = "expire" /\ queue' = queue /\ Foremost[2] = "order"
  PROVE  Inv'
<1> DEFINE id == Foremost
<1>1. /\ stage = "sync" /\ queue # {} /\ IsOpen(mem[id]) /\ Bookable(id)
      /\ held' = Booked(id) /\ mem' = [mem EXCEPT ![id] = venue[id]]
      /\ UNCHANGED <<submitting, slipped, venue, stray, holding, tracked, requested, refused>>
      /\ UNCHANGED <<settling, poller, targets>>
  BY DEF Read, submitVars, venueVars, bookVars
<1>2. id \in Ids
  BY <1>1, ForemostFacts DEF Inv, Rounds
<1>3. /\ stage' \in {"sync", "expire"} /\ queue' \subseteq queue
      /\ stage' = "expire" => queue' # {} /\ Foremost' = id /\ id[2] = "order"
  BY <1>1, SameRoutes
<1> HIDE DEF id
<1>4. /\ venue[id] \in Order /\ venue[id].filled \in Nat /\ mem[id].filled \in Nat /\ held \in Nat
      /\ mem[id].filled <= venue[id].filled /\ mem[id].qty = venue[id].qty
  BY <1>1, <1>2, Sizeable DEF Inv, Copies
<1>5. /\ mem' \in [Ids -> Order] /\ mem'[id] = venue[id]
      /\ \A x \in Ids : x # id => mem'[x] = mem[x]
  BY <1>1, <1>2, <1>4 DEF Inv, TypeOK
<1>6. (\A h : Tracked(h)' <=> Tracked(h)) /\ Polled' = Polled
  BY <1>1, SameRoutes
<1>7. TypeOK'
  <2>1. queue' \subseteq Ids
    BY <1>3 DEF Inv, TypeOK
  <2>2. held' \in Nat
    <3>1. Unbooked(id) \in Nat /\ (IsSell(id) => Unbooked(id) <= held)
      BY <1>1, <1>4 DEF Unbooked, Bookable
    <3> QED BY <1>1, <1>4, <3>1 DEF Booked
  <2> QED BY <1>1, <1>3, <1>5, <2>1, <2>2 DEF Inv, TypeOK
<1>8. Copies'
  <2> SUFFICES ASSUME NEW x \in Ids, IsOpen(mem'[x])
               PROVE  mem'[x].qty = venue'[x].qty /\ mem'[x].filled <= venue'[x].filled
    BY DEF Copies
  <2>1. CASE x = id
    BY <1>1, <1>4, <1>5, <2>1
  <2>2. CASE x # id
    BY <1>1, <1>5, <2>2 DEF Inv, Copies
  <2> QED BY <2>1, <2>2
<1>9. Entered'
  BY <1>1, NoChangeEnds, EnteredByEnds DEF Inv
<1>10. Legs'
  <2> SUFFICES ASSUME NEW g \in Entries, IsOpen(mem'[Guard(g)])
               PROVE  Tracked(g)' /\ mem'[Guard(g)].qty = requested'[g] /\ refused'[g] = None
    BY DEF Legs
  <2>1. IsOpen(mem[Guard(g)]) /\ mem'[Guard(g)].qty = mem[Guard(g)].qty
    BY <1>1, <1>4, <1>5, IdFacts
  <2> QED BY <1>1, <1>6, <2>1 DEF Inv, Legs
<1>11. Rounds'
  <2>1. settling' # None => Tracked(settling')
    BY <1>1 DEF Inv, Rounds
  <2>2. queue' \subseteq Polled' /\ poller' # None /\ (poller' = "cycle" => settling' # None)
    BY <1>1, <1>3, <1>6 DEF Inv, Rounds
  <2> QED BY <1>1, <1>3, <1>6, <2>1, <2>2 DEF Rounds, Resizing
<1>12. Fits'
  BY <1>3 DEF Fits
<1> QED BY <1>7, <1>8, <1>9, <1>10, <1>11, <1>12 DEF Inv

LEMMA ExpireInv ==
  ASSUME Inv, Expire
  PROVE  Inv'
<1>1. /\ stage = "expire" /\ stage' = "sync" /\ queue' = queue \ {Foremost} /\ Cancel(Foremost)
      /\ UNCHANGED <<submitting, slipped, stray, holding, held, tracked, requested, refused>>
      /\ UNCHANGED <<settling, poller, targets>>
  BY DEF Expire, submitVars, bookVars
<1>2. Foremost \in Ids /\ Foremost[2] = "order"
  BY <1>1, ForemostFacts DEF Inv, Rounds
<1>3. /\ Ends /\ mem' \in [Ids -> Order] /\ Copies'
      /\ \A x \in Ids : x # Foremost => mem'[x] = mem[x]
  BY <1>1, <1>2, Cancels
<1>4. \A h \in Entries : mem'[Guard(h)] = mem[Guard(h)]
  BY <1>2, <1>3, IdFacts
<1>5. (\A h : Tracked(h)' <=> Tracked(h)) /\ Polled' = Polled
  BY <1>1, SameRoutes
<1>6. TypeOK'
  <2>1. queue' \subseteq Ids
    BY <1>1 DEF Inv, TypeOK
  <2> QED BY <1>1, <1>3, <2>1 DEF Inv, TypeOK, Ends
<1>7. Entered'
  BY <1>1, <1>3, EnteredByEnds
<1>8. Legs'
  BY <1>1, <1>4, <1>5 DEF Inv, Legs
<1>9. Rounds'
  <2>1. settling' # None => Tracked(settling')
    BY <1>1 DEF Inv, Rounds
  <2>2. queue' \subseteq Polled' /\ poller' # None /\ (poller' = "cycle" => settling' # None)
    BY <1>1, <1>5 DEF Inv, Rounds
  <2> QED BY <1>1, <1>5, <2>1, <2>2 DEF Rounds, Resizing
<1>10. Fits'
  BY <1>1 DEF Fits
<1> QED BY <1>3, <1>6, <1>7, <1>8, <1>9, <1>10 DEF Inv

(* A poll that raises, wherever it is.                                     *)
LEMMA RaisesRaise ==
  ASSUME Inv,
         \/ SyncOversold \/ SyncFails \/ ExpireFails
         \/ \E g \in Entries : CancelFails(g) \/ RejectLinked(g) \/ PlaceFails(g) \/ ConfirmFails(g)
  PROVE  Raise /\ Ends /\ UNCHANGED <<stray, holding, mem>> /\ held' \in Nat
<1>1. held \in Nat /\ 0 \in Nat
  BY DEF Inv, TypeOK
<1>2. CASE \/ SyncOversold \/ SyncFails
           \/ \E g \in Entries : RejectLinked(g) \/ PlaceFails(g) \/ ConfirmFails(g)
  <2>1. Raise /\ UNCHANGED <<venue, stray, holding, mem>> /\ held' \in Nat
    BY <1>1, <1>2 DEF SyncOversold, SyncFails, RejectLinked, PlaceFails, ConfirmFails, venueVars
  <2> QED BY <2>1, NoChangeEnds DEF Inv
<1>3. ASSUME NEW g \in Entries, CancelFails(g)
      PROVE  Raise /\ Ends /\ UNCHANGED <<stray, holding, mem>> /\ held' \in Nat
  <2>1. Raise /\ UNCHANGED <<stray, holding, mem, held>>
    BY <1>3 DEF CancelFails
  <2>2. PICK id \in {Entry(g), Guard(g)} : venue' = [venue EXCEPT ![id] = Ended(@)] \/ UNCHANGED venue
    BY <1>3 DEF CancelFails
  <2>3. id \in Ids
    BY IdFacts
  <2>4. Ends
    BY <2>2, <2>3, EndsOne, NoChangeEnds DEF Inv
  <2> QED BY <1>1, <2>1, <2>4
<1>4. CASE ExpireFails
  <2>1. /\ Raise /\ UNCHANGED <<stray, holding, mem, held>> /\ queue # {}
        /\ venue' = [venue EXCEPT ![Foremost] = Ended(@)] \/ UNCHANGED venue
    BY <1>4 DEF ExpireFails
  <2>2. Foremost \in Ids
    BY <2>1, ForemostFacts DEF Inv, Rounds
  <2>3. Ends
    BY <2>1, <2>2, EndsOne, NoChangeEnds DEF Inv
  <2> QED BY <1>1, <2>1, <2>3
<1> QED BY <1>2, <1>3, <1>4

LEMMA RaisesInv ==
  ASSUME Inv,
         \/ SyncOversold \/ SyncFails \/ ExpireFails
         \/ \E g \in Entries : CancelFails(g) \/ RejectLinked(g) \/ PlaceFails(g) \/ ConfirmFails(g)
  PROVE  Inv'
BY RaisesRaise, RaiseInv

----------------------------------------------------------------------------
(* Groups come and go.                                                     *)
LEMMA AppendRoutes ==
  ASSUME TypeOK, NEW g \in Groups, ~Tracked(g), tracked' = Append(tracked, g)
  PROVE  /\ tracked' \in Seq(Groups) /\ IsInjective(tracked')
         /\ \A h : Tracked(h)' <=> Tracked(h) \/ h = g
         /\ \A h : Tracked(h) => Position(h)' = Position(h)
         /\ Polled \subseteq Polled'
         /\ queue' = queue /\ queue \subseteq Polled /\ queue # {} => Foremost' = Foremost
<1> DEFINE n == Len(tracked)
<1>1. /\ n \in Nat /\ DOMAIN tracked = 1..n
      /\ \A i \in 1..n : tracked[i] \in Groups
      /\ \A i, j \in 1..n : tracked[i] = tracked[j] => i = j
      /\ \A h : Tracked(h) => Position(h) \in 1..n /\ tracked[Position(h)] = h
  BY TrackedFacts
<1>2. tracked \in Seq(Groups)
  BY DEF TypeOK
<1>3. /\ tracked' \in Seq(Groups) /\ Len(tracked') = n + 1 /\ DOMAIN tracked' = 1..(n + 1)
      /\ \A i \in 1..n : tracked'[i] = tracked[i]
      /\ tracked'[n + 1] = g
  BY <1>1, <1>2
<1>4. \A i \in 1..n : tracked[i] # g
  BY <1>1 DEF Tracked
<1> HIDE DEF n
<1>5. /\ \A i \in 1..(n + 1) : i \in 1..n \/ i = n + 1
      /\ \A i \in 1..n : i \in 1..(n + 1)
      /\ n + 1 \in 1..(n + 1) /\ n + 1 \notin 1..n
  BY <1>1
<1>6. \A i, j \in 1..(n + 1) : tracked'[i] = tracked'[j] => i = j
  BY <1>1, <1>3, <1>4, <1>5
<1>7. IsInjective(tracked')
  BY <1>3, <1>6 DEF IsInjective
<1>8. \A h : Tracked(h)' <=> Tracked(h) \/ h = g
  BY <1>1, <1>3, <1>5 DEF Tracked
<1>9. ASSUME NEW h, Tracked(h) PROVE Position(h)' = Position(h)
  <2>1. Position(h) \in 1..n /\ tracked[Position(h)] = h
    BY <1>1, <1>9
  <2>2. PICK p : p = Position(h)
    OBVIOUS
  <2>3. p \in 1..(n + 1) /\ tracked'[p] = h
    BY <1>3, <1>5, <2>1, <2>2
  <2>4. \A i \in 1..(n + 1) : tracked'[i] = h => i = p
    BY <1>6, <2>3
  <2>5. (CHOOSE i \in 1..(n + 1) : tracked'[i] = h) = p
    BY ONLY <2>3, <2>4
  <2> QED BY <1>3, <2>2, <2>5 DEF Position
<1>10. Polled \subseteq Polled'
  BY <1>8 DEF Polled
<1>11. ASSUME queue' = queue, queue \subseteq Polled, queue # {} PROVE Foremost' = Foremost
  <2>1. \A x \in queue : Rank(x)' = Rank(x)
    BY <1>9, <1>11 DEF Rank, Polled
  <2>2. PICK f : f = Foremost
    OBVIOUS
  <2>3. f \in queue /\ \A id \in queue : (\A other \in queue : Rank(id) <= Rank(other)) <=> id = f
    BY <1>11, <2>2, ForemostFacts
  <2>4. \A id \in queue : (\A other \in queue : Rank(id)' <= Rank(other)') <=> id = f
    BY <2>1, <2>3
  <2>5. (CHOOSE id \in queue : \A other \in queue : Rank(id)' <= Rank(other)') = f
    BY <2>3, <2>4
  <2>6. Foremost' = CHOOSE id \in queue : \A other \in queue : Rank(id)' <= Rank(other)'
    BY <1>11 DEF Foremost
  <2> QED BY <2>2, <2>5, <2>6
<1> QED BY <1>3, <1>7, <1>8, <1>9, <1>10, <1>11

LEMMA SendInv ==
  ASSUME Inv, NEW g \in Groups, NEW qty \in Nat \ {0}, Send(g, qty)
  PROVE  Inv'
<1>1. /\ venue[Entry(g)] = NoOrder
      /\ venue' = [venue EXCEPT ![Entry(g)] = Placed(qty)]
      /\ submitting' = submitting \cup {g}
      /\ UNCHANGED <<slipped, stray, holding, mem, held, tracked, requested, refused, settling>>
      /\ UNCHANGED <<poller, stage, queue, targets>>
  BY DEF Send, bookVars, pollVars
<1>2. Entry(g) \in Ids /\ ~Known(Entry(g)) /\ ~Tracked(g) /\ ~IsOpen(venue[Entry(g)])
  BY <1>1, IdFacts, Orders DEF Inv, Entered, Known
<1>3. /\ \A h : Tracked(h)' <=> Tracked(h)
      /\ Polled' = Polled /\ Foremost' = Foremost
  BY <1>1, SameRoutes
<1>4. /\ Placed(qty) \in Order /\ Placed(qty).state = "open" /\ Placed(qty).qty = qty /\ Placed(qty).filled = 0
  BY Orders
<1>5. /\ venue' \in [Ids -> Order] /\ venue'[Entry(g)] = Placed(qty)
      /\ \A x \in Ids : x # Entry(g) => venue'[x] = venue[x]
  BY <1>1, <1>2, <1>4 DEF Inv, TypeOK
<1>6. \A h \in Entries : venue'[Guard(h)] = venue[Guard(h)]
  BY <1>5, IdFacts
<1>7. TypeOK'
  BY <1>1, <1>5 DEF Inv, TypeOK
<1>8. Copies'
  <2> SUFFICES ASSUME NEW x \in Ids, IsOpen(mem[x])
               PROVE  mem[x].qty = venue'[x].qty /\ mem[x].filled <= venue'[x].filled
    BY <1>1 DEF Copies
  <2>1. mem[x].qty = venue[x].qty /\ mem[x].filled <= venue[x].filled
    BY DEF Inv, Copies
  <2>2. CASE x # Entry(g)
    BY <1>5, <2>1, <2>2
  <2>3. CASE x = Entry(g)
    <3>1. mem[x].qty = 0 /\ mem[x] \in Order
      BY <1>1, <2>1, <2>3 DEF NoOrder, Inv, TypeOK
    <3> QED BY <3>1 DEF Order
  <2> QED BY <2>2, <2>3
<1>9. Entered'
  <2>1. \A h \in Groups : Known(Entry(h)) \/ h = g => venue'[Entry(h)].state # "none"
    BY <1>4, <1>5, IdFacts DEF Known
  <2>2. Entries \subseteq Groups /\ submitting \subseteq Groups
    BY IdFacts DEF Inv, TypeOK
  <2> QED BY <1>1, <1>2, <1>3, <1>6, <2>1, <2>2 DEF Inv, Entered, Known
<1>10. Legs'
  BY <1>1, <1>3 DEF Inv, Legs
<1>11. Rounds'
  <2>1. stage = "confirm" => venue'[Foremost] = venue[Foremost]
    <3>1. ASSUME stage = "confirm" PROVE Foremost \in Ids /\ Foremost[2] = "guard"
      <4>1. queue # {}
        BY <3>1 DEF Inv, Rounds, Resizing
      <4>2. Foremost \in queue /\ Foremost \in Ids
        BY <4>1, ForemostFacts DEF Inv, Rounds
      <4> QED BY <3>1, <4>2 DEF Inv, Rounds
    <3>2. stage = "confirm" => Foremost # Entry(g)
      BY <3>1 DEF Entry
    <3> QED BY <1>5, <3>1, <3>2
  <2> QED BY <1>1, <1>3, <2>1 DEF Inv, Rounds, Resizing
<1>12. Fits'
  <2>1. Shares' = Shares
    BY <1>1, SameShares
  <2> QED BY <1>1, <2>1 DEF Inv, Fits, Total
<1> QED BY <1>7, <1>8, <1>9, <1>10, <1>11, <1>12 DEF Inv

LEMMA SubmittedInv ==
  ASSUME Inv, NEW g \in Groups, Submitted(g)
  PROVE  Inv'
<1>1. /\ g \in submitting /\ submitting' = submitting \ {g}
      /\ mem' = [mem EXCEPT ![Entry(g)] = venue[Entry(g)]]
      /\ tracked' = Append(tracked, g)
      /\ UNCHANGED <<venue, stray, holding, requested, refused, poller, stage, queue, targets>>
  BY DEF Submitted, venueVars, bookVars, pollVars
<1>2. Entry(g) \in Ids /\ Known(Entry(g)) /\ ~Tracked(g)
  BY <1>1, IdFacts DEF Inv, Entered
<1>3. /\ tracked' \in Seq(Groups) /\ IsInjective(tracked')
      /\ \A h : Tracked(h)' <=> Tracked(h) \/ h = g
      /\ Polled \subseteq Polled'
      /\ queue # {} => Foremost' = Foremost
  BY <1>1, <1>2, AppendRoutes DEF Inv, Rounds
<1>4. venue[Entry(g)] \in Order /\ Unread(g) \in Nat /\ held \in Nat /\ slipped \in Nat
  BY <1>2, Sizeable DEF Inv, TypeOK, Unread
<1>5. held' \in Nat /\ slipped' \in Nat /\ held + slipped <= held' + slipped'
  <2>1. PICK n : n = Unread(g)
    OBVIOUS
  <2>2. CASE g = Exit
    <3>1. n \in Nat /\ n <= held /\ held' = held - n /\ slipped' = slipped + n
      BY <1>4, <2>1, <2>2 DEF Submitted
    <3> QED BY ONLY <1>4, <3>1
  <2>3. CASE g # Exit
    <3>1. n \in Nat /\ held' = held + n /\ slipped' = slipped
      BY <1>4, <2>1, <2>3 DEF Submitted
    <3> QED BY ONLY <1>4, <3>1
  <2> QED BY <2>2, <2>3
<1>6. settling' = settling \/ (settling' = g /\ g \in Entries)
  BY DEF Submitted, Groups
<1>7. /\ mem' \in [Ids -> Order] /\ mem'[Entry(g)] = venue[Entry(g)]
      /\ \A x \in Ids : x # Entry(g) => mem'[x] = mem[x]
  BY <1>1, <1>2, <1>4 DEF Inv, TypeOK
<1>8. \A h \in Entries : mem'[Guard(h)] = mem[Guard(h)]
  BY <1>7, IdFacts
<1>9. TypeOK'
  <2>1. settling' \in Entries \cup {None}
    BY <1>6 DEF Inv, TypeOK
  <2>2. submitting' \subseteq Groups
    BY <1>1 DEF Inv, TypeOK
  <2> QED BY <1>1, <1>3, <1>5, <1>7, <2>1, <2>2 DEF Inv, TypeOK
<1>10. Copies'
  <2> SUFFICES ASSUME NEW x \in Ids, IsOpen(mem'[x])
               PROVE  mem'[x].qty = venue'[x].qty /\ mem'[x].filled <= venue'[x].filled
    BY DEF Copies
  <2>1. CASE x = Entry(g)
    <3>1. mem'[x] = venue'[x] /\ venue'[x].filled \in Nat
      BY <1>1, <1>4, <1>7, <2>1 DEF Unread
    <3> QED BY <3>1
  <2>2. CASE x # Entry(g)
    BY <1>1, <1>7, <2>2 DEF Inv, Copies
  <2> QED BY <2>1, <2>2
<1>11. Entered'
  BY <1>1, <1>2, <1>3 DEF Inv, Entered, Known
<1>12. Legs'
  BY <1>1, <1>3, <1>8 DEF Inv, Legs
<1>13. Rounds'
  <2>1. (settling # None => Tracked(settling))'
    BY <1>3, <1>6 DEF Inv, Rounds
  <2>2. queue' \subseteq Polled' /\ (stage' = "rest" => queue' = {}) /\ (poller' = None <=> stage' = "rest")
    BY <1>1, <1>3 DEF Inv, Rounds
  <2>3. poller' = "cycle" => settling' # None
    BY <1>1, <1>6, IdFacts DEF Inv, Rounds
  <2>4. ASSUME stage \in {"place", "confirm"}
        PROVE  queue # {} /\ Foremost' = Foremost /\ mem'[Foremost] = mem[Foremost]
    <3>1. queue # {}
      BY <2>4 DEF Inv, Rounds, Resizing
    <3>2. Foremost \in queue /\ Foremost \in Ids
      BY <3>1, ForemostFacts DEF Inv, Rounds
    <3>3. Foremost[2] = "guard"
      BY <2>4, <3>2 DEF Inv, Rounds
    <3>4. Foremost # Entry(g)
      BY <3>3 DEF Entry
    <3> QED BY <1>3, <1>7, <3>1, <3>2, <3>4
  <2>5. stage' \in {"maintain", "place", "confirm"} => \A id \in queue' : id[2] = "guard"
    BY <1>1 DEF Inv, Rounds
  <2>6. Resizing' => /\ queue' # {} /\ ~IsOpen(mem'[Foremost']) /\ mem'[Foremost'].state # "filled"
                     /\ targets'[Foremost'[1]] > 0
    BY <1>1, <2>4 DEF Inv, Rounds, Resizing
  <2>7. stage' = "confirm" => venue'[Foremost'].qty = targets'[Foremost'[1]]
    BY <1>1, <2>4 DEF Inv, Rounds
  <2>8. stage' = "expire" => queue' # {} /\ Foremost'[2] = "order"
    BY <1>1, <1>3 DEF Inv, Rounds
  <2> QED BY <1>3, <2>1, <2>2, <2>3, <2>5, <2>6, <2>7, <2>8 DEF Rounds
<1>14. Fits'
  <2>1. Shares' = Shares
    BY <1>1, <1>8, SameShares
  <2>2. Total(Shares, Entries) \in Nat
    BY SharesAreNat DEF Inv
  <2>3. Total(Shares, Entries) <= held + slipped => Total(Shares, Entries) <= held' + slipped'
    <3>1. PICK n, h, k, before : /\ n = Total(Shares, Entries) /\ before = held + slipped
                                 /\ h = held' /\ k = slipped'
      OBVIOUS
    <3>2. n \in Nat /\ before \in Nat
      BY <1>4, <2>2, <3>1
    <3>3. h \in Nat
      BY <1>5, <3>1
    <3>4. k \in Nat
      BY <1>5, <3>1
    <3>5. before <= h + k
      BY ONLY <1>5, <3>1
    <3>6. n <= before => n <= h + k
      BY ONLY <3>2, <3>3, <3>4, <3>5
    <3> QED BY <3>1, <3>6
  <2> QED BY <1>1, <2>1, <2>3 DEF Inv, Fits, Total
<1> QED BY <1>9, <1>10, <1>11, <1>12, <1>13, <1>14 DEF Inv

LEMMA SubmitFailsInv ==
  ASSUME Inv, NEW g \in Groups, SubmitFails(g)
  PROVE  Inv'
<1>1. /\ g \in submitting /\ submitting' = submitting \ {g}
      /\ UNCHANGED <<venue, stray, holding, mem, tracked, requested, refused, settling>>
      /\ UNCHANGED <<poller, stage, queue, targets>>
  BY DEF SubmitFails, venueVars, bookVars, pollVars
<1>2. held \in Nat /\ slipped \in Nat
  BY DEF Inv, TypeOK
<1>3. held' \in Nat /\ slipped' \in Nat /\ held + slipped = held' + slipped'
  <2>1. UNCHANGED <<held, slipped>> \/ (held' = 0 /\ slipped' = slipped + held)
    BY DEF SubmitFails
  <2> QED BY ONLY <1>2, <2>1
<1>4. /\ \A h : Tracked(h)' <=> Tracked(h)
      /\ Polled' = Polled /\ Foremost' = Foremost
  BY <1>1, SameRoutes
<1>5. TypeOK'
  <2>1. submitting' \subseteq Groups
    BY <1>1 DEF Inv, TypeOK
  <2> QED BY <1>1, <1>3, <2>1 DEF Inv, TypeOK
<1>6. Copies' /\ Legs'
  BY <1>1, <1>4 DEF Inv, Copies, Legs
<1>7. Entered'
  BY <1>1, <1>4 DEF Inv, Entered, Known
<1>8. Rounds'
  BY <1>1, <1>4 DEF Inv, Rounds, Resizing
<1>9. Fits'
  <2>1. Shares' = Shares
    BY <1>1, SameShares
  <2> QED BY <1>1, <1>3, <2>1 DEF Inv, Fits, Total
<1> QED BY <1>5, <1>6, <1>7, <1>8, <1>9 DEF Inv

LEMMA RemoveRoutes ==
  ASSUME TypeOK, NEW g \in Groups, Tracked(g), tracked' = RemoveAt(tracked, Position(g))
  PROVE  /\ tracked' \in Seq(Groups) /\ IsInjective(tracked')
         /\ \A h : Tracked(h)' <=> Tracked(h) /\ h # g
<1> DEFINE n == Len(tracked)
<1>1. /\ n \in Nat /\ DOMAIN tracked = 1..n
      /\ \A i \in 1..n : tracked[i] \in Groups
      /\ \A i, j \in 1..n : tracked[i] = tracked[j] => i = j
      /\ Position(g) \in 1..n /\ tracked[Position(g)] = g
  BY TrackedFacts
<1>2. PICK p : p = Position(g)
  OBVIOUS
<1>3. p \in 1..n /\ tracked[p] = g /\ p \in Nat /\ 1 <= p /\ p <= n
  BY <1>1, <1>2
<1>4. tracked \in Seq(Groups)
  BY DEF TypeOK
<1> DEFINE before == SubSeq(tracked, 1, p - 1)
           after == SubSeq(tracked, p + 1, n)
<1>5. /\ before \in Seq(Groups) /\ Len(before) = p - 1
      /\ \A i \in 1..(p - 1) : before[i] = tracked[i]
  <2>1. SubSeq(tracked, 1, p - 1) = [i \in 1..(p - 1) |-> tracked[i]]
    BY <1>1, <1>3, <1>4
  <2>2. \A i \in 1..(p - 1) : tracked[i] \in Groups
    BY <1>1, <1>3
  <2> QED BY <1>3, <2>1, <2>2
<1>6. /\ after \in Seq(Groups) /\ Len(after) = n - p
      /\ \A i \in 1..(n - p) : after[i] = tracked[i + p]
  <2>1. n - p \in Nat /\ \A i \in 1..(n - p) : i + p \in 1..n /\ i + (p + 1) - 1 = i + p
    BY <1>1, <1>3
  <2>2. after = [i \in 1..(n - (p + 1) + 1) |-> tracked[i + (p + 1) - 1]]
    BY <1>1, <1>3, <1>4
  <2>3. n - (p + 1) + 1 = n - p
    BY <1>1, <1>3
  <2> HIDE DEF n, after
  <2>4. after = [i \in 1..(n - p) |-> tracked[i + p]]
    <3>1. after = [i \in 1..(n - p) |-> tracked[i + (p + 1) - 1]]
      BY <2>2, <2>3
    <3> QED BY <2>1, <3>1
  <2>5. \A i \in 1..(n - p) : tracked[i + p] \in Groups
    BY <1>1, <2>1
  <2> QED BY <2>1, <2>4, <2>5
<1>7. tracked' = before \o after
  BY <1>2 DEF RemoveAt
<1> HIDE DEF n, before, after
<1>8. /\ tracked' \in Seq(Groups) /\ Len(tracked') = n - 1 /\ DOMAIN tracked' = 1..(n - 1)
      /\ \A i \in 1..(n - 1) : tracked'[i] = IF i < p THEN tracked[i] ELSE tracked[i + 1]
  <2>1. tracked' \in Seq(Groups) /\ Len(tracked') = n - 1
    <3>1. before \in Seq(Groups) /\ after \in Seq(Groups)
      BY <1>5, <1>6
    <3>2. before \o after \in Seq(Groups) /\ Len(before \o after) = Len(before) + Len(after)
      BY ONLY <3>1
    <3>3. (p - 1) + (n - p) = n - 1
      BY <1>1, <1>3
    <3> QED BY <1>5, <1>6, <1>7, <3>2, <3>3
  <2>2. ASSUME NEW i \in 1..(n - 1), i < p PROVE tracked'[i] = tracked[i]
    BY <1>1, <1>3, <1>5, <1>6, <1>7, <2>2
  <2>3. ASSUME NEW i \in 1..(n - 1), ~(i < p) PROVE tracked'[i] = tracked[i + 1]
    <3>1. i - (p - 1) \in 1..(n - p) /\ (i - (p - 1)) + p = i + 1
      BY <1>1, <1>3, <2>3
    <3>2. tracked'[i] = after[i - (p - 1)]
      BY <1>1, <1>3, <1>5, <1>6, <1>7, <2>3
    <3> QED BY <1>6, <3>1, <3>2
  <2> QED BY <2>1, <2>2, <2>3
<1>9. IsInjective(tracked')
  <2> SUFFICES ASSUME NEW i \in 1..(n - 1), NEW j \in 1..(n - 1), tracked'[i] = tracked'[j] PROVE i = j
    BY <1>8 DEF IsInjective
  <2> DEFINE a == IF i < p THEN i ELSE i + 1
             b == IF j < p THEN j ELSE j + 1
  <2>1. a \in 1..n /\ b \in 1..n /\ (a = b => i = j)
    BY <1>1, <1>3
  <2>2. tracked'[i] = tracked[a] /\ tracked'[j] = tracked[b]
    BY <1>8
  <2> HIDE DEF a, b
  <2> QED BY <1>1, <2>1, <2>2
<1>10. ASSUME NEW h PROVE Tracked(h)' <=> Tracked(h) /\ h # g
  <2>1. ASSUME Tracked(h)' PROVE Tracked(h) /\ h # g
    <3>1. PICK i \in 1..(n - 1) : tracked'[i] = h
      BY <1>8, <2>1 DEF Tracked
    <3> DEFINE a == IF i < p THEN i ELSE i + 1
    <3>2. a \in 1..n /\ a # p
      BY <1>1, <1>3
    <3>3. tracked[a] = h
      BY <1>8, <3>1
    <3> HIDE DEF a
    <3> QED BY <1>1, <1>3, <3>2, <3>3 DEF Tracked
  <2>2. ASSUME Tracked(h), h # g PROVE Tracked(h)'
    <3>1. PICK a \in 1..n : tracked[a] = h
      BY <1>1, <2>2 DEF Tracked
    <3>2. a # p
      BY <1>3, <2>2, <3>1
    <3> DEFINE i == IF a < p THEN a ELSE a - 1
    <3>3. i \in 1..(n - 1) /\ a = IF i < p THEN i ELSE i + 1
      BY <1>1, <1>3, <3>2
    <3> HIDE DEF i
    <3>4. tracked'[i] = h
      BY <1>8, <3>1, <3>3
    <3> QED BY <1>8, <3>3, <3>4 DEF Tracked
  <2> QED BY <2>1, <2>2
<1> QED BY <1>8, <1>9, <1>10

LEMMA PollEndInv ==
  ASSUME Inv, PollEnd
  PROVE  Inv'
<1>1. /\ stage = "maintain" /\ queue = {} /\ poller' = None /\ stage' = "rest" /\ targets' = NoTargets
      /\ settling' = (IF poller = "cycle" THEN None ELSE settling)
      /\ UNCHANGED <<submitting, slipped, venue, stray, holding, held, queue>>
  BY DEF PollEnd, submitVars, venueVars
<1>2. CASE poller = "cycle" /\ Settled(settling)
  <2>1. PICK g : g = settling
    OBVIOUS
  <2>2. g \in Entries /\ Tracked(g) /\ settling' = None
    BY <1>1, <1>2, <2>1 DEF Inv, Rounds, TypeOK
  <2>3. /\ tracked' = RemoveAt(tracked, Position(g))
        /\ mem' = [id \in Ids |-> IF id[1] = g THEN NoOrder ELSE mem[id]]
        /\ requested' = [requested EXCEPT ![g] = 0]
        /\ refused' = [refused EXCEPT ![g] = None]
    BY <1>2, <2>1 DEF PollEnd, Prune
  <2>4. g \in Groups
    BY <2>2, IdFacts
  <2>5. /\ tracked' \in Seq(Groups) /\ IsInjective(tracked')
        /\ \A h : Tracked(h)' <=> Tracked(h) /\ h # g
    BY <2>2, <2>3, <2>4, RemoveRoutes DEF Inv
  <2>6. /\ mem' \in [Ids -> Order]
        /\ \A x \in Ids : IsOpen(mem'[x]) => x[1] # g /\ mem'[x] = mem[x]
    BY <2>3, Orders DEF Inv, TypeOK
  <2>7. TypeOK'
    <3>1. targets' \in [Entries -> Nat]
      BY <1>1 DEF NoTargets
    <3>2. requested' \in [Entries -> Nat] /\ refused' \in [Entries -> Nat \cup {None}]
      BY <2>3 DEF Inv, TypeOK
    <3> QED BY <1>1, <2>2, <2>5, <2>6, <3>1, <3>2 DEF Inv, TypeOK
  <2>8. Copies'
    BY <1>1, <2>6 DEF Inv, Copies
  <2>9. Entered'
    BY <1>1, <2>5 DEF Inv, Entered, Known
  <2>10. Legs'
    <3> SUFFICES ASSUME NEW h \in Entries, IsOpen(mem'[Guard(h)])
                 PROVE  Tracked(h)' /\ mem'[Guard(h)].qty = requested'[h] /\ refused'[h] = None
      BY DEF Legs
    <3>1. h # g /\ mem'[Guard(h)] = mem[Guard(h)]
      BY <2>6, IdFacts
    <3>2. requested'[h] = requested[h] /\ refused'[h] = refused[h]
      BY <2>3, <3>1 DEF Inv, TypeOK
    <3> QED BY <2>5, <3>1, <3>2 DEF Inv, Legs
  <2>11. Rounds'
    BY <1>1, <2>2, NoneAssumption DEF Rounds, Resizing
  <2>12. Fits'
    BY <1>1 DEF Fits
  <2> QED BY <2>7, <2>8, <2>9, <2>10, <2>11, <2>12 DEF Inv
<1>3. CASE ~(poller = "cycle" /\ Settled(settling))
  <2>1. UNCHANGED <<tracked, mem, requested, refused>>
    BY <1>3 DEF PollEnd, bookVars
  <2>2. Raise
    BY <1>1, <2>1 DEF Raise, submitVars
  <2>3. Ends
    BY <1>1, NoChangeEnds DEF Inv
  <2>4. held' \in Nat
    BY <1>1 DEF Inv, TypeOK
  <2> QED BY <1>1, <2>1, <2>2, <2>3, <2>4, RaiseInv
<1> QED BY <1>2, <1>3

LEMMA InvInit == Init => Inv
<1> SUFFICES ASSUME Init PROVE Inv
  OBVIOUS
<1>1. /\ venue = [id \in Ids |-> NoOrder] /\ mem = [id \in Ids |-> NoOrder]
      /\ tracked = <<>> /\ queue = {} /\ stage = "rest" /\ poller = None /\ settling = None
      /\ submitting = {} /\ slipped = 0
  BY DEF Init
<1>2. \A id \in Ids : venue[id] = NoOrder /\ mem[id] = NoOrder
  BY <1>1
<1>3. TypeOK
  <2>1. venue \in [Ids -> Order] /\ mem \in [Ids -> Order]
    BY <1>1, Orders
  <2>2. tracked \in Seq(Groups) /\ IsInjective(tracked)
    BY <1>1 DEF IsInjective
  <2>3. /\ stray \in [Entries -> Nat] /\ requested \in [Entries -> Nat] /\ targets \in [Entries -> Nat]
        /\ refused \in [Entries -> Nat \cup {None}] /\ holding \in Int /\ held \in Nat
    BY DEF Init, NoTargets
  <2> QED BY <1>1, <2>1, <2>2, <2>3 DEF TypeOK
<1>4. \A g : ~Tracked(g)
  BY <1>1 DEF Tracked
<1>5. Copies /\ Legs
  BY <1>2, IdFacts, Orders DEF Copies, Legs
<1>6. Entered
  BY <1>1, <1>2, <1>4, IdFacts, Orders DEF Entered, Known
<1>7. Rounds /\ Fits
  BY <1>1, NoneAssumption DEF Rounds, Resizing, Fits
<1> QED BY <1>3, <1>5, <1>6, <1>7 DEF Inv

LEMMA InvNext == Inv /\ [Next]_vars => Inv'
<1> SUFFICES ASSUME Inv, [Next]_vars PROVE Inv'
  OBVIOUS
<1>1. ASSUME NEW g \in Groups, EntryFills(g) PROVE Inv'
  BY <1>1, EntryFillsMoves, WorldInv, IdFacts
<1>2. ASSUME NEW g \in Entries, GuardFills(g) PROVE Inv'
  BY <1>2, GuardFillsMoves, WorldInv, IdFacts
<1>3. ASSUME NEW g \in Entries, GuardWithdrawn(g) PROVE Inv'
  BY <1>3, GuardWithdrawnMoves, WorldInv, IdFacts
<1>4. ASSUME NEW g \in Entries, Enter(g) PROVE Inv'
  BY <1>4, SendInv, SizesAssumption, IdFacts DEF Enter
<1>5. CASE Sell
  <2>1. Send(Exit, ExitQty) /\ Exit \in Groups
    BY <1>5 DEF Sell, Groups
  <2> QED BY <2>1, SendInv, SizesAssumption
<1>6. ASSUME NEW g \in Groups, Submitted(g) \/ SubmitFails(g) PROVE Inv'
  BY <1>6, SubmittedInv, SubmitFailsInv
<1>7. ASSUME NEW who \in {"sweep", "cycle"}, PollBegin(who) PROVE Inv'
  BY <1>7, PollBeginInv
<1>8. CASE SyncSettled \/ SyncOrder \/ SyncExpired \/ Expire \/ ComputeTargets \/ PollEnd
  BY <1>8, SyncSettledInv, ReadInv, ExpireInv, ComputeTargetsInv, PollEndInv
     DEF SyncOrder, SyncExpired, MayExpire, Read
<1>9. ASSUME NEW g \in Entries, MaintainStep(g) PROVE Inv'
  BY <1>9, LeaveInv, CloseGroupInv, UnguardInv, CancelForResizeInv, PlaceGuardInv, RejectSingleInv,
     ConfirmInv, RaisesInv DEF MaintainStep
<1>10. CASE SyncOversold \/ SyncFails \/ ExpireFails
  BY <1>10, RaisesInv
<1>11. CASE UNCHANGED vars
  <2>1. UNCHANGED <<submitting, slipped, venue, stray, holding, mem, held, tracked, requested, refused>>
    BY <1>11 DEF vars, submitVars, venueVars, bookVars
  <2>2. UNCHANGED <<settling, poller, stage, queue, targets>>
    BY <1>11 DEF vars, pollVars
  <2>3. (\A h : Tracked(h)' <=> Tracked(h)) /\ Polled' = Polled /\ Foremost' = Foremost /\ Shares' = Shares
    BY <2>1, <2>2, SameRoutes, SameShares
  <2> QED BY <2>1, <2>2, <2>3
          DEF Inv, TypeOK, Copies, Entered, Known, Legs, Rounds, Resizing, Fits, Total
<1> QED BY <1>1, <1>2, <1>3, <1>4, <1>5, <1>6, <1>7, <1>8, <1>9, <1>10, <1>11 DEF Next, PollStep

THEOREM InvHolds == Spec => []Inv
BY InvInit, InvNext, PTL DEF Spec

(* Every value stays in its range, for any number of groups: in particular *)
(* the ledger's holding never goes below zero.                             *)
THEOREM TypeCorrect == Spec => []TypeOK
<1>1. Inv => TypeOK
  BY DEF Inv
<1> QED BY <1>1, InvHolds, PTL

(* A poll that runs to its end leaves guards for no more than the ledger   *)
(* holds and submits have sold since the targets were computed, over any   *)
(* number of groups, whatever fails, fills, is placed or is booked         *)
(* meanwhile (ExecutionMonitor._targets, _maintain).                       *)
THEOREM GuardsFit == Spec => PollFits
<1>1. ASSUME Inv, stage = "maintain", queue = {} PROVE Guarded <= held + slipped
  <2>1. Shares = [g \in Entries |-> Remaining(mem[Guard(g)])]
    BY <1>1 DEF Shares, Share
  <2> QED BY <1>1, <2>1 DEF Inv, Fits, Guarded
<1>2. Inv => (stage = "maintain" /\ queue = {} => Guarded <= held + slipped)
  BY <1>1
<1> QED BY <1>2, InvHolds, PTL DEF PollFits

----------------------------------------------------------------------------
(* GuardsOwned: while every query is answered, and unless a guard can fill *)
(* in part during a poll (a placing that then raises leaves it to nobody). *)
Owned == GuardsOwned /\ Alone
Answered == "query" \notin Faults /\ ("race" \notin Faults \/ "partial" \notin Faults)

(* Steps at whose end no guard is being placed.                            *)
LEMMA OwnedSettles ==
  ASSUME Inv, Owned, Ends, UNCHANGED stray, stage' \notin {"place", "confirm"},
         \A g \in Entries : IsOpen(venue'[Guard(g)]) =>
           \/ IsOpen(mem'[Guard(g)])
           \/ ~IsOpen(mem[Guard(g)]) /\ ~(stage = "confirm" /\ Guard(g) = Foremost)
  PROVE  Owned'
<1>1. ASSUME NEW g \in Entries, IsOpen(venue'[Guard(g)]) PROVE IsOpen(mem'[Guard(g)])
  <2>1. IsOpen(venue[Guard(g)])
    BY <1>1, EndsFacts, IdFacts DEF Inv
  <2>2. IsOpen(mem[Guard(g)]) \/ (stage = "confirm" /\ Guard(g) = Foremost)
    BY <2>1 DEF Owned, GuardsOwned
  <2> QED BY <1>1, <2>2
<1> QED BY <1>1 DEF Owned, GuardsOwned, Alone

LEMMA OwnedRaises ==
  ASSUME Inv, Owned, Answered,
         \/ SyncOversold \/ SyncFails \/ ExpireFails
         \/ \E g \in Entries : CancelFails(g) \/ RejectLinked(g) \/ PlaceFails(g) \/ ConfirmFails(g)
  PROVE  Owned'
<1>1. Raise /\ Ends /\ UNCHANGED <<stray, holding, mem>>
  BY RaisesRaise
<1>2. stage' = "rest"
  BY <1>1 DEF Raise
<1>3. CASE stage = "confirm"
  <2>1. PICK g \in Entries : ConfirmFails(g)
    BY <1>3 DEF SyncOversold, SyncFails, ExpireFails, CancelFails, RejectLinked, PlaceFails, ConfirmFails,
                Maintaining, Placing
  <2>2. venue[Guard(g)].filled > held /\ Guard(g) = Foremost /\ UNCHANGED venue
    BY <2>1 DEF ConfirmFails, Answered, venueVars
  <2>3. venue[Guard(g)].filled # 0
    <3>1. held \in Nat
      BY DEF Inv, TypeOK
    <3> QED BY <2>2, <3>1
  <2>4. ~IsOpen(venue'[Guard(g)])
    BY <1>3, <2>2, <2>3 DEF Owned, Alone
  <2>5. \A h \in Entries : Guard(h) = Foremost => h = g
    BY <2>2, IdFacts
  <2> QED BY <1>1, <1>2, <2>4, <2>5, OwnedSettles
<1>4. CASE stage # "confirm"
  BY <1>1, <1>2, <1>4, OwnedSettles
<1> QED BY <1>3, <1>4

LEMMA OwnedSync ==
  ASSUME Inv, Owned,
         \/ \E who \in {"sweep", "cycle"} : PollBegin(who)
         \/ SyncSettled \/ SyncOrder \/ SyncExpired \/ Expire \/ ComputeTargets \/ PollEnd
  PROVE  Owned'
<1>1. CASE (\E who \in {"sweep", "cycle"} : PollBegin(who)) \/ SyncSettled \/ ComputeTargets
  <2>1. UNCHANGED <<venue, stray, mem>> /\ stage' \in {"sync", "maintain"} /\ stage # "confirm"
    BY <1>1 DEF PollBegin, SyncSettled, ComputeTargets, Done, LockFree, venueVars, Inv, Rounds
  <2>2. Ends
    BY <2>1, NoChangeEnds DEF Inv
  <2> QED BY <2>1, <2>2, OwnedSettles
<1>2. CASE SyncOrder \/ SyncExpired
  <2>1. /\ stage = "sync" /\ stage' \in {"sync", "expire"} /\ queue # {} /\ UNCHANGED <<venue, stray>>
        /\ mem' = [mem EXCEPT ![Foremost] = venue[Foremost]]
    BY <1>2 DEF SyncOrder, SyncExpired, Read, venueVars
  <2>2. \A g \in Entries : mem'[Guard(g)] = mem[Guard(g)] \/ mem'[Guard(g)] = venue'[Guard(g)]
    BY <2>1, IdFacts DEF Inv, TypeOK
  <2> QED BY <2>1, <2>2, NoChangeEnds, OwnedSettles DEF Inv
<1>3. CASE Expire
  <2>1. /\ stage = "expire" /\ stage' = "sync" /\ stray' = stray /\ Cancel(Foremost)
        /\ Foremost \in Ids /\ Foremost[2] = "order"
    BY <1>3, ForemostFacts DEF Expire, Inv, Rounds
  <2>2. Ends /\ \A x \in Ids : x # Foremost => mem'[x] = mem[x]
    BY <2>1, Cancels
  <2>3. \A g \in Entries : mem'[Guard(g)] = mem[Guard(g)]
    BY <2>1, <2>2, IdFacts
  <2> QED BY <2>1, <2>2, <2>3, OwnedSettles
<1>4. CASE PollEnd
  <2>1. stage = "maintain" /\ stage' = "rest" /\ UNCHANGED <<venue, stray>>
    BY <1>4 DEF PollEnd, venueVars
  <2>2. \A g \in Entries : mem'[Guard(g)] = mem[Guard(g)] \/ ~IsOpen(mem[Guard(g)])
    <3> TAKE g \in Entries
    <3>1. CASE poller = "cycle" /\ Settled(settling)
      <4>1. mem' = [id \in Ids |-> IF id[1] = settling THEN NoOrder ELSE mem[id]]
        BY <1>4, <3>1 DEF PollEnd, Prune
      <4>2. ~IsOpen(mem[Guard(settling)])
        BY <3>1 DEF Settled
      <4>3. Guard(g) \in Ids /\ Guard(g)[1] = g
        BY IdFacts
      <4> QED BY <4>1, <4>2, <4>3
    <3>2. CASE ~(poller = "cycle" /\ Settled(settling))
      BY <1>4, <3>2 DEF PollEnd
    <3> QED BY <3>1, <3>2
  <2>3. Ends
    BY <2>1, NoChangeEnds DEF Inv
  <2> QED BY <2>1, <2>2, <2>3, OwnedSettles
<1> QED BY <1>1, <1>2, <1>3, <1>4

LEMMA OwnedTurns ==
  ASSUME Inv, Owned, NEW g \in Entries,
         \/ Leave(g) \/ CloseGroup(g) \/ Release(g) \/ RefuseTarget(g)
         \/ RejectSingle(g) \/ Confirm(g)
  PROVE  Owned'
<1>1. \A h \in Entries : Guard(h) \in Ids /\ Entry(h) \in Ids /\ Guard(h) # Entry(g)
  BY IdFacts
<1>2. CASE Leave(g)
  <2>1. stage = "maintain" /\ stage' = "maintain" /\ UNCHANGED <<venue, stray, mem>>
    BY <1>2 DEF Leave, Maintaining, Done, venueVars
  <2> QED BY <2>1, NoChangeEnds, OwnedSettles DEF Inv
<1>3. CASE CloseGroup(g)
  <2>1. stage = "maintain" /\ stage' = "maintain" /\ stray' = stray /\ Cancel(Entry(g))
    BY <1>3 DEF CloseGroup, Maintaining, Done
  <2>2. Ends /\ \A x \in Ids : x # Entry(g) => mem'[x] = mem[x]
    BY <1>1, <2>1, Cancels
  <2> QED BY <1>1, <2>1, <2>2, OwnedSettles
<1>4. CASE Release(g) \/ RefuseTarget(g)
  <2>1. stage = "maintain" /\ stage' = "maintain" /\ stray' = stray /\ Cancel(Guard(g))
    BY <1>4 DEF Release, RefuseTarget, Maintaining, Done
  <2>2. /\ Ends /\ \A x \in Ids : x # Guard(g) => mem'[x] = mem[x]
        /\ IsOpen(mem[Guard(g)]) => ~IsOpen(venue'[Guard(g)])
    BY <1>1, <2>1, Cancels
  <2> QED BY <1>1, <2>1, <2>2, OwnedSettles
<1>5. CASE RejectSingle(g)
  <2>1. /\ stage = "place" /\ Guard(g) = Foremost /\ stage' = "maintain" /\ UNCHANGED <<venue, stray>>
        /\ mem' = [mem EXCEPT ![Guard(g)] = Ended(Placed(targets[g]))]
    BY <1>5 DEF RejectSingle, Placing, venueVars
  <2>2. ~IsOpen(venue'[Guard(g)])
    BY <2>1 DEF Owned, Alone
  <2>3. \A h \in Entries : mem'[Guard(h)] = mem[Guard(h)] \/ Guard(h) = Guard(g)
    BY <2>1, <1>1 DEF Inv, TypeOK
  <2> QED BY <2>1, <2>2, <2>3, NoChangeEnds, OwnedSettles DEF Inv
<1>6. CASE Confirm(g)
  <2>1. /\ stage = "confirm" /\ Guard(g) = Foremost /\ stage' = "maintain" /\ UNCHANGED <<venue, stray>>
        /\ mem' = [mem EXCEPT ![Guard(g)] = venue[Guard(g)]]
    BY <1>6 DEF Confirm, venueVars
  <2>2. \A h \in Entries : mem'[Guard(h)] = IF Guard(h) = Guard(g) THEN venue'[Guard(h)] ELSE mem[Guard(h)]
    BY <2>1, <1>1 DEF Inv, TypeOK
  <2> QED BY <2>1, <2>2, NoChangeEnds, OwnedSettles DEF Inv
<1> QED BY <1>2, <1>3, <1>4, <1>5, <1>6

LEMMA OwnedPlacing ==
  ASSUME Inv, Owned, NEW g \in Entries, CancelForResize(g) \/ PlaceGuard(g)
  PROVE  Owned'
<1>1. CASE CancelForResize(g)
  <2>1. /\ stage = "maintain" /\ queue # {} /\ Guard(g) = Foremost /\ Cancel(Guard(g)) /\ stage' = "place"
        /\ UNCHANGED <<stray, tracked, queue>>
    BY <1>1 DEF CancelForResize, Maintaining
  <2>2. Foremost' = Foremost
    BY <2>1, SameRoutes
  <2>3. /\ Ends /\ \A x \in Ids : x # Guard(g) => mem'[x] = mem[x]
        /\ IsOpen(mem[Guard(g)]) => ~IsOpen(venue'[Guard(g)])
    BY <2>1, Cancels, IdFacts
  <2>4. \A x \in Ids : IsOpen(venue'[x]) => IsOpen(venue[x])
    BY <2>3, EndsFacts DEF Inv
  <2>5. \A h \in Entries : IsOpen(venue[Guard(h)]) => IsOpen(mem[Guard(h)])
    BY <2>1 DEF Owned, GuardsOwned
  <2>6. \A h \in Entries : Guard(h) \in Ids
    BY IdFacts
  <2>7. \A h \in Entries : IsOpen(venue'[Guard(h)]) => IsOpen(mem'[Guard(h)])
    BY <2>3, <2>4, <2>5, <2>6
  <2>8. ~IsOpen(venue'[Guard(g)])
    BY <2>3, <2>4, <2>5, <2>6
  <2> QED BY <2>1, <2>2, <2>7, <2>8 DEF Owned, GuardsOwned, Alone
<1>2. CASE PlaceGuard(g)
  <2>1. /\ stage = "place" /\ Guard(g) = Foremost /\ stage' = "confirm"
        /\ stray' = [stray EXCEPT ![g] = @ + Remaining(venue[Guard(g)])]
        /\ venue' = [venue EXCEPT ![Guard(g)] = Placed(targets[g])]
        /\ UNCHANGED <<mem, tracked, queue>>
    BY <1>2 DEF PlaceGuard, Placing
  <2>2. Foremost' = Foremost
    BY <2>1, SameRoutes
  <2>3. ~IsOpen(venue[Guard(g)]) /\ Guard(g) \in Ids
    BY <2>1, IdFacts DEF Owned, Alone
  <2>4. stray' = [stray EXCEPT ![g] = @ + 0] /\ stray \in [Entries -> Nat] /\ stray[g] = 0
    BY <2>1, <2>3 DEF Remaining, Inv, TypeOK, Owned, GuardsOwned
  <2>5. \A h \in Entries : stray'[h] = 0
    BY <2>4 DEF Owned, GuardsOwned
  <2>6. /\ venue'[Guard(g)] = Placed(targets[g]) /\ venue'[Guard(g)].filled = 0
        /\ \A x \in Ids : x # Guard(g) => venue'[x] = venue[x]
    BY <2>1, <2>3 DEF Inv, TypeOK, Placed
  <2>7. \A h \in Entries : h # g => (IsOpen(venue'[Guard(h)]) => IsOpen(mem'[Guard(h)]))
    <3>1. \A h \in Entries : h # g => Guard(h) # Guard(g) /\ Guard(h) \in Ids
      BY IdFacts
    <3>2. \A h \in Entries : IsOpen(venue[Guard(h)]) => IsOpen(mem[Guard(h)])
      BY <2>1 DEF Owned, GuardsOwned
    <3> QED BY <2>1, <2>6, <3>1, <3>2
  <2> QED BY <2>1, <2>2, <2>5, <2>6, <2>7 DEF Owned, GuardsOwned, Alone
<1> QED BY <1>1, <1>2

LEMMA OwnedWorld ==
  ASSUME Inv, Owned, NEW id \in Ids, NEW o, Moves(id, o),
         stage = "confirm" /\ id = Foremost => venue[id].filled = o.filled \/ ~IsOpen(o)
  PROVE  Owned'
<1>1. /\ venue' = [venue EXCEPT ![id] = o] /\ IsOpen(venue[id])
      /\ UNCHANGED <<stray, mem, tracked, queue, stage>>
  BY DEF Moves, pollVars
<1>2. Foremost' = Foremost
  BY <1>1, SameRoutes
<1>3. \A x \in Ids : venue'[x] = IF x = id THEN o ELSE venue[x]
  BY <1>1 DEF Inv, TypeOK
<1>4. \A x \in Ids : IsOpen(venue'[x]) => IsOpen(venue[x])
  BY <1>1, <1>3
<1>5. stage \in {"place", "confirm"} => Foremost \in Ids
  BY ForemostFacts DEF Inv, Rounds, Resizing
<1>6. GuardsOwned'
  BY <1>1, <1>2, <1>4, IdFacts DEF Owned, GuardsOwned
<1>7. Alone'
  BY <1>1, <1>2, <1>3, <1>4, <1>5 DEF Owned, Alone
<1> QED BY <1>6, <1>7 DEF Owned

(* A cycle's order is sent, and the submit that sent it ends: whatever is  *)
(* being placed, it is a guard.                                            *)
LEMMA PlacesGuards ==
  ASSUME Inv, stage \in {"place", "confirm"}
  PROVE  queue # {} /\ Foremost \in Ids /\ \E h \in Entries : Foremost = Guard(h)
<1>1. queue # {} /\ Foremost \in queue /\ Foremost \in Ids
  BY ForemostFacts DEF Inv, Rounds, Resizing
<1>2. Foremost[2] = "guard"
  BY <1>1 DEF Inv, Rounds
<1> QED BY <1>1, <1>2, IdFacts

LEMMA OwnedCycles ==
  ASSUME Inv, Owned, NEW g \in Groups,
         (\E qty : Send(g, qty)) \/ Submitted(g) \/ SubmitFails(g)
  PROVE  Owned'
<1>1. \A x \in Ids : x # Entry(g) => venue'[x] = venue[x] /\ mem'[x] = mem[x]
  BY DEF Send, Submitted, SubmitFails, venueVars, Inv, TypeOK
<1>2. \A h \in Entries : venue'[Guard(h)] = venue[Guard(h)] /\ mem'[Guard(h)] = mem[Guard(h)]
  BY <1>1, IdFacts
<1>3. UNCHANGED <<stray, stage, queue>>
  BY DEF Send, Submitted, SubmitFails, venueVars, pollVars
<1>4. queue # {} => Foremost' = Foremost
  <2>1. CASE UNCHANGED tracked
    BY <1>3, <2>1, SameRoutes
  <2>2. CASE Submitted(g)
    <3>1. ~Tracked(g) /\ tracked' = Append(tracked, g)
      BY <2>2 DEF Submitted, Inv, Entered
    <3> QED BY <1>3, <3>1, AppendRoutes DEF Inv, Rounds
  <2> QED BY <2>1, <2>2 DEF Send, SubmitFails
<1>5. stage \in {"place", "confirm"} => Foremost' = Foremost /\ venue'[Foremost] = venue[Foremost]
  BY <1>2, <1>4, PlacesGuards
<1>6. GuardsOwned'
  BY <1>2, <1>3, <1>5 DEF Owned, GuardsOwned
<1>7. Alone'
  BY <1>3, <1>5 DEF Owned, Alone
<1> QED BY <1>6, <1>7 DEF Owned

LEMMA OwnedNext == Inv /\ Owned /\ Answered /\ [Next]_vars => Owned'
<1> SUFFICES ASSUME Inv, Owned, Answered, [Next]_vars PROVE Owned'
  OBVIOUS
<1>1. ASSUME NEW g \in Groups, EntryFills(g) PROVE Owned'
  <2>1. PICK o : Moves(Entry(g), o)
    BY <1>1, EntryFillsMoves
  <2>2. Entry(g) \in Ids
    BY IdFacts
  <2>3. stage = "confirm" => Entry(g) # Foremost
    <3> SUFFICES ASSUME stage = "confirm" PROVE Entry(g) # Foremost
      OBVIOUS
    <3>1. Foremost \in queue
      BY ForemostFacts DEF Inv, Rounds, Resizing
    <3> QED BY <3>1, IdFacts DEF Inv, Rounds
  <2> QED BY <2>1, <2>2, <2>3, OwnedWorld
<1>2. ASSUME NEW g \in Entries, GuardFills(g) PROVE Owned'
  <2>1. PICK o : /\ Moves(Guard(g), o) /\ (poller = None \/ "race" \in Faults)
                 /\ (o.state = "filled" \/ "partial" \in Faults)
    BY <1>2, GuardFillsMoves
  <2>2. stage = "confirm" => ~IsOpen(o)
    BY <2>1 DEF Inv, Rounds, Answered, IsOpen
  <2> QED BY <2>1, <2>2, OwnedWorld, IdFacts
<1>3. ASSUME NEW g \in Entries, GuardWithdrawn(g) PROVE Owned'
  <2>1. Moves(Guard(g), Ended(venue[Guard(g)])) /\ ~IsOpen(Ended(venue[Guard(g)])) /\ Guard(g) \in Ids
    BY <1>3, GuardWithdrawnMoves, Orders, IdFacts, Sizeable DEF Inv
  <2> QED BY <2>1, OwnedWorld
<1>4. ASSUME NEW g \in Entries, Enter(g) PROVE Owned'
  BY <1>4, OwnedCycles, IdFacts DEF Enter
<1>5. CASE Sell
  <2>1. Send(Exit, ExitQty) /\ Exit \in Groups
    BY <1>5 DEF Sell, Groups
  <2> QED BY <2>1, OwnedCycles
<1>6. ASSUME NEW g \in Groups, Submitted(g) \/ SubmitFails(g) PROVE Owned'
  BY <1>6, OwnedCycles
<1>7. CASE \/ \E who \in {"sweep", "cycle"} : PollBegin(who)
           \/ SyncSettled \/ SyncOrder \/ SyncExpired \/ Expire \/ ComputeTargets \/ PollEnd
  BY <1>7, OwnedSync
<1>8. CASE SyncOversold \/ SyncFails \/ ExpireFails
  BY <1>8, OwnedRaises
<1>9. ASSUME NEW g \in Entries, MaintainStep(g) PROVE Owned'
  BY <1>9, OwnedTurns, OwnedPlacing, OwnedRaises DEF MaintainStep
<1>10. CASE UNCHANGED vars
  <2>1. UNCHANGED <<venue, stray, mem, tracked, queue, stage>>
    BY <1>10 DEF vars, venueVars, pollVars
  <2>2. Foremost' = Foremost
    BY <2>1, SameRoutes
  <2> QED BY <2>1, <2>2 DEF Owned, GuardsOwned, Alone
<1> QED BY <1>1, <1>2, <1>3, <1>4, <1>5, <1>6, <1>7, <1>8, <1>9, <1>10 DEF Next, PollStep

LEMMA OwnedInit == Init => Owned
BY IdFacts, Orders DEF Init, Owned, GuardsOwned, Alone

LEMMA OwnedHolds == ASSUME Answered PROVE Spec => []Owned
BY OwnedInit, OwnedNext, InvHolds, PTL DEF Spec

(* A guard that rests at the venue is one the monitor tracks as working,   *)
(* and the only one of its group, over any number of groups: as long as    *)
(* every query is answered, and no stop fills in part while a poll places  *)
(* it (ExecutionMonitor._polling, _maintain; the other faults all happen). *)
THEOREM NoLegForgotten ==
  ASSUME "query" \notin Faults, "race" \notin Faults \/ "partial" \notin Faults
  PROVE  Spec => []GuardsOwned
<1>1. Answered
  BY DEF Answered
<1>2. Owned => GuardsOwned
  BY DEF Owned
<1> QED BY <1>1, <1>2, OwnedHolds, PTL

----------------------------------------------------------------------------
(* NeverRearmed: while every query is answered, and no stop triggers while *)
(* a poll is under way.                                                    *)
Filled(order) == order.state = "filled"
Calm == "query" \notin Faults /\ "race" \notin Faults

(* Steps that place no guard: a guard seen as filled stays so, and one not *)
(* yet seen is still to be read.                                           *)
LEMMA NoticedSettles ==
  ASSUME Inv, Noticed, Ends, \A g \in Entries : Tracked(g)' => Tracked(g),
         \A g \in Entries : Tracked(g)' /\ Filled(mem[Guard(g)]) => Filled(mem'[Guard(g)]),
         \A g \in Entries :
           IsOpen(mem[Guard(g)]) /\ Unvisited(g) =>
             \/ Filled(mem'[Guard(g)]) \/ ~Filled(venue'[Guard(g)]) \/ ~Tracked(g)'
             \/ IsOpen(mem'[Guard(g)]) /\ Unvisited(g)'
  PROVE  Noticed'
<1>1. \A g \in Entries : Filled(venue'[Guard(g)]) => Filled(venue[Guard(g)])
  BY EndsFacts, IdFacts DEF Inv, Filled
<1>2. \A g \in Entries : Tracked(g) /\ Filled(venue[Guard(g)]) =>
        \/ Filled(mem[Guard(g)])
        \/ IsOpen(mem[Guard(g)]) /\ Unvisited(g)
  BY DEF Noticed, Filled
<1>3. \A g \in Entries : Tracked(g)' /\ Filled(venue'[Guard(g)]) =>
        \/ Filled(mem'[Guard(g)])
        \/ IsOpen(mem'[Guard(g)]) /\ Unvisited(g)'
  BY <1>1, <1>2
<1> QED BY <1>3 DEF Noticed, Filled

LEMMA NoticedRaises ==
  ASSUME Inv, Noticed, Raise, Ends, UNCHANGED mem
  PROVE  Noticed'
<1>1. stage' = "rest" /\ UNCHANGED tracked
  BY DEF Raise
<1> QED BY <1>1, SameRoutes, NoticedSettles DEF Unvisited

LEMMA NoticedSync ==
  ASSUME Inv, Noticed,
         \/ \E who \in {"sweep", "cycle"} : PollBegin(who)
         \/ SyncSettled \/ SyncOrder \/ SyncExpired \/ Expire \/ ComputeTargets \/ PollEnd
  PROVE  Noticed'
<1>1. ASSUME NEW who \in {"sweep", "cycle"}, PollBegin(who) PROVE Noticed'
  <2>1. /\ UNCHANGED <<venue, mem, tracked>> /\ stage' = "sync" /\ queue' = Polled /\ stage = "rest"
    BY <1>1 DEF PollBegin, LockFree, venueVars, Inv, Rounds
  <2>2. \A g \in Entries : Tracked(g) => Guard(g) \in Polled
    BY IdFacts DEF Polled
  <2> QED BY <2>1, <2>2, NoChangeEnds, SameRoutes, NoticedSettles DEF Inv, Unvisited
<1>2. CASE SyncSettled
  <2>1. /\ UNCHANGED <<venue, mem, tracked, stage>> /\ queue' = queue \ {Foremost}
        /\ ~IsOpen(mem[Foremost])
    BY <1>2 DEF SyncSettled, Done, venueVars
  <2> QED BY <2>1, NoChangeEnds, SameRoutes, NoticedSettles DEF Inv, Unvisited
<1>3. CASE SyncOrder \/ SyncExpired
  <2>1. /\ stage = "sync" /\ queue # {} /\ UNCHANGED <<venue, tracked>> /\ IsOpen(mem[Foremost])
        /\ mem' = [mem EXCEPT ![Foremost] = venue[Foremost]]
        /\ stage' \in {"sync", "expire"} /\ \A x \in queue : x # Foremost => x \in queue'
    BY <1>3 DEF SyncOrder, SyncExpired, Read, venueVars
  <2>2. Foremost \in Ids
    BY <2>1, ForemostFacts DEF Inv, Rounds
  <2>3. \A x \in Ids : mem'[x] = IF x = Foremost THEN venue'[x] ELSE mem[x]
    BY <2>1, <2>2 DEF Inv, TypeOK
  <2>4. \A g \in Entries : Filled(mem[Guard(g)]) => Filled(mem'[Guard(g)])
    BY <2>1, <2>3, IdFacts DEF Filled, IsOpen
  <2>5. \A g \in Entries :
          IsOpen(mem[Guard(g)]) /\ Unvisited(g) =>
            \/ Filled(mem'[Guard(g)]) \/ ~Filled(venue'[Guard(g)])
            \/ IsOpen(mem'[Guard(g)]) /\ Unvisited(g)'
    BY <2>1, <2>3, IdFacts DEF Unvisited
  <2> QED BY <2>1, <2>4, <2>5, NoChangeEnds, SameRoutes, NoticedSettles DEF Inv
<1>6. CASE Expire
  <2>1. /\ stage = "expire" /\ stage' = "sync" /\ queue' = queue \ {Foremost} /\ UNCHANGED tracked
        /\ Cancel(Foremost) /\ Foremost \in Ids /\ Foremost[2] = "order"
    BY <1>6, ForemostFacts DEF Expire, Inv, Rounds
  <2>2. Ends /\ \A x \in Ids : x # Foremost => mem'[x] = mem[x]
    BY <2>1, Cancels
  <2>3. \A g \in Entries : mem'[Guard(g)] = mem[Guard(g)] /\ Guard(g) # Foremost
    BY <2>1, <2>2, IdFacts
  <2> QED BY <2>1, <2>2, <2>3, SameRoutes, NoticedSettles DEF Unvisited
<1>4. CASE ComputeTargets
  <2>1. UNCHANGED <<venue, mem, tracked>> /\ stage = "sync" /\ queue = {}
    BY <1>4 DEF ComputeTargets, venueVars
  <2> QED BY <2>1, NoChangeEnds, SameRoutes, NoticedSettles DEF Inv, Unvisited
<1>5. CASE PollEnd
  <2>1. stage = "maintain" /\ UNCHANGED venue
    BY <1>5 DEF PollEnd, venueVars
  <2>2. Ends
    BY <2>1, NoChangeEnds DEF Inv
  <2>3. CASE poller = "cycle" /\ Settled(settling)
    <3>1. /\ tracked' = RemoveAt(tracked, Position(settling))
          /\ mem' = [id \in Ids |-> IF id[1] = settling THEN NoOrder ELSE mem[id]]
      BY <1>5, <2>3 DEF PollEnd, Prune
    <3>2. settling \in Entries /\ Tracked(settling)
      BY <2>3 DEF Inv, Rounds, TypeOK
    <3>3. \A h : Tracked(h)' <=> Tracked(h) /\ h # settling
      <4>1. PICK g : g = settling
        OBVIOUS
      <4> QED BY <3>1, <3>2, <4>1, RemoveRoutes, IdFacts DEF Inv
    <3>4. \A h \in Entries : h # settling => mem'[Guard(h)] = mem[Guard(h)]
      BY <3>1, IdFacts
    <3> QED BY <2>1, <2>2, <3>3, <3>4, NoticedSettles DEF Unvisited
  <2>4. CASE ~(poller = "cycle" /\ Settled(settling))
    <3>1. UNCHANGED <<tracked, mem>>
      BY <1>5, <2>4 DEF PollEnd
    <3> QED BY <2>1, <2>2, <3>1, SameRoutes, NoticedSettles DEF Unvisited
  <2> QED BY <2>3, <2>4
<1> QED BY <1>1, <1>2, <1>3, <1>4, <1>5, <1>6

LEMMA NoticedTurns ==
  ASSUME Inv, Noticed, NEW g \in Entries,
         \/ Leave(g) \/ CloseGroup(g) \/ Release(g) \/ RefuseTarget(g) \/ CancelForResize(g)
         \/ RejectSingle(g) \/ Confirm(g)
  PROVE  Noticed'
<1>1. /\ (\A h \in Entries : ~Unvisited(h)) /\ UNCHANGED tracked
      /\ Guard(g) \in Ids /\ Entry(g) \in Ids /\ \A h \in Entries : Guard(h) \in Ids /\ Guard(h) # Entry(g)
  BY IdFacts DEF Leave, CloseGroup, Release, RefuseTarget, CancelForResize, RejectSingle, Confirm,
                 Maintaining, Placing, Unvisited
<1>2. CASE Leave(g)
  <2>1. UNCHANGED <<venue, mem>>
    BY <1>2 DEF Leave, venueVars
  <2> QED BY <1>1, <2>1, NoChangeEnds, SameRoutes, NoticedSettles DEF Inv
<1>3. CASE CloseGroup(g)
  <2>1. Ends /\ \A x \in Ids : x # Entry(g) => mem'[x] = mem[x]
    BY <1>1, <1>3, Cancels DEF CloseGroup
  <2> QED BY <1>1, <2>1, SameRoutes, NoticedSettles
<1>4. CASE Release(g) \/ RefuseTarget(g) \/ CancelForResize(g)
  <2>1. /\ Ends /\ \A x \in Ids : x # Guard(g) => mem'[x] = mem[x]
        /\ mem'[Guard(g)].state = "filled" <=> mem[Guard(g)].state = "filled"
    BY <1>1, <1>4, Cancels DEF Release, RefuseTarget, CancelForResize
  <2>2. \A h \in Entries : Filled(mem[Guard(h)]) => Filled(mem'[Guard(h)])
    BY <1>1, <2>1 DEF Filled
  <2> QED BY <1>1, <2>1, <2>2, SameRoutes, NoticedSettles
<1>5. CASE RejectSingle(g) \/ Confirm(g)
  <2>1. /\ stage \in {"place", "confirm"} /\ Guard(g) = Foremost /\ UNCHANGED venue
        /\ \E o : mem' = [mem EXCEPT ![Guard(g)] = o]
    BY <1>5 DEF RejectSingle, Confirm, Placing, venueVars
  <2>2. ~Filled(mem[Guard(g)])
    BY <2>1 DEF Inv, Rounds, Resizing, Filled
  <2>3. \A x \in Ids : x # Guard(g) => mem'[x] = mem[x]
    BY <2>1 DEF Inv, TypeOK
  <2>4. \A h \in Entries : Filled(mem[Guard(h)]) => Filled(mem'[Guard(h)])
    BY <1>1, <2>2, <2>3
  <2> QED BY <1>1, <2>1, <2>4, NoChangeEnds, SameRoutes, NoticedSettles DEF Inv
<1> QED BY <1>2, <1>3, <1>4, <1>5

LEMMA NoticedPlaces ==
  ASSUME Inv, Noticed, NEW g \in Entries, PlaceGuard(g)
  PROVE  Noticed' /\ ~Filled(venue[Guard(g)])
<1>1. /\ stage = "place" /\ Guard(g) = Foremost /\ stage' = "confirm"
      /\ venue' = [venue EXCEPT ![Guard(g)] = Placed(targets[g])]
      /\ UNCHANGED <<mem, tracked, queue>>
  BY DEF PlaceGuard, Placing
<1>2. Tracked(g) /\ Guard(g) \in Ids /\ ~Filled(mem[Guard(g)])
  BY <1>1, ForemostGuard DEF Inv, Rounds, Resizing, Filled
<1>3. ~Filled(venue[Guard(g)])
  BY <1>1, <1>2 DEF Noticed, Filled, Unvisited
<1>4. /\ ~Filled(venue'[Guard(g)])
      /\ \A x \in Ids : x # Guard(g) => venue'[x] = venue[x]
  BY <1>1, <1>2 DEF Inv, TypeOK, Placed, Filled
<1>5. \A h \in Entries : Filled(venue'[Guard(h)]) => Filled(venue[Guard(h)])
  BY <1>4, IdFacts
<1>6. \A h \in Entries : Tracked(h) /\ Filled(venue[Guard(h)]) => Filled(mem[Guard(h)])
  BY <1>1 DEF Noticed, Filled, Unvisited
<1>7. \A h \in Entries : Tracked(h)' /\ Filled(venue'[Guard(h)]) => Filled(mem'[Guard(h)])
  BY <1>1, <1>5, <1>6, SameRoutes
<1> QED BY <1>3, <1>7 DEF Noticed, Filled

LEMMA NoticedWorld ==
  ASSUME Inv, Noticed, GuardsOwned, NEW id \in Ids, NEW o, Moves(id, o),
         id[2] = "guard" => ~Filled(o) \/ poller = None
  PROVE  Noticed'
<1>1. /\ venue' = [venue EXCEPT ![id] = o] /\ IsOpen(venue[id])
      /\ UNCHANGED <<mem, tracked, queue, stage>>
  BY DEF Moves, pollVars
<1>2. \A x \in Ids : venue'[x] = IF x = id THEN o ELSE venue[x]
  BY <1>1 DEF Inv, TypeOK
<1>3. ASSUME NEW g \in Entries, Tracked(g)', Filled(venue'[Guard(g)])
      PROVE  \/ Filled(mem'[Guard(g)])
             \/ IsOpen(mem'[Guard(g)]) /\ Unvisited(g)'
  <2>1. Tracked(g) /\ Guard(g) \in Ids /\ Guard(g)[2] = "guard"
    BY <1>1, <1>3, SameRoutes, IdFacts
  <2>2. CASE id = Guard(g)
    <3>1. stage = "rest"
      BY <1>2, <1>3, <2>1, <2>2 DEF Inv, Rounds
    <3>2. IsOpen(mem[Guard(g)])
      BY <1>1, <2>2, <3>1 DEF GuardsOwned
    <3> QED BY <1>1, <3>1, <3>2 DEF Unvisited
  <2>3. CASE id # Guard(g)
    BY <1>1, <1>2, <1>3, <2>1, <2>3 DEF Noticed, Filled, Unvisited
  <2> QED BY <2>2, <2>3
<1> QED BY <1>3 DEF Noticed, Filled

LEMMA NoticedCycles ==
  ASSUME Inv, Noticed, NEW g \in Groups,
         (\E qty : Send(g, qty)) \/ Submitted(g) \/ SubmitFails(g)
  PROVE  Noticed' /\ \A h \in Entries : venue'[Guard(h)] = venue[Guard(h)]
<1>1. \A x \in Ids : x # Entry(g) => venue'[x] = venue[x] /\ mem'[x] = mem[x]
  BY DEF Send, Submitted, SubmitFails, venueVars, Inv, TypeOK
<1>2. \A h \in Entries : venue'[Guard(h)] = venue[Guard(h)] /\ mem'[Guard(h)] = mem[Guard(h)]
  BY <1>1, IdFacts
<1>3. UNCHANGED <<stage, queue>>
  BY DEF Send, Submitted, SubmitFails, pollVars
<1>4. \A h \in Entries : Tracked(h)' => Tracked(h) \/ ~Filled(venue[Guard(h)])
  <2>1. CASE UNCHANGED tracked
    BY <2>1, SameRoutes
  <2>2. CASE Submitted(g)
    <3>1. /\ ~Tracked(g) /\ tracked' = Append(tracked, g)
          /\ g \in Entries => ~Filled(venue[Guard(g)])
      BY <2>2 DEF Submitted, Inv, Entered, Known, Filled
    <3> QED BY <3>1, AppendRoutes DEF Inv
  <2> QED BY <2>1, <2>2 DEF Send, SubmitFails
<1>5. Noticed'
  BY <1>2, <1>3, <1>4 DEF Noticed, Unvisited, Filled
<1> QED BY <1>2, <1>5

(* One step of what is proved: what is known stays known, and what has     *)
(* filled at the venue is not placed again.                                *)
Sticks == \A g \in Entries : Filled(venue[Guard(g)]) => Filled(venue'[Guard(g)])

LEMMA EndsStick == ASSUME Inv, Ends PROVE Sticks
BY EndsFacts, IdFacts DEF Inv, Sticks, Filled

LEMMA NoticedNext == Inv /\ GuardsOwned /\ Noticed /\ Calm /\ [Next]_vars => Noticed' /\ Sticks
<1> SUFFICES ASSUME Inv, GuardsOwned, Noticed, Calm, [Next]_vars PROVE Noticed' /\ Sticks
  OBVIOUS
<1>0. ASSUME NEW id \in Ids, NEW o, Moves(id, o) PROVE Sticks
  <2>1. ~Filled(venue[id]) /\ \A x \in Ids : x # id => venue'[x] = venue[x]
    BY <1>0 DEF Moves, IsOpen, Filled, Inv, TypeOK
  <2> QED BY <2>1, IdFacts DEF Sticks
<1>1. ASSUME NEW g \in Groups, EntryFills(g) PROVE Noticed' /\ Sticks
  <2>1. Entry(g) \in Ids /\ Entry(g)[2] # "guard"
    BY IdFacts
  <2> QED BY <1>0, <1>1, <2>1, EntryFillsMoves, NoticedWorld
<1>2. ASSUME NEW g \in Entries, GuardFills(g) PROVE Noticed' /\ Sticks
  <2>1. PICK o : Moves(Guard(g), o) /\ poller = None
    BY <1>2, GuardFillsMoves DEF Calm
  <2> QED BY <1>0, <2>1, NoticedWorld, IdFacts
<1>3. ASSUME NEW g \in Entries, GuardWithdrawn(g) PROVE Noticed' /\ Sticks
  <2>1. Moves(Guard(g), Ended(venue[Guard(g)])) /\ Guard(g) \in Ids
    BY <1>3, GuardWithdrawnMoves, IdFacts
  <2>2. ~Filled(Ended(venue[Guard(g)]))
    BY <1>3 DEF GuardWithdrawn, Ended, IsOpen, Filled
  <2> QED BY <1>0, <2>1, <2>2, NoticedWorld
<1>4. ASSUME NEW g \in Groups, (\E qty : Send(g, qty)) \/ Submitted(g) \/ SubmitFails(g)
      PROVE  Noticed' /\ Sticks
  BY <1>4, NoticedCycles DEF Sticks
<1>5. ASSUME NEW g \in Entries, Enter(g) PROVE Noticed' /\ Sticks
  <2>1. Send(g, EntryQty) /\ g \in Groups
    BY <1>5, IdFacts DEF Enter
  <2> QED BY <1>4, <2>1
<1>6. CASE Sell
  <2>1. Send(Exit, ExitQty) /\ Exit \in Groups
    BY <1>6 DEF Sell, Groups
  <2> QED BY <1>4, <2>1
<1>7. CASE \/ \E who \in {"sweep", "cycle"} : PollBegin(who)
           \/ SyncSettled \/ SyncOrder \/ SyncExpired \/ ComputeTargets \/ PollEnd
  <2>1. UNCHANGED venue
    BY <1>7 DEF PollBegin, SyncSettled, SyncOrder, SyncExpired, Read, ComputeTargets, PollEnd, venueVars
  <2> QED BY <1>7, <2>1, NoChangeEnds, EndsStick, NoticedSync DEF Inv
<1>8. CASE Expire
  <2>1. Cancel(Foremost) /\ Foremost \in Ids
    BY <1>8, ForemostFacts DEF Expire, Inv, Rounds
  <2> QED BY <1>8, <2>1, Cancels, EndsStick, NoticedSync
<1>9. CASE SyncOversold \/ SyncFails \/ ExpireFails
  BY <1>9, RaisesRaise, NoticedRaises, EndsStick
<1>10. ASSUME NEW g \in Entries, MaintainStep(g) PROVE Noticed' /\ Sticks
  <2>1. CASE \/ Leave(g) \/ CloseGroup(g) \/ Release(g) \/ RefuseTarget(g) \/ CancelForResize(g)
             \/ RejectSingle(g) \/ Confirm(g)
    <3>1. UNCHANGED venue \/ Cancel(Entry(g)) \/ Cancel(Guard(g))
      BY <2>1 DEF Leave, CloseGroup, Release, RefuseTarget, CancelForResize, RejectSingle, Confirm, venueVars
    <3>2. Ends
      BY <3>1, NoChangeEnds, Cancels, IdFacts DEF Inv
    <3> QED BY <2>1, <3>2, EndsStick, NoticedTurns
  <2>2. CASE CancelFails(g) \/ RejectLinked(g) \/ PlaceFails(g) \/ ConfirmFails(g)
    BY <2>2, RaisesRaise, NoticedRaises, EndsStick
  <2>3. CASE PlaceGuard(g)
    <3>1. Noticed' /\ ~Filled(venue[Guard(g)])
      BY <2>3, NoticedPlaces
    <3>2. \A x \in Ids : x # Guard(g) => venue'[x] = venue[x]
      BY <2>3 DEF PlaceGuard, Inv, TypeOK
    <3> QED BY <3>1, <3>2, IdFacts DEF Sticks
  <2> QED BY <1>10, <2>1, <2>2, <2>3 DEF MaintainStep
<1>11. CASE UNCHANGED vars
  <2>1. UNCHANGED <<venue, mem, tracked, queue, stage>>
    BY <1>11 DEF vars, venueVars, pollVars
  <2> QED BY <2>1, SameRoutes DEF Noticed, Sticks, Unvisited
<1> QED BY <1>1, <1>2, <1>3, <1>4, <1>5, <1>6, <1>7, <1>8, <1>9, <1>10, <1>11 DEF Next, PollStep

LEMMA NoticedInit == Init => Noticed
BY DEF Init, Noticed, Tracked

(* Once its guard has filled a group is never armed again, over any number *)
(* of groups: as long as every query is answered and no stop triggers      *)
(* while a poll is under way (ExecutionMonitor._close_group, _targets; an  *)
(* operator, a failing cancel or placing, a fill in parts all happen).     *)
THEOREM FilledForGood ==
  ASSUME "query" \notin Faults, "race" \notin Faults
  PROVE  Spec => NeverRearmed
<1>1. Calm /\ Answered
  BY DEF Calm, Answered
<1>2. Spec => []GuardsOwned
  BY NoLegForgotten
<1>3. Noticed' /\ Sticks => (\A g \in Entries :
        venue[Guard(g)].state = "filled" => venue'[Guard(g)].state = "filled")
  BY DEF Sticks, Filled
<1> QED BY <1>1, <1>2, <1>3, NoticedInit, NoticedNext, InvHolds, PTL DEF Spec, NeverRearmed
=============================================================================
