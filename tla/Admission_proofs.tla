--------------------------- MODULE Admission_proofs ---------------------------
(***************************************************************************)
(* Proofs about Admission.  What an admitted order of a cycle has read of  *)
(* the hour is one below the cap at most, and so the orders of the hour    *)
(* and the admitted ones together exceed it by the other baskets; what it  *)
(* has read of its basket's day nobody else can spend.                     *)
(*                                                                         *)
(* Exposures are sums over finite sets, functions defined by recursion,    *)
(* and so the proofs start with an induction, for a set, from the well-    *)
(* foundedness of the naturals.                                            *)
(***************************************************************************)
EXTENDS Admission, FiniteSetTheorems, TLAPS

LEMMA Induction ==
  ASSUME NEW T, 0 \in T, \A n \in Nat : n \in T => n + 1 \in T
  PROVE  \A n \in Nat : n \in T
<1>1. SUFFICES ASSUME Nat \ T # {} PROVE FALSE
  OBVIOUS
<1> DEFINE R == OpToRel(<, Nat)
<1>2. IsWellFoundedOn(R, Nat)
  BY NatLessThanWellFounded
<1>3. R = {pair \in Nat \X Nat : pair[1] < pair[2]}
  BY DEF OpToRel
<1> HIDE DEF R
<1>4. PICK n \in Nat \ T : \A m \in Nat \ T : ~ (<<m, n>> \in R)
  <2> DEFINE U == Nat \ T
  <2>1. U \subseteq Nat /\ U # {}
    BY <1>1
  <2> HIDE DEF U
  <2>2. \E x \in U : \A y \in U : ~ (<<y, x>> \in R)
    BY <1>2, <2>1, WFMin
  <2> QED BY <2>2 DEF U
<1>5. n # 0 /\ n - 1 \in Nat
  OBVIOUS
<1>6. <<n - 1, n>> \in R
  BY ONLY n \in Nat, <1>3, <1>5
<1>7. n - 1 \in T
  BY <1>4, <1>5, <1>6
<1> QED BY <1>5, <1>7

----------------------------------------------------------------------------
(* Sums.                                                                   *)

First(s) == CHOOSE x \in s : TRUE
IsFold(f, S, g) == g = [s \in SUBSET S |-> IF s = {} THEN 0 ELSE f[First(s)] + g[s \ {First(s)}]]

LEMMA Sizes ==
  ASSUME NEW S, IsFiniteSet(S), NEW s \in SUBSET S
  PROVE  /\ Cardinality(s) \in Nat
         /\ s # {} => /\ First(s) \in s /\ s \ {First(s)} \in SUBSET S
                      /\ Cardinality(s) >= 1 /\ Cardinality(s \ {First(s)}) = Cardinality(s) - 1
<1>1. IsFiniteSet(s) /\ Cardinality(s) \in Nat
  BY FS_Subset, FS_CardinalityType
<1>2. ASSUME s # {}
      PROVE  /\ First(s) \in s /\ s \ {First(s)} \in SUBSET S
             /\ Cardinality(s) >= 1 /\ Cardinality(s \ {First(s)}) = Cardinality(s) - 1
  <2>1. First(s) \in s
    BY <1>2 DEF First
  <2> DEFINE x == First(s)
  <2> HIDE DEF x
  <2>2. Cardinality(s \ {x}) = IF x \in s THEN Cardinality(s) - 1 ELSE Cardinality(s)
    BY ONLY <1>1, FS_RemoveElement
  <2>3. Cardinality(s) # 0
    BY <1>1, <1>2, FS_EmptySet
  <2> QED BY <1>1, <2>1, <2>2, <2>3 DEF x
<1> QED BY <1>1, <1>2

LEMMA FoldExists ==
  ASSUME NEW S, IsFiniteSet(S), NEW f, \A x \in S : f[x] \in Nat
  PROVE  \E g : IsFold(f, S, g)
<1> DEFINE Right(n) ==
             {g \in [SUBSET S -> Nat] : \A s \in SUBSET S : Cardinality(s) <= n =>
                g[s] = IF s = {} THEN 0 ELSE f[First(s)] + g[s \ {First(s)}]}
           T == {n \in Nat : Right(n) # {}}
<1>1. 0 \in T
  <2> DEFINE z == [s \in SUBSET S |-> 0]
  <2>1. ASSUME NEW s \in SUBSET S, Cardinality(s) <= 0 PROVE s = {}
    <3>1. s # {} => Cardinality(s) >= 1 /\ Cardinality(s) \in Nat
      BY Sizes
    <3> QED BY <2>1, <3>1
  <2>2. z \in [SUBSET S -> Nat] /\ \A s \in SUBSET S : z[s] = 0
    OBVIOUS
  <2> HIDE DEF z
  <2>3. z \in Right(0)
    BY <2>1, <2>2
  <2> HIDE DEF Right
  <2> QED BY <2>3
<1>2. ASSUME NEW n \in Nat, n \in T PROVE n + 1 \in T
  <2>1. PICK g : g \in Right(n)
    <3> HIDE DEF Right
    <3> QED BY <1>2
  <2> DEFINE h == [s \in SUBSET S |-> IF s = {} THEN 0 ELSE f[First(s)] + g[s \ {First(s)}]]
  <2>2. /\ g \in [SUBSET S -> Nat]
        /\ \A s \in SUBSET S : Cardinality(s) <= n => g[s] = h[s]
    BY <2>1
  <2>3. \A s \in SUBSET S : /\ h[s] = IF s = {} THEN 0 ELSE f[First(s)] + g[s \ {First(s)}]
                            /\ h[s] \in Nat
    <3> TAKE s \in SUBSET S
    <3>1. h[s] = IF s = {} THEN 0 ELSE f[First(s)] + g[s \ {First(s)}]
      OBVIOUS
    <3>2. s # {} => First(s) \in S /\ s \ {First(s)} \in SUBSET S
      BY Sizes
    <3> HIDE DEF h
    <3>3. s # {} => f[First(s)] \in Nat /\ g[s \ {First(s)}] \in Nat
      BY <2>2, <3>2
    <3> QED BY <3>1, <3>3
  <2>4. h \in [SUBSET S -> Nat]
    BY <2>3
  <2> HIDE DEF h
  <2>5. \A s \in SUBSET S : Cardinality(s) <= n + 1 =>
          h[s] = IF s = {} THEN 0 ELSE f[First(s)] + h[s \ {First(s)}]
    <3> TAKE s \in SUBSET S
    <3> HAVE Cardinality(s) <= n + 1
    <3>1. ASSUME s # {} PROVE h[s \ {First(s)}] = g[s \ {First(s)}]
      <4>1. /\ Cardinality(s) \in Nat /\ s \ {First(s)} \in SUBSET S
            /\ Cardinality(s \ {First(s)}) = Cardinality(s) - 1
        BY <3>1, Sizes
      <4>2. Cardinality(s \ {First(s)}) <= n
        BY <4>1
      <4> QED BY <2>2, <4>1, <4>2
    <3> QED BY <2>3, <3>1
  <2>6. h \in Right(n + 1)
    BY <2>4, <2>5
  <2> HIDE DEF Right
  <2> QED BY <2>6
<1>3. Cardinality(S) \in T
  <2>1. Cardinality(S) \in Nat
    BY FS_CardinalityType
  <2> HIDE DEF T
  <2> QED BY <1>1, <1>2, <2>1, Induction
<1>4. PICK g : g \in Right(Cardinality(S))
  <2> HIDE DEF Right
  <2> QED BY <1>3
<1>5. \A s \in SUBSET S : Cardinality(s) <= Cardinality(S)
  BY FS_Subset
<1>6. g = [s \in SUBSET S |-> IF s = {} THEN 0 ELSE f[First(s)] + g[s \ {First(s)}]]
  BY <1>4, <1>5
<1> QED BY <1>6 DEF IsFold

LEMMA SumIsFold ==
  ASSUME NEW S, IsFiniteSet(S), NEW f, \A x \in S : f[x] \in Nat
  PROVE  \E g : IsFold(f, S, g) /\ SumFunctionOnSet(f, S) = g[S]
<1> DEFINE g == CHOOSE g : IsFold(f, S, g)
<1>1. IsFold(f, S, g)
  BY FoldExists
<1>2. SumFunctionOnSet(f, S) = g[S]
  BY DEF SumFunctionOnSet, FoldFunctionOnSet, MapThenFoldSet, IsFold, First
<1> QED BY <1>1, <1>2

(* A summand that is q larger makes the sum q larger.                      *)
Larger(S, f, h, at, q) == \A x \in S : f[x] \in Nat /\ h[x] = f[x] + (IF x = at THEN q ELSE 0)

LEMMA FoldsDiffer ==
  ASSUME NEW S, IsFiniteSet(S), NEW f, NEW h, NEW at, NEW q \in Nat, Larger(S, f, h, at, q),
         NEW g, IsFold(f, S, g), NEW k, IsFold(h, S, k)
  PROVE  g[S] \in Nat /\ k[S] = g[S] + (IF at \in S THEN q ELSE 0)
<1> DEFINE T == {n \in Nat : \A s \in SUBSET S : Cardinality(s) = n =>
                    g[s] \in Nat /\ k[s] = g[s] + (IF at \in s THEN q ELSE 0)}
<1>0. \A s \in SUBSET S : /\ g[s] = IF s = {} THEN 0 ELSE f[First(s)] + g[s \ {First(s)}]
                          /\ k[s] = IF s = {} THEN 0 ELSE h[First(s)] + k[s \ {First(s)}]
  BY DEF IsFold
<1>1. 0 \in T
  <2>1. ASSUME NEW s \in SUBSET S, Cardinality(s) = 0 PROVE s = {}
    <3>1. s # {} => Cardinality(s) >= 1
      BY Sizes
    <3> QED BY <2>1, <3>1
  <2>2. g[{}] = 0 /\ k[{}] = 0
    BY <1>0
  <2> QED BY <2>1, <2>2
<1>2. ASSUME NEW n \in Nat, n \in T PROVE n + 1 \in T
  <2>1. ASSUME NEW s \in SUBSET S, Cardinality(s) = n + 1
        PROVE  g[s] \in Nat /\ k[s] = g[s] + (IF at \in s THEN q ELSE 0)
    <3>1. s # {}
      BY <2>1, FS_EmptySet
    <3> DEFINE x == First(s)
               r == s \ {x}
    <3>2. x \in s /\ x \in S /\ r \in SUBSET S /\ Cardinality(r) = n /\ (at \in r <=> at \in s /\ at # x)
      BY <2>1, <3>1, Sizes
    <3>3. g[s] = f[x] + g[r] /\ k[s] = h[x] + k[r]
      BY <1>0, <3>1
    <3> HIDE DEF x, r
    <3>4. g[r] \in Nat /\ k[r] = g[r] + (IF at \in r THEN q ELSE 0)
      BY <1>2, <3>2
    <3>5. f[x] \in Nat /\ h[x] = f[x] + (IF x = at THEN q ELSE 0)
      BY <3>2 DEF Larger
    <3> QED BY <3>2, <3>3, <3>4, <3>5
  <2> QED BY <2>1
<1> HIDE DEF T
<1>3. Cardinality(S) \in T
  BY FS_CardinalityType, <1>1, <1>2, Induction
<1> QED BY <1>3 DEF T

LEMMA SumGrows ==
  ASSUME NEW S, IsFiniteSet(S), NEW f, NEW h, NEW at, NEW q \in Nat, Larger(S, f, h, at, q)
  PROVE  SumFunctionOnSet(h, S) = SumFunctionOnSet(f, S) + (IF at \in S THEN q ELSE 0)
<1>1. ASSUME NEW x \in S PROVE f[x] \in Nat /\ h[x] \in Nat
  <2>1. f[x] \in Nat /\ h[x] = f[x] + (IF x = at THEN q ELSE 0)
    BY DEF Larger
  <2> QED BY <2>1
<1>2. PICK g : IsFold(f, S, g) /\ SumFunctionOnSet(f, S) = g[S]
  BY <1>1, SumIsFold
<1>3. PICK k : IsFold(h, S, k) /\ SumFunctionOnSet(h, S) = k[S]
  BY <1>1, SumIsFold
<1>4. k[S] = g[S] + (IF at \in S THEN q ELSE 0)
  BY <1>2, <1>3, FoldsDiffer
<1> QED BY <1>2, <1>3, <1>4

LEMMA SumIsNat ==
  ASSUME NEW S, IsFiniteSet(S), NEW f, \A x \in S : f[x] \in Nat
  PROVE  SumFunctionOnSet(f, S) \in Nat
<1>1. PICK g : IsFold(f, S, g) /\ SumFunctionOnSet(f, S) = g[S]
  BY SumIsFold
<1>2. Larger(S, f, f, S, 0)
  <2>1. \A x \in S : (IF x = S THEN 0 ELSE 0) = 0
    OBVIOUS
  <2> QED BY <2>1 DEF Larger
<1>3. g[S] \in Nat
  <2>1. 0 \in Nat
    OBVIOUS
  <2> QED BY <1>1, <1>2, <2>1, FoldsDiffer
<1> QED BY <1>1, <1>3

LEMMA SumOfFew ==
  ASSUME NEW f
  PROVE  /\ SumFunctionOnSet(f, {}) = 0
         /\ \A x : f[x] \in Nat => SumFunctionOnSet(f, {x}) = f[x]
<1>1. SumFunctionOnSet(f, {}) = 0
  <2>1. IsFiniteSet({}) /\ \A x \in {} : f[x] \in Nat
    BY FS_EmptySet
  <2>2. PICK g : IsFold(f, {}, g) /\ SumFunctionOnSet(f, {}) = g[{}]
    BY <2>1, SumIsFold
  <2>3. {} \in SUBSET {}
    OBVIOUS
  <2> HIDE DEF First
  <2>4. g[{}] = 0
    BY <2>2, <2>3 DEF IsFold
  <2> QED BY <2>2, <2>4
<1>2. ASSUME NEW x, f[x] \in Nat PROVE SumFunctionOnSet(f, {x}) = f[x]
  <2>1. IsFiniteSet({x}) /\ \A y \in {x} : f[y] \in Nat
    BY <1>2, FS_Singleton
  <2>2. PICK g : IsFold(f, {x}, g) /\ SumFunctionOnSet(f, {x}) = g[{x}]
    BY <2>1, SumIsFold
  <2>3. First({x}) = x /\ {x} \ {x} = {} /\ {x} # {} /\ {} \in SUBSET {x} /\ {x} \in SUBSET {x}
    BY DEF First
  <2>4. /\ g[{}] = 0
        /\ g[{x}] = f[First({x})] + g[{x} \ {First({x})}]
    BY <2>2, <2>3 DEF IsFold
  <2>5. g[{x}] = f[x] + 0
    BY <2>3, <2>4
  <2> QED BY <1>2, <2>2, <2>5
<1> QED BY <1>1, <1>2

----------------------------------------------------------------------------
(* The portfolio.                                                          *)

LEMMA Finite ==
  /\ IsFiniteSet(Actors) /\ IsFiniteSet(Instruments)
  /\ \A S \in SUBSET Instruments : IsFiniteSet(S)
  /\ \A S \in SUBSET Actors : IsFiniteSet(S) /\ Cardinality(S) \in Nat
<1>1. IsFiniteSet(Actors)
  BY ListedAssumption, FS_Union DEF Actors
<1>2. IsFiniteSet(Instruments)
  <2> DEFINE lists == {Listed[b] : b \in Baskets}
             f == [b \in Baskets |-> Listed[b]]
  <2>1. f \in [Baskets -> lists] /\ \A t \in lists : \E b \in Baskets : f[b] = t
    OBVIOUS
  <2>2. f \in Surjection(Baskets, lists)
    <3> HIDE DEF f, lists
    <3> QED BY <2>1 DEF Surjection
  <2>3. IsFiniteSet(lists)
    <3> HIDE DEF f, lists
    <3> QED BY <2>2, ListedAssumption, FS_Surjection
  <2>4. \A t \in lists : IsFiniteSet(t)
    BY ListedAssumption
  <2> HIDE DEF lists
  <2>5. IsFiniteSet(UNION lists)
    BY <2>3, <2>4, FS_UNION
  <2> QED BY <2>5 DEF lists, Instruments
<1> QED BY <1>1, <1>2, FS_Subset, FS_CardinalityType

(* An instrument belongs to one basket.                                    *)
LEMMA OneBasket ==
  /\ \A i \in Instruments : BasketOf(i) \in Baskets /\ i \in Listed[BasketOf(i)]
  /\ \A b \in Baskets : Listed[b] \subseteq Instruments /\ \A i \in Listed[b] : BasketOf(i) = b
<1>1. \A i \in Instruments : \E b \in Baskets : i \in Listed[b]
  BY DEF Instruments
<1>2. \A b \in Baskets : Listed[b] \subseteq Instruments
  BY DEF Instruments
<1>3. \A i \in Instruments : BasketOf(i) \in Baskets /\ i \in Listed[BasketOf(i)]
  BY <1>1 DEF BasketOf
<1>4. ASSUME NEW b \in Baskets, NEW i \in Listed[b] PROVE BasketOf(i) = b
  <2>1. BasketOf(i) \in Baskets /\ i \in Listed[BasketOf(i)]
    BY <1>2, <1>3
  <2> QED BY <2>1, ListedAssumption
<1> QED BY <1>2, <1>3, <1>4

LEMMA ExposureIsNat ==
  ASSUME TypeOK, NEW S \in SUBSET Instruments
  PROVE  Exposure(S) \in Nat
<1>1. \A x \in S : held[x] \in Nat
  BY DEF TypeOK
<1> QED BY <1>1, Finite, SumIsNat DEF Exposure

HasLeast(S) == S \subseteq Int /\ \E x \in S : \A y \in S : x <= y

LEMMA LeastOfMore ==
  ASSUME NEW S, HasLeast(S), NEW x \in Int
  PROVE  HasLeast({x} \cup S)
<1>1. PICK least \in S : S \subseteq Int /\ \A y \in S : least <= y
  BY DEF HasLeast
<1>2. CASE x <= least
  <2>1. \A y \in S : x <= y
    BY <1>1, <1>2
  <2> QED BY <1>1, <2>1 DEF HasLeast
<1>3. CASE ~(x <= least)
  BY <1>1, <1>3 DEF HasLeast
<1> QED BY <1>2, <1>3

LEMMA MinIsLeast ==
  ASSUME NEW S, HasLeast(S)
  PROVE  Min(S) \in S /\ Min(S) \in Int /\ \A y \in S : Min(S) <= y
BY DEF HasLeast, Min

LEMMA LeastOfTwo ==
  ASSUME NEW x \in Int, NEW y \in Int
  PROVE  Min({x, y}) = (IF x <= y THEN x ELSE y) /\ Max({x, y}) = (IF x >= y THEN x ELSE y)
BY DEF Min, Max

----------------------------------------------------------------------------
(* What an admission has read.                                             *)

LEMMA ProposalRead ==
  ASSUME NEW i \in Instruments, NEW side \in Sides, NEW want, NEW position, NEW byHand,
         NEW p, p = Proposal(i, side, want, position, byHand)
  PROVE  /\ p.inst = i /\ p.side = side /\ p.want = want /\ p.position = position
         /\ p.byHand = byHand
         /\ p.basket = Exposure(Listed[BasketOf(i)]) /\ p.gross = Exposure(Instruments)
         /\ p.cluster = Exposure(InBucket(i))
         /\ p.placedToday = day[BasketOf(i)].cycle + day[BasketOf(i)].hand
         /\ p.placedInHour = hour.cycle + hour.hand
BY DEF Proposal, Gross

(* A size is within what was wanted and every cap.                         *)
LEMMA SizeWithin ==
  ASSUME TypeOK, NEW i \in Instruments, NEW side \in Sides, NEW want \in Nat, NEW position \in Nat,
         NEW byHand, NEW p, p = Proposal(i, side, want, position, byHand)
  PROVE  /\ Size(p) \in Int /\ Size(p) <= want
         /\ side = "sell" => /\ Size(p) <= position
                             /\ Size(p) = want \/ Size(p) = position \/ Size(p) = Ceiling.order
         /\ side = "buy" =>
              /\ position + Size(p) <= Ceiling.position /\ position + Size(p) <= Ceiling.instrument
              /\ Exposure(Listed[BasketOf(i)]) + Size(p) <= Ceiling.basket
              /\ Exposure(Instruments) + Size(p) <= Ceiling.gross
              /\ Exposure(InBucket(i)) + Size(p) <= Ceiling.cluster
<1> DEFINE basket == Exposure(Listed[BasketOf(i)])
           gross == Exposure(Instruments)
           cluster == Exposure(InBucket(i))
<1>1. basket \in Nat /\ gross \in Nat /\ cluster \in Nat
  BY OneBasket, ExposureIsNat DEF InBucket
<1>2. /\ Ceiling.position \in Nat /\ Ceiling.basket \in Nat /\ Ceiling.order \in Nat
      /\ Ceiling.gross \in Nat /\ Ceiling.instrument \in Nat /\ Ceiling.cluster \in Nat
  BY LimitsAssumption
<1>3. /\ p.side = side /\ p.want = want /\ p.position = position
      /\ p.basket = basket /\ p.gross = gross /\ p.cluster = cluster
  BY ProposalRead
<1> HIDE DEF basket, gross, cluster
<1>w. HasLeast({want})
  BY DEF HasLeast
<1>4. CASE side = "sell"
  <2>1. Caps(p) = {position, Ceiling.order}
    BY <1>3, <1>4 DEF Caps
  <2>2. HasLeast({position} \cup ({Ceiling.order} \cup {want}))
    <3>1. HasLeast({Ceiling.order} \cup {want})
      BY <1>2, <1>w, LeastOfMore
    <3> QED BY <3>1, LeastOfMore
  <2>3. {position} \cup ({Ceiling.order} \cup {want}) = {want} \cup {position, Ceiling.order}
    OBVIOUS
  <2>4. HasLeast({want} \cup {position, Ceiling.order})
    BY <2>2, <2>3
  <2> DEFINE all == {want} \cup {position, Ceiling.order}
  <2>5. Size(p) = Min(all)
    BY <1>3, <2>1 DEF Size
  <2> HIDE DEF all
  <2>6. Size(p) \in all /\ Size(p) \in Int /\ \A y \in all : Size(p) <= y
    BY <2>4, <2>5, MinIsLeast DEF all
  <2> QED BY <1>4, <2>6 DEF all
<1>5. CASE side = "buy"
  <2> DEFINE caps == {Ceiling.position - position, Ceiling.basket - basket, Ceiling.order,
                      Ceiling.gross - gross, Ceiling.instrument - position,
                      Ceiling.cluster - cluster}
  <2>1. Caps(p) = caps
    BY <1>3, <1>5 DEF Caps
  <2>2. HasLeast({want} \cup caps)
    <3>1. HasLeast({Ceiling.cluster - cluster} \cup {want})
      BY <1>1, <1>2, <1>w, LeastOfMore
    <3>2. HasLeast({Ceiling.instrument - position} \cup ({Ceiling.cluster - cluster} \cup {want}))
      BY <1>1, <1>2, <3>1, LeastOfMore
    <3>3. HasLeast({Ceiling.gross - gross} \cup ({Ceiling.instrument - position}
                     \cup ({Ceiling.cluster - cluster} \cup {want})))
      BY <1>1, <1>2, <3>2, LeastOfMore
    <3>4. HasLeast({Ceiling.order} \cup ({Ceiling.gross - gross} \cup ({Ceiling.instrument - position}
                     \cup ({Ceiling.cluster - cluster} \cup {want}))))
      BY <1>1, <1>2, <3>3, LeastOfMore
    <3>5. HasLeast({Ceiling.basket - basket} \cup ({Ceiling.order} \cup ({Ceiling.gross - gross}
                     \cup ({Ceiling.instrument - position}
                     \cup ({Ceiling.cluster - cluster} \cup {want})))))
      BY <1>1, <1>2, <3>4, LeastOfMore
    <3>6. HasLeast({Ceiling.position - position} \cup ({Ceiling.basket - basket} \cup ({Ceiling.order}
                     \cup ({Ceiling.gross - gross} \cup ({Ceiling.instrument - position}
                     \cup ({Ceiling.cluster - cluster} \cup {want}))))))
      BY <1>1, <1>2, <3>5, LeastOfMore
    <3>7. ({Ceiling.position - position} \cup ({Ceiling.basket - basket} \cup ({Ceiling.order}
                     \cup ({Ceiling.gross - gross} \cup ({Ceiling.instrument - position}
                     \cup ({Ceiling.cluster - cluster} \cup {want})))))) = {want} \cup caps
      OBVIOUS
    <3> HIDE DEF caps
    <3> QED BY <3>6, <3>7
  <2> DEFINE all == {want} \cup caps
  <2>5. Size(p) = Min(all)
    BY <1>3, <2>1 DEF Size
  <2> HIDE DEF all
  <2>6. Size(p) \in Int /\ \A y \in all : Size(p) <= y
    <3>1. HasLeast(all)
      <4> HIDE DEF caps
      <4> QED BY <2>2 DEF all
    <3> QED BY ONLY <2>5, <3>1, MinIsLeast
  <2>7. /\ Size(p) <= want
        /\ Size(p) <= Ceiling.position - position /\ Size(p) <= Ceiling.basket - basket
        /\ Size(p) <= Ceiling.gross - gross /\ Size(p) <= Ceiling.instrument - position
        /\ Size(p) <= Ceiling.cluster - cluster
    <3>1. /\ want \in all /\ Ceiling.position - position \in all /\ Ceiling.basket - basket \in all
          /\ Ceiling.gross - gross \in all /\ Ceiling.instrument - position \in all
          /\ Ceiling.cluster - cluster \in all
      BY DEF all
    <3> QED BY <2>6, <3>1
  <2>8. Size(p) \in Int
    BY <2>6
  <2> HIDE DEF caps
  <2>9. /\ position + Size(p) <= Ceiling.position /\ position + Size(p) <= Ceiling.instrument
        /\ basket + Size(p) <= Ceiling.basket
        /\ gross + Size(p) <= Ceiling.gross
        /\ cluster + Size(p) <= Ceiling.cluster
    BY <1>1, <1>2, <2>7, <2>8
  <2> QED BY <1>5, <2>7, <2>8, <2>9 DEF basket, gross, cluster
<1> QED BY <1>4, <1>5 DEF Sides

----------------------------------------------------------------------------
(* The invariant.                                                          *)

Under(S) == {a \in S : stage[a] = "admitted"}

(* Whoever has an order in hand has one of an instrument it may trade.     *)
Named ==
  /\ \A a \in Actors : stage[a] \in {"quoting", "admitted", "sending"} => order[a].inst \in Instruments
  /\ \A b \in Baskets : left[b] \subseteq Listed[b] /\ (Busy(b) => order[b].inst \in Listed[b])

(* What is admitted and not recorded has its place in the hour and in the  *)
(* day already.                                                            *)
Metered ==
  /\ hour.cycle + Cardinality(Under(Baskets)) <= MaxPerHour + Cardinality(Baskets) - 1
  /\ \A b \in Baskets : /\ day[b].cycle <= MaxPerDay
                        /\ stage[b] = "admitted" => day[b].cycle < MaxPerDay

(* The bound of the model: an admitted order has its place among them.     *)
Room == placed + Cardinality(Under(Actors)) <= MaxPlaced

Inv == TypeOK /\ Named /\ Metered /\ Room

LEMMA UnderSizes ==
  /\ IsFiniteSet(Under(Baskets)) /\ Cardinality(Under(Baskets)) \in Nat
  /\ Cardinality(Under(Baskets)) <= Cardinality(Baskets) /\ Cardinality(Baskets) \in Nat
  /\ Cardinality(Baskets) >= 1
  /\ IsFiniteSet(Under(Actors)) /\ Cardinality(Under(Actors)) \in Nat
<1>1. Under(Baskets) \in SUBSET Baskets /\ Under(Actors) \in SUBSET Actors
  BY DEF Under
<1>2. IsFiniteSet(Baskets) /\ Baskets # {}
  BY ListedAssumption
<1>3. Cardinality(Baskets) \in Nat /\ Cardinality(Baskets) # 0
  BY <1>2, FS_EmptySet, FS_CardinalityType
<1> QED BY <1>1, <1>2, <1>3, Finite, FS_Subset, FS_CardinalityType

LEMMA Typed ==
  ASSUME TypeOK
  PROVE  /\ hour.cycle \in Nat /\ hour.hand \in Nat
         /\ \A b \in Baskets : day[b].cycle \in Nat /\ day[b].hand \in Nat
         /\ \A a \in Actors : order[a].qty \in Nat /\ order[a].side \in Sides
         /\ \A i \in Instruments : held[i] \in Nat /\ since[i] \in -1..Cooldown
         /\ \A i \in Instruments, side \in Sides : rest[i][side] \in Nat
         /\ placed \in 0..MaxPlaced
BY DEF TypeOK

(* A step that admits nobody and counts nothing more.                      *)
LEMMA Calm ==
  ASSUME Inv, TypeOK', Named', UNCHANGED placed, hour'.cycle <= hour.cycle,
         \A b \in Baskets : day'[b].cycle <= day[b].cycle,
         \A a \in Actors : stage'[a] = "admitted" => stage[a] = "admitted"
  PROVE  Inv'
<1>1. Under(Baskets)' \in SUBSET Under(Baskets) /\ Under(Actors)' \in SUBSET Under(Actors)
  BY DEF Under, Actors
<1>2. /\ Cardinality(Under(Baskets)') <= Cardinality(Under(Baskets))
      /\ Cardinality(Under(Actors)') <= Cardinality(Under(Actors))
  BY <1>1, UnderSizes, FS_Subset
<1>3. /\ Cardinality(Under(Baskets)) \in Nat /\ Cardinality(Under(Baskets)') \in Nat
      /\ Cardinality(Under(Actors)) \in Nat /\ Cardinality(Under(Actors)') \in Nat
      /\ Cardinality(Baskets) \in Nat
  <2>1. IsFiniteSet(Under(Baskets)') /\ IsFiniteSet(Under(Actors)')
    BY <1>1, UnderSizes, FS_Subset
  <2> QED BY <2>1, UnderSizes, FS_CardinalityType
<1>4. /\ hour.cycle \in Nat /\ hour'.cycle \in Nat /\ placed \in Nat /\ MaxPerHour \in Nat
      /\ MaxPlaced \in Nat /\ MaxPerDay \in Nat
      /\ \A b \in Baskets : day[b].cycle \in Nat /\ day'[b].cycle \in Nat
  BY LimitsAssumption DEF Inv, TypeOK
<1>5. Room'
  <2>1. placed + Cardinality(Under(Actors)) <= MaxPlaced
    BY DEF Inv, Room
  <2> QED BY <1>2, <1>3, <1>4, <2>1 DEF Room
<1>6. hour'.cycle + Cardinality(Under(Baskets)') <= MaxPerHour + Cardinality(Baskets) - 1
  <2>1. hour.cycle + Cardinality(Under(Baskets)) <= MaxPerHour + Cardinality(Baskets) - 1
    BY DEF Inv, Metered
  <2> QED BY <1>2, <1>3, <1>4, <2>1
<1>7. ASSUME NEW b \in Baskets
      PROVE  day'[b].cycle <= MaxPerDay /\ (stage'[b] = "admitted" => day'[b].cycle < MaxPerDay)
  <2>1. day[b].cycle <= MaxPerDay /\ (stage[b] = "admitted" => day[b].cycle < MaxPerDay)
    BY DEF Inv, Metered
  <2>2. stage'[b] = "admitted" => stage[b] = "admitted"
    BY DEF Actors
  <2> QED BY <1>4, <2>1, <2>2
<1> QED BY <1>5, <1>6, <1>7 DEF Inv, Metered

(* A step of one actor.                                                    *)
LEMMA NamedStep ==
  ASSUME Named, NEW a \in Actors,
         \A c \in Actors \ {a} : stage'[c] = stage[c] /\ order'[c] = order[c],
         \A b \in Baskets : left'[b] \subseteq Listed[b],
         stage'[a] \in {"quoting", "admitted", "sending"} => order'[a].inst \in Instruments,
         a \in Baskets /\ stage'[a] \in {"admitted", "sending"} => order'[a].inst \in Listed[a]
  PROVE  Named'
<1>1. ASSUME NEW c \in Actors, stage'[c] \in {"quoting", "admitted", "sending"}
      PROVE  order'[c].inst \in Instruments
  BY <1>1 DEF Named
<1>2. ASSUME NEW b \in Baskets, stage'[b] \in {"admitted", "sending"}
      PROVE  order'[b].inst \in Listed[b]
  <2>1. b \in Actors
    BY DEF Actors
  <2> QED BY <1>2, <2>1 DEF Named, Busy
<1> QED BY <1>1, <1>2 DEF Named, Busy

LEMMA NoOrderTyped ==
  NoOrder \in [inst : Instruments \cup {None}, side : Sides, qty : Nat]
BY DEF NoOrder, Sides

LEMMA SinceTyped ==
  ASSUME TypeOK
  PROVE  /\ \A b \in Baskets : Completed(b) \in [Instruments -> -1..Cooldown]
         /\ \A gone : Abandoned(gone) \in [Instruments -> -1..Cooldown]
<1>1. \A i \in Instruments : since[i] \in -1..Cooldown
  BY DEF TypeOK
<1>2. ASSUME NEW i \in Instruments
      PROVE  Min({since[i] + 1, Cooldown}) \in -1..Cooldown /\ Max({since[i], 0}) \in -1..Cooldown
  <2>0. since[i] \in -1..Cooldown /\ Cooldown \in Nat
    BY <1>1, LimitsAssumption
  <2>1. since[i] >= -1 /\ since[i] <= Cooldown /\ since[i] \in Int /\ since[i] + 1 \in Int /\ Cooldown \in Nat
    BY ONLY <2>0
  <2>2. /\ Min({since[i] + 1, Cooldown}) = IF since[i] + 1 <= Cooldown THEN since[i] + 1 ELSE Cooldown
        /\ Max({since[i], 0}) = IF since[i] >= 0 THEN since[i] ELSE 0
    <3> DEFINE n == since[i]
               m == n + 1
    <3>1. n \in Int /\ m \in Int /\ Cooldown \in Int /\ 0 \in Int
      BY <2>1
    <3> HIDE DEF n, m
    <3>2. Min({m, Cooldown}) = IF m <= Cooldown THEN m ELSE Cooldown
      BY <3>1, LeastOfTwo
    <3>3. Max({n, 0}) = IF n >= 0 THEN n ELSE 0
      BY <3>1, LeastOfTwo
    <3> QED BY <3>2, <3>3 DEF m, n
  <2>3. Min({since[i] + 1, Cooldown}) \in -1..Cooldown
    BY ONLY <2>1, <2>2
  <2>4. Max({since[i], 0}) \in -1..Cooldown
    BY ONLY <2>1, <2>2
  <2> QED BY <2>3, <2>4
<1> QED BY <1>1, <1>2 DEF Completed, Abandoned

LEMMA RestsTyped ==
  ASSUME TypeOK, NEW a \in Actors
  PROVE  Rests(a) \in [Instruments -> [Sides -> Nat]]
<1> DEFINE i == order[a].inst
           side == order[a].side
           q == order[a].qty
<1>1. side \in Sides /\ q \in Nat /\ rest \in [Instruments -> [Sides -> Nat]]
  BY DEF TypeOK
<1>2. Rests(a) = [rest EXCEPT ![i][side] = @ + q]
  BY DEF Rests
<1> HIDE DEF i, side, q
<1>3. CASE i \in Instruments
  <2>1. rest[i] \in [Sides -> Nat] /\ rest[i][side] + q \in Nat
    BY <1>1, <1>3
  <2>2. [rest[i] EXCEPT ![side] = @ + q] \in [Sides -> Nat]
    BY <1>1, <2>1
  <2> QED BY <1>1, <1>2, <2>2
<1>4. CASE i \notin Instruments
  BY <1>1, <1>2, <1>4
<1> QED BY <1>3, <1>4

(* The cycle of a basket, but for its admissions.                          *)
LEMMA CycleKeeps ==
  ASSUME Inv, NEW b \in Baskets,
         Start(b) \/ Decline(b) \/ AutoPause(b) \/ Finish(b) \/ FailClosed(b) \/ Resume(b)
  PROVE  Inv'
<1>1. b \in Actors /\ Listed[b] \subseteq Instruments /\ TypeOK /\ Named
  BY OneBasket DEF Inv, Actors
<1>2. /\ left' \in [Baskets -> SUBSET Instruments]
      /\ \A c \in Baskets : left'[c] \subseteq Listed[c]
  <2>1. left \in [Baskets -> SUBSET Instruments] /\ \A c \in Baskets : left[c] \subseteq Listed[c]
    BY <1>1 DEF TypeOK, Named
  <2>2. UNCHANGED left \/ \E S \in SUBSET Listed[b] : left' = [left EXCEPT ![b] = S]
    <3>1. CASE Start(b) \/ Finish(b) \/ Resume(b)
      BY <3>1 DEF Start, Finish, Resume, actors
    <3>2. CASE Decline(b) \/ AutoPause(b)
      BY <2>1, <3>2 DEF Decline, AutoPause
    <3>3. CASE FailClosed(b)
      BY <3>3 DEF FailClosed, Dropped
    <3> QED BY <3>1, <3>2, <3>3
  <2> QED BY <1>1, <2>1, <2>2
<1>3. /\ stage' \in [Actors -> Stages] /\ \A c \in Actors \ {b} : stage'[c] = stage[c]
      /\ stage'[b] = stage[b] \/ stage'[b] \in {"idle", "deciding"}
  BY <1>1 DEF TypeOK, Stages, Start, Decline, AutoPause, Finish, FailClosed, Resume, actors
<1>4. /\ order' \in [Actors -> [inst : Instruments \cup {None}, side : Sides, qty : Nat]]
      /\ \A c \in Actors \ {b} : order'[c] = order[c]
      /\ order'[b] = order[b] \/ stage'[b] = "idle"
  BY <1>1, NoOrderTyped DEF TypeOK, Start, Decline, AutoPause, Finish, FailClosed, Resume, actors
<1>5. since' \in [Instruments -> -1..Cooldown]
  <2>1. UNCHANGED since \/ since' = Completed(b)
    BY DEF Start, Decline, AutoPause, Finish, FailClosed, Resume, meters
  <2> QED BY <1>1, <2>1, SinceTyped DEF TypeOK
<1>6. rest' \in [Instruments -> [Sides -> Nat]]
  <2>1. UNCHANGED rest \/ rest' = Rests(b)
    BY DEF Start, Decline, AutoPause, Finish, FailClosed, Resume
  <2> QED BY <1>1, <2>1, RestsTyped DEF TypeOK
<1>7. halted' \subseteq Baskets
  BY <1>1 DEF TypeOK, Start, Decline, AutoPause, Finish, FailClosed, Resume
<1>8. UNCHANGED <<held, hour, day, losses, placed>>
  BY DEF Start, Decline, AutoPause, Finish, FailClosed, Resume, meters
<1>9. TypeOK'
  BY <1>1, <1>2, <1>3, <1>4, <1>5, <1>6, <1>7, <1>8 DEF TypeOK
<1>10. Named'
  BY <1>1, <1>2, <1>3, <1>4, NamedStep DEF Named, Busy
<1>11. hour'.cycle <= hour.cycle /\ \A c \in Baskets : day'[c].cycle <= day[c].cycle
  BY <1>1, <1>8, Typed
<1>12. \A a \in Actors : stage'[a] = "admitted" => stage[a] = "admitted"
  BY <1>3
<1> QED BY <1>8, <1>9, <1>10, <1>11, <1>12, Calm

(* A request, but for its admission.                                       *)
LEMMA CloseKeeps ==
  ASSUME Inv, NEW c \in Closers, Request(c) \/ VetoClose(c) \/ Unpriced(c)
  PROVE  Inv'
<1>1. c \in Actors /\ c \notin Baskets /\ TypeOK /\ Named
  BY ListedAssumption DEF Inv, Actors
<1>2. UNCHANGED <<held, rest, meters, losses, halted, left, placed>>
  BY DEF Request, VetoClose, Unpriced
<1>3. /\ stage' \in [Actors -> Stages] /\ \A a \in Actors \ {c} : stage'[a] = stage[a]
      /\ stage'[c] \in {"idle", "quoting"}
  BY <1>1 DEF TypeOK, Stages, Request, VetoClose, Unpriced
<1>4. /\ order' \in [Actors -> [inst : Instruments \cup {None}, side : Sides, qty : Nat]]
      /\ \A a \in Actors \ {c} : order'[a] = order[a]
      /\ stage'[c] = "quoting" => order'[c].inst \in Instruments
  <2>1. CASE Request(c)
    <3>1. PICK i \in Instruments :
            order' = [order EXCEPT ![c] = [inst |-> i, side |-> "sell", qty |-> held[i]]]
      BY <2>1 DEF Request
    <3>2. [inst |-> i, side |-> "sell", qty |-> held[i]]
             \in [inst : Instruments \cup {None}, side : Sides, qty : Nat]
      BY <1>1 DEF TypeOK, Sides
    <3> QED BY <1>1, <3>1, <3>2 DEF TypeOK
  <2>2. CASE VetoClose(c) \/ Unpriced(c)
    <3>1. order' = [order EXCEPT ![c] = NoOrder] /\ stage' = [stage EXCEPT ![c] = "idle"]
      BY <2>2 DEF VetoClose, Unpriced
    <3>2. /\ order \in [Actors -> [inst : Instruments \cup {None}, side : Sides, qty : Nat]]
          /\ stage \in [Actors -> Stages]
      BY <1>1 DEF TypeOK
    <3>3. stage'[c] = "idle"
      BY <1>1, <3>1, <3>2
    <3> QED BY <1>1, <3>1, <3>2, <3>3, NoOrderTyped
  <2> QED BY <2>1, <2>2
<1>5. TypeOK'
  BY <1>1, <1>2, <1>3, <1>4 DEF TypeOK, meters
<1>6. Named'
  <2>1. \A b \in Baskets : left'[b] \subseteq Listed[b]
    BY <1>1, <1>2 DEF Named
  <2> QED BY <1>1, <1>3, <1>4, <2>1, NamedStep
<1>7. hour'.cycle <= hour.cycle /\ \A b \in Baskets : day'[b].cycle <= day[b].cycle
  BY <1>1, <1>2, Typed DEF meters
<1>8. \A a \in Actors : stage'[a] = "admitted" => stage[a] = "admitted"
  BY <1>3
<1> QED BY <1>2, <1>5, <1>6, <1>7, <1>8, Calm

(* The venue has it, or not; or the call raises.                           *)
LEMMA SendKeeps ==
  ASSUME Inv, NEW a \in Actors, Send(a) \/ Raise(a)
  PROVE  Inv'
<1>1. TypeOK /\ Named
  BY DEF Inv
<1>2. UNCHANGED <<held, hour, day, losses, halted, placed>>
  BY DEF Send, Raise, meters
<1>3. /\ stage' \in [Actors -> Stages] /\ \A c \in Actors \ {a} : stage'[c] = stage[c]
      /\ stage'[a] \in {"idle", "deciding"}
  BY <1>1 DEF TypeOK, Stages, Send, Raise, Onward
<1>4. /\ order' \in [Actors -> [inst : Instruments \cup {None}, side : Sides, qty : Nat]]
      /\ \A c \in Actors \ {a} : order'[c] = order[c]
  BY <1>1, NoOrderTyped DEF TypeOK, Send, Raise
<1>5. rest' \in [Instruments -> [Sides -> Nat]]
  BY <1>1, RestsTyped DEF TypeOK, Send, Raise
<1>6. since' \in [Instruments -> -1..Cooldown]
  BY <1>1, SinceTyped DEF TypeOK, Send, Raise, meters
<1>7. left' \in [Baskets -> SUBSET Instruments] /\ \A b \in Baskets : left'[b] \subseteq Listed[b]
  <2>1. left \in [Baskets -> SUBSET Instruments] /\ \A c \in Baskets : left[c] \subseteq Listed[c]
    BY <1>1 DEF TypeOK, Named
  <2>2. left' = Acted(a) \/ left' = Dropped(a)
    BY DEF Send, Raise
  <2>3. UNCHANGED left \/ \E b \in Baskets : \E S \in SUBSET left[b] : left' = [left EXCEPT ![b] = S]
    <3>1. CASE a \in Baskets
      BY <2>2, <3>1 DEF Acted, Dropped
    <3>2. CASE a \notin Baskets
      BY <2>2, <3>2 DEF Acted, Dropped
    <3> QED BY <3>1, <3>2
  <2> QED BY <2>1, <2>3
<1>8. TypeOK'
  BY <1>1, <1>2, <1>3, <1>4, <1>5, <1>6, <1>7 DEF TypeOK
<1>9. Named'
  BY <1>1, <1>3, <1>4, <1>7, NamedStep
<1>10. hour'.cycle <= hour.cycle /\ \A b \in Baskets : day'[b].cycle <= day[b].cycle
  BY <1>1, <1>2, Typed
<1>11. \A c \in Actors : stage'[c] = "admitted" => stage[c] = "admitted"
  BY <1>3
<1> QED BY <1>2, <1>8, <1>9, <1>10, <1>11, Calm

(* What becomes of the orders at the venue, and time.                      *)
LEMMA BookKeeps ==
  ASSUME Inv, NEW i \in Instruments, NEW side \in Sides, Book(i, side) \/ Expire(i, side)
  PROVE  Inv'
<1>1. TypeOK /\ Named
  BY DEF Inv
<1>2. UNCHANGED <<hour, day, since, halted, stage, left, order, placed>>
  BY DEF Book, Expire, meters, actors
<1>3. PICK n \in 1..rest[i][side] :
        /\ rest' = [rest EXCEPT ![i][side] = @ - n]
        /\ \/ UNCHANGED held
           \/ side = "sell" /\ n <= held[i] /\ held' = [held EXCEPT ![i] = @ - n]
           \/ side # "sell" /\ held' = [held EXCEPT ![i] = @ + n]
  <2>1. CASE Book(i, side)
    <3>1. PICK n \in 1..rest[i][side] :
            /\ side = "sell" => n <= held[i]
            /\ rest' = [rest EXCEPT ![i][side] = @ - n]
            /\ held' = [held EXCEPT ![i] = IF side = "sell" THEN @ - n ELSE @ + n]
      BY <2>1 DEF Book
    <3> QED BY <3>1
  <2>2. CASE Expire(i, side)
    BY <2>2 DEF Expire
  <2> QED BY <2>1, <2>2
<1>4. n \in Nat /\ rest[i][side] - n \in Nat /\ rest[i] \in [Sides -> Nat] /\ held[i] \in Nat
  BY <1>1 DEF TypeOK
<1>5. rest' \in [Instruments -> [Sides -> Nat]]
  <2>1. [rest[i] EXCEPT ![side] = @ - n] \in [Sides -> Nat]
    BY <1>4
  <2> QED BY <1>1, <1>3, <2>1 DEF TypeOK
<1>6. held' \in [Instruments -> Nat]
  <2>1. held[i] + n \in Nat /\ (n <= held[i] => held[i] - n \in Nat)
    BY <1>4
  <2> QED BY <1>1, <1>3, <2>1 DEF TypeOK
<1>7. losses' \in [Baskets -> 0..MaxLosses]
  <2> DEFINE b == BasketOf(i)
  <2>1. losses \in [Baskets -> 0..MaxLosses] /\ b \in Baskets /\ MaxLosses \in Nat
    BY <1>1, OneBasket, LimitsAssumption DEF TypeOK
  <2> HIDE DEF b
  <2>2. Min({losses[b] + 1, MaxLosses}) \in 0..MaxLosses
    <3> DEFINE m == losses[b] + 1
    <3>1. m \in Nat /\ MaxLosses \in Int
      BY <2>1
    <3> HIDE DEF m
    <3>2. Min({m, MaxLosses}) = IF m <= MaxLosses THEN m ELSE MaxLosses
      BY <3>1, LeastOfTwo
    <3>3. Min({m, MaxLosses}) \in 0..MaxLosses
      BY <2>1, <3>1, <3>2
    <3> QED BY <3>3 DEF m
  <2>3. \/ UNCHANGED losses
        \/ losses' = [losses EXCEPT ![b] = 0]
        \/ losses' = [losses EXCEPT ![b] = Min({@ + 1, MaxLosses})]
    BY DEF Book, Expire, b
  <2> QED BY <2>1, <2>2, <2>3
<1>8. TypeOK'
  BY <1>1, <1>2, <1>5, <1>6, <1>7 DEF TypeOK
<1>9. Named'
  BY <1>1, <1>2 DEF Named, Busy
<1>10. hour'.cycle <= hour.cycle /\ \A b \in Baskets : day'[b].cycle <= day[b].cycle
  BY <1>1, <1>2, Typed
<1> QED BY <1>2, <1>8, <1>9, <1>10, Calm

LEMMA TimeKeeps ==
  ASSUME Inv, HourPasses \/ NewDay
  PROVE  Inv'
<1>1. TypeOK /\ Named
  BY DEF Inv
<1>2. UNCHANGED <<held, rest, since, losses, halted, stage, left, order, placed>>
  BY DEF HourPasses, NewDay, actors
<1>3. hour' \in [{"cycle", "hand"} -> Nat] /\ hour'.cycle <= hour.cycle
  <2>1. hour \in [{"cycle", "hand"} -> Nat] /\ hour.cycle \in Nat
    BY <1>1 DEF TypeOK
  <2>2. CASE HourPasses
    <3>1. PICK by \in {"cycle", "hand"} : hour[by] > 0 /\ hour' = [hour EXCEPT ![by] = @ - 1]
      BY <2>2 DEF HourPasses
    <3>2. hour[by] - 1 \in Nat
      BY <2>1, <3>1
    <3> QED BY <2>1, <3>1, <3>2
  <2>3. CASE NewDay
    BY <2>1, <2>3 DEF NewDay
  <2> QED BY <2>2, <2>3
<1>4. /\ day' \in [Baskets -> [{"cycle", "hand"} -> Nat]]
      /\ \A b \in Baskets : day'[b].cycle <= day[b].cycle
  <2>1. day \in [Baskets -> [{"cycle", "hand"} -> Nat]] /\ \A b \in Baskets : day[b].cycle \in Nat
    BY <1>1 DEF TypeOK
  <2>2. CASE HourPasses
    BY <2>1, <2>2 DEF HourPasses
  <2>3. CASE NewDay
    <3>1. [cycle |-> 0, hand |-> 0] \in [{"cycle", "hand"} -> Nat]
      OBVIOUS
    <3> QED BY <2>1, <2>3, <3>1 DEF NewDay
  <2> QED BY <2>2, <2>3
<1>5. TypeOK'
  BY <1>1, <1>2, <1>3, <1>4 DEF TypeOK
<1>6. Named'
  BY <1>1, <1>2 DEF Named, Busy
<1> QED BY <1>2, <1>3, <1>4, <1>5, <1>6, Calm

LEMMA CrashKeeps ==
  ASSUME Inv, Crash
  PROVE  Inv'
<1>1. TypeOK /\ Named
  BY DEF Inv
<1>2. UNCHANGED <<held, hour, day, losses, halted, placed>>
  BY DEF Crash, meters
<1>3. /\ stage' = [a \in Actors |-> "idle"] /\ left' = [b \in Baskets |-> {}]
      /\ order' = [a \in Actors |-> NoOrder] /\ since' = Abandoned(Baskets)
  BY DEF Crash
<1>4. rest' \in [Instruments -> [Sides -> Nat]]
  <2>1. PICK arrived \in SUBSET Actors :
          rest' = [i \in Instruments |-> [side \in Sides |->
                    rest[i][side] + SumFunctionOnSet(InHand,
                      {a \in arrived : order[a].inst = i /\ order[a].side = side})]]
    BY DEF Crash
  <2>2. ASSUME NEW S \in SUBSET Actors PROVE SumFunctionOnSet(InHand, S) \in Nat
    <3>1. IsFiniteSet(S) /\ \A a \in S : InHand[a] \in Nat
      BY <1>1, Finite DEF TypeOK, InHand
    <3> QED BY <3>1, SumIsNat
  <2>3. ASSUME NEW i \in Instruments, NEW side \in Sides
        PROVE  rest[i][side] + SumFunctionOnSet(InHand,
                 {a \in arrived : order[a].inst = i /\ order[a].side = side}) \in Nat
    <3> DEFINE S == {a \in arrived : order[a].inst = i /\ order[a].side = side}
    <3>1. SumFunctionOnSet(InHand, S) \in Nat
      BY <2>2
    <3> HIDE DEF S
    <3>2. rest[i][side] + SumFunctionOnSet(InHand, S) \in Nat
      BY <1>1, <3>1 DEF TypeOK
    <3> QED BY <3>2 DEF S
  <2> QED BY <2>1, <2>3
<1>5. TypeOK'
  BY <1>1, <1>2, <1>3, <1>4, NoOrderTyped, SinceTyped DEF TypeOK, Stages
<1>6. Named'
  BY <1>3 DEF Named, Busy, Actors
<1>7. hour'.cycle <= hour.cycle /\ \A b \in Baskets : day'[b].cycle <= day[b].cycle
  BY <1>1, <1>2, Typed
<1>8. \A a \in Actors : stage'[a] = "admitted" => stage[a] = "admitted"
  BY <1>3
<1> QED BY <1>2, <1>5, <1>6, <1>7, <1>8, Calm

----------------------------------------------------------------------------
(* An admission.                                                           *)

LEMMA Admitting ==
  ASSUME Inv, NEW a \in Actors, stage[a] # "admitted", NEW p, Admit(a, p),
         p.inst \in Instruments, p.side \in Sides, Size(p) \in Int,
         a \in Baskets => p.inst \in Listed[a],
         UNCHANGED <<held, rest, meters, losses, halted, left, placed>>
  PROVE  /\ TypeOK' /\ Named' /\ Room'
         /\ Under(Baskets)' = IF a \in Baskets THEN Under(Baskets) \cup {a} ELSE Under(Baskets)
<1>1. TypeOK /\ Named /\ Room
  BY DEF Inv
<1> DEFINE o == [inst |-> p.inst, side |-> p.side, qty |-> Size(p)]
<1>2. /\ order' = [order EXCEPT ![a] = o] /\ stage' = [stage EXCEPT ![a] = "admitted"]
      /\ placed + Cardinality({c \in Actors : stage[c] = "admitted"}) < MaxPlaced
      /\ Size(p) >= MinQty
  BY DEF Admit, Admitted
<1>3. o \in [inst : Instruments \cup {None}, side : Sides, qty : Nat]
  BY <1>2, LimitsAssumption
<1>4. o.inst = p.inst
  OBVIOUS
<1> HIDE DEF o
<1>5. /\ stage \in [Actors -> Stages]
      /\ order \in [Actors -> [inst : Instruments \cup {None}, side : Sides, qty : Nat]]
  BY <1>1 DEF TypeOK
<1>6. /\ stage' \in [Actors -> Stages] /\ stage'[a] = "admitted"
      /\ \A c \in Actors \ {a} : stage'[c] = stage[c]
      /\ order' \in [Actors -> [inst : Instruments \cup {None}, side : Sides, qty : Nat]]
      /\ order'[a] = o /\ \A c \in Actors \ {a} : order'[c] = order[c]
  BY <1>2, <1>3, <1>5 DEF Stages
<1>7. TypeOK'
  BY <1>1, <1>6 DEF TypeOK, meters
<1>8. Named'
  <2>1. \A b \in Baskets : left'[b] \subseteq Listed[b]
    BY <1>1 DEF Named
  <2> QED BY <1>1, <1>4, <1>6, <2>1, NamedStep
<1>9. /\ Under(Actors)' = Under(Actors) \cup {a} /\ a \notin Under(Actors)
      /\ Under(Baskets)' = IF a \in Baskets THEN Under(Baskets) \cup {a} ELSE Under(Baskets)
  BY <1>6 DEF Under, Actors
<1>10. Cardinality(Under(Actors)') = Cardinality(Under(Actors)) + 1
  BY <1>9, UnderSizes, FS_AddElement
<1>11. Room'
  <2>1. placed + Cardinality(Under(Actors)) < MaxPlaced
    BY <1>2 DEF Under
  <2>2. placed \in Nat /\ MaxPlaced \in Nat /\ Cardinality(Under(Actors)) \in Nat
    BY <1>1, LimitsAssumption, UnderSizes DEF TypeOK
  <2>3. placed' = placed
    OBVIOUS
  <2> QED BY <1>10, <2>1, <2>2, <2>3 DEF Room
<1> QED BY <1>7, <1>8, <1>9, <1>11

(* The panel's.                                                            *)
LEMMA ProposeKeeps ==
  ASSUME Inv, NEW b \in Baskets, Propose(b)
  PROVE  Inv'
<1>1. TypeOK /\ Named /\ b \in Actors
  BY DEF Inv, Actors
<1>2. PICK i \in left[b], side \in Sides :
        \E want \in 1..(IF side = "sell" THEN held[i] ELSE Ceiling.position) :
          Admit(b, Proposal(i, side, want, held[i], FALSE))
  BY DEF Propose
<1>3. PICK want \in 1..(IF side = "sell" THEN held[i] ELSE Ceiling.position) :
        Admit(b, Proposal(i, side, want, held[i], FALSE))
  BY <1>2
<1>4. i \in Listed[b] /\ i \in Instruments /\ held[i] \in Nat /\ want \in Nat /\ BasketOf(i) = b
  BY <1>1, OneBasket, LimitsAssumption DEF Named, TypeOK
<1>5. /\ UNCHANGED <<held, rest, meters, losses, halted, left, placed>>
      /\ stage[b] = "deciding"
  BY DEF Propose
<1> DEFINE p == Proposal(i, side, want, held[i], FALSE)
<1>6. p = Proposal(i, side, want, held[i], FALSE) /\ Admit(b, p)
  BY <1>3
<1> HIDE DEF p
<1>7. /\ p.inst = i /\ p.side = side /\ ~p.byHand
      /\ p.placedToday = day[b].cycle + day[b].hand /\ p.placedInHour = hour.cycle + hour.hand
  BY <1>4, <1>6 DEF Proposal
<1>8. Size(p) \in Int
  BY <1>1, <1>4, <1>6, SizeWithin
<1>9. /\ TypeOK' /\ Named' /\ Room'
      /\ Under(Baskets)' = Under(Baskets) \cup {b}
  BY <1>1, <1>4, <1>5, <1>6, <1>7, <1>8, Admitting
<1>10. hour.cycle + hour.hand < MaxPerHour /\ day[b].cycle + day[b].hand < MaxPerDay
  <2>1. ~DayIsSpent(p) /\ ~HourIsSpent(p)
    BY <1>6 DEF Admit, Admitted
  <2>2. ~(p.placedToday >= MaxPerDay) /\ ~(p.placedInHour >= MaxPerHour)
    BY <1>7, <2>1 DEF DayIsSpent, HourIsSpent, OperatorExit
  <2>3. /\ MaxPerHour \in Nat /\ MaxPerDay \in Nat
        /\ hour.cycle \in Nat /\ hour.hand \in Nat /\ day[b].cycle \in Nat /\ day[b].hand \in Nat
    BY <1>1, Typed, LimitsAssumption
  <2> QED BY <1>7, <2>2, <2>3
<1>11. /\ MaxPerHour \in Nat /\ MaxPerDay \in Nat
       /\ hour.cycle \in Nat /\ hour.hand \in Nat /\ day[b].cycle \in Nat /\ day[b].hand \in Nat
  BY <1>1, Typed, LimitsAssumption
<1>12. Cardinality(Under(Baskets)') \in Nat /\ Cardinality(Under(Baskets)') <= Cardinality(Baskets)
  <2>1. Under(Baskets)' \in SUBSET Baskets
    BY DEF Under
  <2> QED BY <2>1, ListedAssumption, FS_Subset, FS_CardinalityType
<1>13. hour'.cycle + Cardinality(Under(Baskets)') <= MaxPerHour + Cardinality(Baskets) - 1
  <2>1. hour' = hour /\ Cardinality(Baskets) \in Nat
    BY <1>5, UnderSizes DEF meters
  <2> QED BY <1>10, <1>11, <1>12, <2>1
<1>14. ASSUME NEW c \in Baskets
       PROVE  day'[c].cycle <= MaxPerDay /\ (stage'[c] = "admitted" => day'[c].cycle < MaxPerDay)
  <2>1. day' = day /\ (c # b => stage'[c] = stage[c])
    BY <1>1, <1>5, <1>6 DEF meters, Admit, TypeOK, Actors
  <2>2. day[c].cycle <= MaxPerDay /\ (stage[c] = "admitted" => day[c].cycle < MaxPerDay)
    BY DEF Inv, Metered
  <2>3. day[b].cycle < MaxPerDay
    BY <1>10, <1>11
  <2> QED BY <2>1, <2>2, <2>3
<1> QED BY <1>9, <1>13, <1>14 DEF Inv, Metered

(* The operator's: of no basket, and so it spends nothing of the panel's.  *)
LEMMA ProposeCloseKeeps ==
  ASSUME Inv, NEW c \in Closers, ProposeClose(c)
  PROVE  Inv'
<1>1. TypeOK /\ Named /\ c \in Actors /\ c \notin Baskets
  BY ListedAssumption DEF Inv, Actors
<1> DEFINE i == order[c].inst
           q == order[c].qty
           p == Proposal(i, "sell", q, q, TRUE)
<1>2. /\ UNCHANGED <<held, rest, meters, losses, halted, left, placed>>
      /\ stage[c] = "quoting" /\ Admit(c, p) /\ p = Proposal(i, "sell", q, q, TRUE)
  BY DEF ProposeClose, Exit
<1>3. i \in Instruments /\ q \in Nat
  BY <1>1, <1>2 DEF Named, TypeOK
<1>4. "sell" \in Sides
  BY DEF Sides
<1> HIDE DEF i, q, p
<1>5. p.inst = i /\ p.side = "sell"
  BY <1>2 DEF Proposal
<1>6. Size(p) \in Int
  BY <1>1, <1>2, <1>3, <1>4, SizeWithin
<1>7. TypeOK' /\ Named' /\ Room' /\ Under(Baskets)' = Under(Baskets)
  BY <1>1, <1>2, <1>3, <1>4, <1>5, <1>6, Admitting
<1>8. hour' = hour /\ day' = day
  BY <1>2 DEF meters
<1>9. \A b \in Baskets : stage'[b] = stage[b]
  BY <1>1, <1>2 DEF Admit, TypeOK, Actors
<1> QED BY <1>7, <1>8, <1>9 DEF Inv, Metered

(* Recorded: its place in the hour and the day becomes an order of them.   *)
LEMMA RecordKeeps ==
  ASSUME Inv, NEW a \in Actors, Record(a)
  PROVE  Inv'
<1>1. TypeOK /\ Named /\ Room /\ Metered
  BY DEF Inv
<1> DEFINE i == order[a].inst
           b == BasketOf(i)
<1>2. /\ stage[a] = "admitted" /\ stage' = [stage EXCEPT ![a] = "sending"]
      /\ hour' = [hour EXCEPT ![By(a)] = @ + 1] /\ day' = [day EXCEPT ![b][By(a)] = @ + 1]
      /\ since' = [since EXCEPT ![i] = IF stage[b] = "idle" THEN 0 ELSE -1]
      /\ placed' = placed + 1 /\ UNCHANGED <<held, rest, losses, halted, left, order>>
  BY DEF Record
<1>3. i \in Instruments /\ b \in Baskets /\ (a \in Baskets => b = a)
  <2>1. i \in Instruments /\ (a \in Baskets => i \in Listed[a])
    BY <1>1, <1>2 DEF Named, Busy
  <2> QED BY <2>1, OneBasket
<1> HIDE DEF i, b
<1>4. /\ stage \in [Actors -> Stages] /\ hour \in [{"cycle", "hand"} -> Nat]
      /\ day \in [Baskets -> [{"cycle", "hand"} -> Nat]] /\ since \in [Instruments -> -1..Cooldown]
      /\ placed \in Nat /\ Cooldown \in Nat /\ MaxPlaced \in Nat /\ MaxPerHour \in Nat
      /\ MaxPerDay \in Nat
  BY <1>1, LimitsAssumption DEF TypeOK
<1>5. By(a) = (IF a \in Baskets THEN "cycle" ELSE "hand")
  BY DEF By
<1>6. /\ stage' \in [Actors -> Stages] /\ stage'[a] = "sending"
      /\ \A c \in Actors \ {a} : stage'[c] = stage[c]
  BY <1>2, <1>4 DEF Stages
<1>7. /\ hour' \in [{"cycle", "hand"} -> Nat]
      /\ hour'.cycle = IF a \in Baskets THEN hour.cycle + 1 ELSE hour.cycle
  <2>1. hour.cycle + 1 \in Nat /\ hour.hand + 1 \in Nat
    BY <1>4
  <2> QED BY <1>2, <1>4, <1>5, <2>1
<1>8. /\ day' \in [Baskets -> [{"cycle", "hand"} -> Nat]]
      /\ \A c \in Baskets : day'[c].cycle = IF c = a THEN day[c].cycle + 1 ELSE day[c].cycle
  <2>1. /\ [day[b] EXCEPT ![By(a)] = @ + 1] \in [{"cycle", "hand"} -> Nat]
        /\ [day[b] EXCEPT ![By(a)] = @ + 1].cycle
             = IF a \in Baskets THEN day[b].cycle + 1 ELSE day[b].cycle
    <3>1. day[b] \in [{"cycle", "hand"} -> Nat] /\ day[b].cycle + 1 \in Nat /\ day[b].hand + 1 \in Nat
      BY <1>3, <1>4
    <3> QED BY <1>5, <3>1
  <2>2. day' = [day EXCEPT ![b] = [day[b] EXCEPT ![By(a)] = @ + 1]]
    BY <1>2
  <2> QED BY <1>3, <1>4, <2>1, <2>2
<1>9. since' \in [Instruments -> -1..Cooldown]
  <2>1. (IF stage[b] = "idle" THEN 0 ELSE -1) \in -1..Cooldown
    BY <1>4
  <2> QED BY <1>2, <1>4, <2>1
<1>10. /\ a \in Under(Actors) /\ Under(Actors)' = Under(Actors) \ {a}
       /\ Under(Baskets)' = Under(Baskets) \ {a}
       /\ a \in Baskets <=> a \in Under(Baskets)
  BY <1>2, <1>6 DEF Under, Actors
<1>11. /\ Cardinality(Under(Actors)') = Cardinality(Under(Actors)) - 1
       /\ Cardinality(Under(Baskets)')
            = IF a \in Baskets THEN Cardinality(Under(Baskets)) - 1 ELSE Cardinality(Under(Baskets))
  BY <1>10, UnderSizes, FS_RemoveElement
<1>12. /\ Cardinality(Under(Actors)) \in Nat /\ Cardinality(Under(Baskets)) \in Nat
       /\ Cardinality(Baskets) \in Nat /\ Cardinality(Under(Actors)) # 0
  BY <1>10, UnderSizes, FS_EmptySet
<1>13. placed' \in 0..MaxPlaced /\ Room'
  <2>1. placed + Cardinality(Under(Actors)) <= MaxPlaced
    BY <1>1 DEF Room
  <2>2. placed + 1 \in 0..MaxPlaced
    BY <1>4, <1>12, <2>1
  <2>3. placed + 1 + (Cardinality(Under(Actors)) - 1) <= MaxPlaced
    BY <1>4, <1>12, <2>1
  <2> QED BY <1>2, <1>11, <2>2, <2>3 DEF Room
<1>14. TypeOK'
  <2>1. order' = order /\ left' = left /\ held' = held /\ rest' = rest /\ losses' = losses /\ halted' = halted
    BY <1>2
  <2> QED BY <1>1, <1>6, <1>7, <1>8, <1>9, <1>13, <2>1 DEF TypeOK
<1>15. Named'
  <2>1. \A c \in Baskets : left'[c] \subseteq Listed[c]
    BY <1>1, <1>2 DEF Named
  <2>2. order'[a].inst \in Instruments /\ (a \in Baskets => order'[a].inst \in Listed[a])
    BY <1>1, <1>2 DEF Named, Busy
  <2>3. \A c \in Actors \ {a} : order'[c] = order[c]
    BY <1>2
  <2> QED BY <1>1, <1>6, <2>1, <2>2, <2>3, NamedStep
<1>16. Metered'
  <2>1. hour.cycle + Cardinality(Under(Baskets)) <= MaxPerHour + Cardinality(Baskets) - 1
    BY <1>1 DEF Metered
  <2>2. hour'.cycle + Cardinality(Under(Baskets)') <= MaxPerHour + Cardinality(Baskets) - 1
    <3>1. hour.cycle \in Nat
      BY <1>4
    <3> QED BY <1>4, <1>7, <1>11, <1>12, <2>1, <3>1
  <2>3. ASSUME NEW c \in Baskets
        PROVE  day'[c].cycle <= MaxPerDay /\ (stage'[c] = "admitted" => day'[c].cycle < MaxPerDay)
    <3>1. day[c].cycle <= MaxPerDay /\ (stage[c] = "admitted" => day[c].cycle < MaxPerDay)
      BY <1>1 DEF Metered
    <3>2. day[c].cycle \in Nat /\ (c # a => stage'[c] = stage[c])
      BY <1>4, <1>6 DEF Actors
    <3> QED BY <1>2, <1>4, <1>6, <1>8, <3>1, <3>2
  <2> QED BY <2>2, <2>3 DEF Metered
<1> QED BY <1>13, <1>14, <1>15, <1>16 DEF Inv

----------------------------------------------------------------------------
(* The theorems.                                                           *)

LEMMA AtFirst == Init => Inv
<1> SUFFICES ASSUME Init PROVE Inv
  OBVIOUS
<1>1. TypeOK
  <2>1. held \in [Instruments -> Nat]
    BY LimitsAssumption DEF Init
  <2>2. rest \in [Instruments -> [Sides -> Nat]] /\ hour \in [{"cycle", "hand"} -> Nat]
    BY DEF Init
  <2>3. day \in [Baskets -> [{"cycle", "hand"} -> Nat]]
    BY DEF Init
  <2>4. since \in [Instruments -> -1..Cooldown] /\ losses \in [Baskets -> 0..MaxLosses]
        /\ placed \in 0..MaxPlaced
    BY LimitsAssumption DEF Init
  <2>5. halted \subseteq Baskets /\ stage \in [Actors -> Stages] /\ left \in [Baskets -> SUBSET Instruments]
    BY DEF Init, Stages
  <2>6. order \in [Actors -> [inst : Instruments \cup {None}, side : Sides, qty : Nat]]
    BY NoOrderTyped DEF Init
  <2> QED BY <2>1, <2>2, <2>3, <2>4, <2>5, <2>6 DEF TypeOK
<1>2. \A a \in Actors : stage[a] = "idle"
  BY DEF Init
<1>3. Named
  BY <1>2 DEF Init, Named, Busy, Actors
<1>4. Under(Actors) = {} /\ Under(Baskets) = {}
  BY <1>2 DEF Under, Actors
<1>5. Cardinality(Under(Actors)) = 0 /\ Cardinality(Under(Baskets)) = 0
  BY <1>4, FS_EmptySet
<1>6. Room
  <2>1. placed = 0 /\ MaxPlaced \in Nat
    BY LimitsAssumption DEF Init
  <2> QED BY <1>5, <2>1 DEF Room
<1>7. Metered
  <2>1. hour.cycle = 0 /\ \A b \in Baskets : day[b].cycle = 0
    BY DEF Init
  <2>2. MaxPerHour \in Nat /\ MaxPerDay \in Nat /\ Cardinality(Baskets) \in Nat /\ Cardinality(Baskets) >= 1
    BY LimitsAssumption, UnderSizes
  <2>3. \A b \in Baskets : stage[b] # "admitted"
    BY <1>2 DEF Actors
  <2> QED BY <1>5, <2>1, <2>2, <2>3 DEF Metered
<1> QED BY <1>1, <1>3, <1>6, <1>7 DEF Inv

LEMMA Steps == Inv /\ [Next]_vars => Inv'
<1> SUFFICES ASSUME Inv, [Next]_vars PROVE Inv'
  OBVIOUS
<1>1. ASSUME NEW b \in Baskets, \/ Start(b) \/ Propose(b) \/ Decline(b)
                                \/ AutoPause(b) \/ Finish(b) \/ FailClosed(b) \/ Resume(b)
      PROVE  Inv'
  BY <1>1, CycleKeeps, ProposeKeeps
<1>2. ASSUME NEW c \in Closers, Request(c) \/ ProposeClose(c) \/ VetoClose(c) \/ Unpriced(c)
      PROVE  Inv'
  BY <1>2, CloseKeeps, ProposeCloseKeeps
<1>3. ASSUME NEW a \in Actors, Record(a) \/ Send(a) \/ Raise(a)
      PROVE  Inv'
  BY <1>3, RecordKeeps, SendKeeps
<1>4. ASSUME NEW i \in Instruments, NEW side \in Sides, Book(i, side) \/ Expire(i, side)
      PROVE  Inv'
  BY <1>4, BookKeeps
<1>5. CASE UNCHANGED vars
  BY <1>5 DEF vars, meters, actors, Inv, TypeOK, Named, Metered, Room, Under, Busy
<1> QED BY <1>1, <1>2, <1>3, <1>4, <1>5, TimeKeeps, CrashKeeps DEF Next

LEMMA Invariant == Spec => []Inv
BY AtFirst, Steps, PTL DEF Spec

(* Every state the baskets and the operator reach has the shape the model  *)
(* gives it: the cooldown of every instrument within its limits, over      *)
(* abandoned cycles and crashes, the orders within the bound.              *)
THEOREM TypeCorrect == Spec => []TypeOK
<1>1. Inv => TypeOK
  BY DEF Inv
<1> QED BY <1>1, Invariant, PTL

(* However many baskets cycle at once, the panel's orders of an hour       *)
(* exceed the hourly cap by at most the other baskets, and those of a day  *)
(* never the daily cap (tier2.py, OrderRateRule; rules.py,                 *)
(* DailyTradeCapRule).                                                     *)
THEOREM Meters == Spec => []PanelMetered
<1>1. Inv => PanelMetered
  <2> SUFFICES ASSUME Inv PROVE PanelMetered
    OBVIOUS
  <2>1. hour.cycle + Cardinality(Under(Baskets)) <= MaxPerHour + Cardinality(Baskets) - 1
    BY DEF Inv, Metered
  <2>2. /\ hour.cycle \in Nat /\ MaxPerHour \in Nat /\ Cardinality(Baskets) \in Nat
        /\ Cardinality(Under(Baskets)) \in Nat
    BY UnderSizes, LimitsAssumption DEF Inv, TypeOK
  <2>3. hour.cycle <= MaxPerHour + Cardinality(Baskets) - 1
    BY <2>1, <2>2
  <2>4. \A b \in Baskets : day[b].cycle <= MaxPerDay
    BY DEF Inv, Metered
  <2> QED BY <2>3, <2>4 DEF PanelMetered
<1> QED BY <1>1, Invariant, PTL

----------------------------------------------------------------------------
(* A buy that is alone.                                                    *)

AloneAt(a, i, q) ==
  /\ a \in Actors /\ i \in Instruments /\ q \in Nat
  /\ ~Busy(a) /\ (\A j \in Instruments : ~Others(a, j, "buy"))
  /\ stage'[a] = "admitted" /\ order'[a] = [inst |-> i, side |-> "buy", qty |-> q]
  /\ \A c \in Actors \ {a} : stage'[c] = stage[c] /\ order'[c] = order[c]
  /\ held' = held /\ rest' = rest

(* What is pending afterwards is that buy and nothing else.                *)
LEMMA OnlyPending ==
  ASSUME TypeOK, NEW a, NEW i, NEW q, AloneAt(a, i, q), NEW j \in Instruments
  PROVE  Pending(j, "buy")' = IF j = i THEN q ELSE 0
<1> DEFINE S == {c \in Actors : Busy(c)' /\ order'[c].inst = j /\ order'[c].side = "buy"}
           f == InHand'
<1>1. Pending(j, "buy")' = rest'[j]["buy"] + SumFunctionOnSet(f, S)
  BY DEF Pending
<1>2. rest'[j]["buy"] = 0
  <2>1. rest[j]["buy"] \in Nat /\ ~(rest[j]["buy"] > 0) /\ rest' = rest
    BY Typed DEF AloneAt, Others, Sides
  <2> QED BY <2>1
<1>3. S = IF j = i THEN {a} ELSE {}
  <2>1. \A c \in Actors \ {a} : ~(Busy(c)' /\ order'[c].inst = j /\ order'[c].side = "buy")
    BY DEF AloneAt, Others, Busy
  <2>2. a \in Actors /\ Busy(a)' /\ order'[a].inst = i /\ order'[a].side = "buy"
    BY DEF AloneAt, Busy
  <2> QED BY <2>1, <2>2
<1>4. f[a] = q /\ q \in Nat
  BY DEF AloneAt, InHand
<1> HIDE DEF f, S
<1>5. SumFunctionOnSet(f, S) = IF j = i THEN q ELSE 0
  BY <1>3, <1>4, SumOfFew
<1> QED BY <1>1, <1>2, <1>4, <1>5

LEMMA CommitsIt ==
  ASSUME TypeOK, NEW a, NEW i, NEW q, AloneAt(a, i, q), NEW S \in SUBSET Instruments
  PROVE  /\ Committed(S)' = Exposure(S) + (IF i \in S THEN q ELSE 0)
         /\ Growing(S)' => i \in S
<1> DEFINE g == [j \in Instruments |-> held[j] + (IF j = i THEN q ELSE 0)]
<1>1. \A j \in Instruments : Pending(j, "buy")' = IF j = i THEN q ELSE 0
  BY OnlyPending
<1>2. Committed(S)' = SumFunctionOnSet(g, S)
  <2>1. held' = held
    BY DEF AloneAt
  <2>2. [j \in Instruments |-> held'[j] + Pending(j, "buy")'] = g
    BY <1>1, <2>1
  <2> HIDE DEF g
  <2> QED BY <2>2 DEF Committed
<1>3. Larger(S, held, g, i, q)
  <2>1. \A x \in S : held[x] \in Nat /\ x \in Instruments
    BY Typed
  <2> QED BY <2>1 DEF Larger
<1>4. IsFiniteSet(S) /\ q \in Nat
  BY Finite DEF AloneAt
<1> HIDE DEF g
<1>5. SumFunctionOnSet(g, S) = SumFunctionOnSet(held, S) + (IF i \in S THEN q ELSE 0)
  BY <1>3, <1>4, SumGrows
<1>6. Growing(S)' => i \in S
  BY <1>1 DEF Growing
<1> QED BY <1>2, <1>5, <1>6 DEF Exposure

LEMMA AloneFits ==
  ASSUME TypeOK, NEW a, NEW i, NEW q, AloneAt(a, i, q),
         held[i] + q <= Ceiling.position, held[i] + q <= Ceiling.instrument,
         Exposure(Listed[BasketOf(i)]) + q <= Ceiling.basket,
         Exposure(Instruments) + q <= Ceiling.gross,
         Exposure(InBucket(i)) + q <= Ceiling.cluster
  PROVE  AllFit'
<1>0. i \in Instruments
  BY DEF AloneAt
<1>1. ASSUME NEW S \in SUBSET Instruments, NEW ceiling,
             i \in S => Exposure(S) + q <= Ceiling[ceiling]
      PROVE  Fits(S, ceiling)'
  BY <1>1, CommitsIt DEF Fits
<1>2. Fits(Instruments, "gross")'
  BY <1>1
<1>3. ASSUME NEW b \in Baskets PROVE Fits(Listed[b], "basket")'
  <2>1. i \in Listed[b] => BasketOf(i) = b
    BY OneBasket
  <2>2. Listed[b] \in SUBSET Instruments
    BY OneBasket
  <2> QED BY <1>1, <2>1, <2>2
<1>4. ASSUME NEW j \in Instruments
      PROVE  Fits({j}, "position")' /\ Fits({j}, "instrument")'
  <2>1. Exposure({j}) = held[j]
    BY Typed, SumOfFew DEF Exposure
  <2>2. i \in {j} => i = j
    OBVIOUS
  <2> QED BY <1>1, <2>1, <2>2
<1>5. ASSUME NEW j \in Instruments PROVE Fits(InBucket(j), "cluster")'
  <2>1. InBucket(j) \in SUBSET Instruments /\ (i \in InBucket(j) => InBucket(i) = InBucket(j))
    BY DEF InBucket
  <2> QED BY <1>1, <2>1
<1> QED BY <1>2, <1>3, <1>4, <1>5 DEF AllFit

(* What the panel proposes alone fits, and so does what it proposes to     *)
(* sell; a close asks for what was held.                                   *)
SoloFits(a) ==
  ~Busy(a) /\ stage'[a] = "admitted" =>
    LET o == order'[a] IN
    /\ o.side = "buy" /\ (\A i \in Instruments : ~Others(a, i, "buy")) => AllFit'
    /\ o.side = "sell" /\ ~Others(a, o.inst, "sell") /\ order[a].qty <= held[o.inst]
         => o.qty <= held[o.inst]

LEMMA ProposalFits ==
  ASSUME TypeOK, NEW a \in Actors, NEW i \in Instruments, NEW side \in Sides, NEW want \in Nat,
         NEW position \in Nat, NEW byHand, NEW p, p = Proposal(i, side, want, position, byHand),
         Admit(a, p), held' = held, rest' = rest,
         position = held[i] \/ (side = "sell" /\ position = order[a].qty)
  PROVE  SoloFits(a)
<1> SUFFICES ASSUME ~Busy(a) PROVE SoloFits(a)
  BY DEF SoloFits
<1> DEFINE o == [inst |-> i, side |-> side, qty |-> Size(p)]
<1>1. /\ order' = [order EXCEPT ![a] = o] /\ stage' = [stage EXCEPT ![a] = "admitted"]
      /\ Size(p) >= MinQty
  BY DEF Admit, Admitted, Proposal
<1>2. order'[a] = o /\ \A c \in Actors \ {a} : stage'[c] = stage[c] /\ order'[c] = order[c]
  BY <1>1 DEF TypeOK
<1>3. stage'[a] = "admitted"
  BY <1>1 DEF TypeOK
<1>4. Size(p) \in Nat
  BY <1>1, SizeWithin, LimitsAssumption
<1>5. CASE side = "buy"
  <2>1. ASSUME \A j \in Instruments : ~Others(a, j, "buy") PROVE AllFit'
    <3>1. AloneAt(a, i, Size(p))
      BY <1>2, <1>3, <1>4, <1>5, <2>1 DEF AloneAt
    <3>2. position = held[i]
      BY <1>5
    <3>3. /\ held[i] + Size(p) <= Ceiling.position /\ held[i] + Size(p) <= Ceiling.instrument
          /\ Exposure(Listed[BasketOf(i)]) + Size(p) <= Ceiling.basket
          /\ Exposure(Instruments) + Size(p) <= Ceiling.gross
          /\ Exposure(InBucket(i)) + Size(p) <= Ceiling.cluster
      BY <1>5, <3>2, SizeWithin
    <3> QED BY <3>1, <3>3, AloneFits
  <2>2. order'[a].side # "sell"
    BY <1>2, <1>5
  <2> QED BY <2>1, <2>2 DEF SoloFits
<1>6. CASE side = "sell"
  <2>1. Size(p) <= position /\ position \in Nat /\ held[i] \in Nat
    BY <1>6, SizeWithin, Typed
  <2>2. order'[a].side = "sell" /\ order'[a].inst = i /\ order'[a].qty = Size(p)
    BY <1>2, <1>6
  <2>3. order[a].qty <= held[i] => Size(p) <= held[i]
    BY <1>4, <2>1, Typed
  <2> QED BY <2>2, <2>3 DEF SoloFits
<1> QED BY <1>5, <1>6 DEF Sides

LEMMA OnlyAdmissionsAdmit ==
  ASSUME Inv, [Next]_vars, NEW a \in Actors, ~Busy(a), stage'[a] = "admitted"
  PROVE  (a \in Baskets /\ Propose(a)) \/ (a \in Closers /\ ProposeClose(a))
<1>1. stage \in [Actors -> Stages] /\ stage[a] # "admitted"
  BY DEF Inv, TypeOK, Busy
<1>2. ASSUME NEW b \in Baskets, \/ Start(b) \/ Decline(b)
                                \/ AutoPause(b) \/ Finish(b) \/ FailClosed(b) \/ Resume(b)
      PROVE  FALSE
  BY <1>1, <1>2 DEF Start, Decline, AutoPause, Finish, FailClosed, Resume, actors, Actors
<1>3. ASSUME NEW b \in Baskets, Propose(b) PROVE b = a
  BY <1>1, <1>3 DEF Propose, Admit, Actors
<1>4. ASSUME NEW c \in Closers, Request(c) \/ VetoClose(c) \/ Unpriced(c) PROVE FALSE
  BY <1>1, <1>4 DEF Request, VetoClose, Unpriced, Actors
<1>5. ASSUME NEW c \in Closers, ProposeClose(c) PROVE c = a
  BY <1>1, <1>5 DEF ProposeClose, Admit, Actors
<1>6. ASSUME NEW c \in Actors, Record(c) \/ Send(c) \/ Raise(c) PROVE FALSE
  BY <1>1, <1>6 DEF Record, Send, Raise, Onward
<1>7. ASSUME NEW i \in Instruments, NEW side \in Sides, Book(i, side) \/ Expire(i, side) PROVE FALSE
  BY <1>1, <1>7 DEF Book, Expire, actors
<1>8. CASE HourPasses \/ NewDay \/ Crash \/ UNCHANGED vars
  BY <1>1, <1>8 DEF HourPasses, NewDay, Crash, vars, actors
<1> QED BY <1>2, <1>3, <1>4, <1>5, <1>6, <1>7, <1>8 DEF Next

(* An order that is admitted while nothing else grows fits, with all that  *)
(* is held, every ceiling of both tiers, whichever exposures the rules     *)
(* have read; and a sell is covered (tier1.py, tier2.py).                  *)
THEOREM SoloFit == Spec => SoloOrdersFit
<1>1. ASSUME Inv, [Next]_vars, NEW a \in Actors PROVE SoloFits(a)
  <2> SUFFICES ASSUME ~Busy(a), stage'[a] = "admitted" PROVE SoloFits(a)
    BY DEF SoloFits
  <2>1. TypeOK /\ Named
    BY <1>1 DEF Inv
  <2>2. CASE a \in Baskets /\ Propose(a)
    <3>1. PICK i \in left[a], side \in Sides :
            \E want \in 1..(IF side = "sell" THEN held[i] ELSE Ceiling.position) :
              Admit(a, Proposal(i, side, want, held[i], FALSE))
      BY <2>2 DEF Propose
    <3>2. PICK want \in 1..(IF side = "sell" THEN held[i] ELSE Ceiling.position) :
            Admit(a, Proposal(i, side, want, held[i], FALSE))
      BY <3>1
    <3>3. i \in Instruments /\ held[i] \in Nat /\ want \in Nat
      BY <2>1, <2>2, OneBasket, LimitsAssumption DEF Named, TypeOK
    <3> DEFINE byHand == FALSE
               p == Proposal(i, side, want, held[i], byHand)
    <3>4. p = Proposal(i, side, want, held[i], byHand) /\ Admit(a, p)
      BY <3>2
    <3>5. held' = held /\ rest' = rest
      BY <2>2 DEF Propose
    <3> HIDE DEF byHand, p
    <3> QED BY <2>1, <3>3, <3>4, <3>5, ProposalFits
  <2>3. CASE a \in Closers /\ ProposeClose(a)
    <3> DEFINE i == order[a].inst
               q == order[a].qty
               side == "sell"
               byHand == TRUE
               p == Proposal(i, side, q, q, byHand)
    <3>1. p = Proposal(i, side, q, q, byHand) /\ Admit(a, p)
      BY <2>3 DEF ProposeClose, Exit
    <3>2. i \in Instruments /\ q \in Nat /\ held' = held /\ rest' = rest
      BY <2>1, <2>3 DEF ProposeClose, Named, TypeOK
    <3>3. side \in Sides /\ side = "sell" /\ q = order[a].qty
      BY DEF Sides
    <3> HIDE DEF i, q, side, byHand, p
    <3> QED BY <2>1, <3>1, <3>2, <3>3, ProposalFits
  <2> QED BY <1>1, <2>2, <2>3, OnlyAdmissionsAdmit
<1>2. Inv /\ [Next]_vars =>
        [\A a \in Actors :
           ~Busy(a) /\ stage'[a] = "admitted" =>
             LET o == order'[a] IN
             /\ o.side = "buy" /\ (\A i \in Instruments : ~Others(a, i, "buy")) => AllFit'
             /\ o.side = "sell" /\ ~Others(a, o.inst, "sell") /\ order[a].qty <= held[o.inst]
                  => o.qty <= held[o.inst]]_vars
  BY <1>1 DEF SoloFits
<1> QED BY <1>2, Invariant, PTL DEF Spec, SoloOrdersFit
===============================================================================
