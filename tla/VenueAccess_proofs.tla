-------------------------- MODULE VenueAccess_proofs --------------------------
(***************************************************************************)
(* Proofs about VenueAccess.  The budget of a window is kept because what  *)
(* was sent is, at every age, at most what was charged: a cancelled        *)
(* coroutine leaves its charge behind, what the venue reports only adds to *)
(* the charges, and both books grow old together.                          *)
(*                                                                         *)
(* The sum over a book is a function defined by recursion, and so the      *)
(* proofs start with an induction, for a set, from the well-foundedness of *)
(* the naturals.                                                           *)
(***************************************************************************)
EXTENDS VenueAccess, FiniteSetTheorems, TLAPS

LEMMA Induction ==
  ASSUME NEW T, 0 \in T, \A n \in Nat : n \in T => n + 1 \in T
  PROVE  \A n \in Nat : n \in T
<1>1. SUFFICES ASSUME Nat \ T # {} PROVE FALSE
  OBVIOUS
<1> DEFINE R == OpToRel(<, Nat)
<1>2. IsWellFoundedOn(R, Nat)
  BY NatLessThanWellFounded
<1>3. R = {pair \in Nat \X Nat : pair[1] < pair[2]}
  BY DEF OpToRel
<1> HIDE DEF R
<1>4. PICK n \in Nat \ T : \A m \in Nat \ T : ~ (<<m, n>> \in R)
  <2> DEFINE U == Nat \ T
  <2>1. U \subseteq Nat /\ U # {}
    BY <1>1
  <2> HIDE DEF U
  <2>2. \E x \in U : \A y \in U : ~ (<<y, x>> \in R)
    BY <1>2, <2>1, WFMin
  <2> QED BY <2>2 DEF U
<1>5. n # 0 /\ n - 1 \in Nat
  OBVIOUS
<1>6. <<n - 1, n>> \in R
  BY ONLY n \in Nat, <1>3, <1>5
<1>7. n - 1 \in T
  BY <1>4, <1>5, <1>6
<1> QED BY <1>5, <1>7

----------------------------------------------------------------------------
(* The sum of a book.                                                      *)

IsSum(book, f) == f = [i \in Nat |-> IF i \in DOMAIN book THEN book[i] + f[i + 1] ELSE 0]

(* The recursion of OlderThan ends: beyond the window there is nothing.    *)
LEMMA SumExists ==
  ASSUME NEW L \in Nat, NEW book \in [0..(L - 1) -> Nat]
  PROVE  \E f : IsSum(book, f)
<1> DEFINE Right(n) ==
             {f \in [Nat -> Nat] : \A i \in Nat :
                i >= n => f[i] = IF i \in DOMAIN book THEN book[i] + f[i + 1] ELSE 0}
           T == {k \in Nat : k <= L => Right(L - k) # {}}
<1>1. 0 \in T
  <2>1. [n \in Nat |-> 0] \in Right(L - 0)
    OBVIOUS
  <2> HIDE DEF Right
  <2> QED BY <2>1
<1>2. ASSUME NEW k \in Nat, k \in T PROVE k + 1 \in T
  <2>1. ASSUME k + 1 <= L PROVE Right(L - (k + 1)) # {}
    <3> HIDE DEF Right
    <3>1. PICK f : f \in Right(L - k)
      BY <1>2, <2>1
    <3> DEFINE j == L - (k + 1)
               g == [f EXCEPT ![j] = book[j] + f[j + 1]]
    <3>2. j \in Nat /\ j \in 0..(L - 1) /\ j + 1 = L - k
      BY <2>1
    <3> USE DEF Right
    <3>0. f \in [Nat -> Nat]
      BY <3>1
    <3> HIDE DEF j
    <3>00. book[j] + f[j + 1] \in Nat
      BY <3>0, <3>2
    <3>3. /\ g \in [Nat -> Nat]
          /\ g[j] = book[j] + f[j + 1] /\ \A i \in Nat : i # j => g[i] = f[i]
      BY ONLY <3>0, <3>00, <3>2
    <3> HIDE DEF g
    <3>4. \A i \in Nat : i > j => g[i] = IF i \in DOMAIN book THEN book[i] + g[i + 1] ELSE 0
      <4> TAKE i \in Nat
      <4> HAVE i > j
      <4>0. i + 1 \in Nat /\ i + 1 # j /\ i # j /\ i >= L - k
        BY <3>2
      <4>1. g[i + 1] = f[i + 1] /\ g[i] = f[i] /\ i >= L - k
        BY <3>3, <4>0
      <4>2. f[i] = IF i \in DOMAIN book THEN book[i] + f[i + 1] ELSE 0
        BY <3>1, <4>1
      <4> QED BY <4>1, <4>2
    <3>5. g[j] = IF j \in DOMAIN book THEN book[j] + g[j + 1] ELSE 0
      <4>1. j + 1 \in Nat /\ j + 1 # j /\ j \in DOMAIN book
        BY <3>2
      <4>2. g[j + 1] = f[j + 1]
        BY <3>3, <4>1
      <4> QED BY <3>3, <4>1, <4>2
    <3>6. \A i \in Nat : i >= j => i = j \/ i > j
      BY <3>2
    <3>7. g \in Right(j)
      BY <3>3, <3>4, <3>5, <3>6
    <3> HIDE DEF Right
    <3> QED BY <3>7 DEF j
  <2> HIDE DEF Right
  <2> QED BY <2>1
<1>3. L \in T
  <2> HIDE DEF T
  <2> QED BY <1>1, <1>2, Induction
<1>4. PICK f : f \in Right(0)
  <2>1. Right(L - L) # {} /\ L - L = 0
    <3> HIDE DEF Right
    <3> QED BY <1>3
  <2> HIDE DEF Right
  <2> QED BY <2>1
<1>5. f = [i \in Nat |-> IF i \in DOMAIN book THEN book[i] + f[i + 1] ELSE 0]
  BY <1>4
<1> QED BY <1>5 DEF IsSum

LEMMA SumType ==
  ASSUME NEW L \in Nat, NEW book \in [0..(L - 1) -> Nat], NEW f, IsSum(book, f)
  PROVE  \A n \in Nat : f[n] \in Nat
<1> DEFINE T == {k \in Nat : k <= L => f[L - k] \in Nat}
<1>0. \A n \in Nat : f[n] = IF n < L THEN book[n] + f[n + 1] ELSE 0
  BY DEF IsSum
<1>1. 0 \in T
  BY <1>0
<1>2. ASSUME NEW k \in Nat, k \in T PROVE k + 1 \in T
  <2>1. SUFFICES ASSUME k + 1 <= L PROVE f[L - (k + 1)] \in Nat
    OBVIOUS
  <2>2. L - (k + 1) \in 0..(L - 1) /\ (L - (k + 1)) + 1 = L - k /\ f[L - k] \in Nat
    BY <1>2, <2>1
  <2> QED BY <1>0, <2>2
<1> HIDE DEF T
<1>3. \A k \in Nat : k \in T
  BY <1>1, <1>2, Induction
<1>4. ASSUME NEW n \in Nat PROVE f[n] \in Nat
  <2>1. CASE n >= L
    BY <1>0, <2>1
  <2>2. CASE n < L
    <3>1. L - n \in Nat /\ L - n <= L /\ L - (L - n) = n
      BY <2>2
    <3>2. L - n \in T
      BY <1>3, <3>1
    <3>3. f[L - (L - n)] \in Nat
      BY <3>1, <3>2 DEF T
    <3> QED BY <3>1, <3>3
  <2> QED BY <2>1, <2>2
<1> QED BY <1>4

LEMMA OlderThanStep ==
  ASSUME NEW L \in Nat, NEW book \in [0..(L - 1) -> Nat], NEW n \in Nat
  PROVE  /\ OlderThan(book, n) \in Nat
         /\ OlderThan(book, n) = IF n < L THEN book[n] + OlderThan(book, n + 1) ELSE 0
<1> DEFINE f == CHOOSE f : IsSum(book, f)
<1>1. IsSum(book, f)
  BY SumExists
<1>2. \A i : OlderThan(book, i) = f[i]
  BY DEF OlderThan, IsSum
<1> HIDE DEF f
<1>3. f[n] \in Nat
  BY <1>1, SumType
<1>4. f[n] = IF n < L THEN book[n] + f[n + 1] ELSE 0
  BY <1>1 DEF IsSum
<1> QED BY <1>2, <1>3, <1>4

(* A book that has no more at any age, or at any age one tick later, has   *)
(* no more in sum.                                                         *)
LEMMA Dominated ==
  ASSUME NEW L \in Nat, NEW a \in [0..(L - 1) -> Nat], NEW b \in [0..(L - 1) -> Nat],
         NEW m \in Nat, NEW d \in {0, 1},
         \A j \in 0..(L - 1) : j >= m /\ j + d < L => a[j + d] <= b[j]
  PROVE  OlderThan(a, m + d) <= OlderThan(b, m)
<1> DEFINE A == [n \in Nat |-> OlderThan(a, n)]
           B == [n \in Nat |-> OlderThan(b, n)]
           T == {k \in Nat : k <= L - m => A[(L - k) + d] <= B[L - k]}
<1>0. /\ A \in [Nat -> Nat] /\ \A n \in Nat : A[n] = IF n < L THEN a[n] + A[n + 1] ELSE 0
      /\ B \in [Nat -> Nat] /\ \A n \in Nat : B[n] = IF n < L THEN b[n] + B[n + 1] ELSE 0
  <2>1. ASSUME NEW any \in [0..(L - 1) -> Nat]
        PROVE  LET S == [n \in Nat |-> OlderThan(any, n)]
               IN  /\ S \in [Nat -> Nat]
                   /\ \A n \in Nat : S[n] = IF n < L THEN any[n] + S[n + 1] ELSE 0
    <3>1. \A n \in Nat : /\ OlderThan(any, n) \in Nat
                         /\ OlderThan(any, n) = IF n < L THEN any[n] + OlderThan(any, n + 1) ELSE 0
      BY OlderThanStep
    <3>2. \A n \in Nat : n + 1 \in Nat
      OBVIOUS
    <3> QED BY <3>1, <3>2
  <2> QED BY <2>1
<1>m. A[m + d] = OlderThan(a, m + d) /\ B[m] = OlderThan(b, m) /\ m + d \in Nat
  OBVIOUS
<1> HIDE DEF A, B
<1>1. 0 \in T
  <2>1. (L - 0) + d \in Nat /\ ~((L - 0) + d < L) /\ L - 0 \in Nat /\ ~(L - 0 < L)
    OBVIOUS
  <2>2. A[(L - 0) + d] = 0 /\ B[L - 0] = 0
    BY <1>0, <2>1
  <2> QED BY <2>2
<1>2. ASSUME NEW k \in Nat, k \in T PROVE k + 1 \in T
  <2>1. ASSUME k + 1 <= L - m PROVE A[(L - (k + 1)) + d] <= B[L - (k + 1)]
    <3> DEFINE i == L - (k + 1)
    <3>2. /\ i \in 0..(L - 1) /\ i >= m /\ i + 1 = L - k /\ (i + d) + 1 = (L - k) + d
          /\ i < L /\ i \in Nat /\ i + d \in Nat /\ i + 1 \in Nat /\ (i + d) + 1 \in Nat
      BY <2>1
    <3>3. A[(L - k) + d] <= B[L - k]
      BY <1>2, <2>1
    <3> HIDE DEF i
    <3>4. /\ A[i + d] = IF i + d < L THEN a[i + d] + A[(i + d) + 1] ELSE 0
          /\ B[i] = b[i] + B[i + 1]
          /\ A[(i + d) + 1] \in Nat /\ B[i + 1] \in Nat
      <4>1. /\ A[i + d] = IF i + d < L THEN a[i + d] + A[(i + d) + 1] ELSE 0
            /\ B[i] = IF i < L THEN b[i] + B[i + 1] ELSE 0
        BY ONLY <1>0, <3>2
      <4> QED BY <1>0, <3>2, <4>1
    <3>5. A[(i + d) + 1] <= B[i + 1]
      BY <3>2, <3>3
    <3>6. b[i] \in Nat /\ (i + d < L => a[i + d] \in Nat /\ a[i + d] <= b[i])
      BY <3>2
    <3>7. A[i + d] <= B[i]
      <4>1. CASE i + d < L
        <5>1. A[i + d] = a[i + d] + A[(i + d) + 1]
          BY <3>4, <4>1
        <5> QED BY <3>4, <3>5, <3>6, <4>1, <5>1
      <4>2. CASE ~(i + d < L)
        <5>1. A[i + d] = 0
          BY <3>4, <4>2
        <5> QED BY <3>4, <3>6, <5>1
      <4> QED BY <4>1, <4>2
    <3> QED BY <3>7 DEF i
  <2> QED BY <2>1
<1>3. \A k \in Nat : k \in T
  <2> HIDE DEF T
  <2> QED BY <1>1, <1>2, Induction
<1>4. CASE m >= L
  <2>1. ~(m + d < L) /\ ~(m < L)
    BY <1>4
  <2>2. A[m + d] = 0 /\ B[m] = 0
    BY <1>0, <1>m, <2>1
  <2> QED BY <1>m, <2>2
<1>5. CASE m < L
  <2>1. L - m \in Nat /\ L - (L - m) = m
    BY <1>5
  <2>2. L - m \in T
    BY <1>3, <2>1
  <2>3. A[(L - (L - m)) + d] <= B[L - (L - m)]
    BY <2>1, <2>2
  <2>4. A[m + d] <= B[m]
    BY <2>1, <2>3
  <2> QED BY <1>m, <2>4
<1> QED BY <1>4, <1>5

(* What is added at age 0 is added to the sum, and nothing is lost.        *)
LEMMA Added ==
  ASSUME NEW L \in Nat \ {0}, NEW book \in [0..(L - 1) -> Nat], NEW units \in Nat
  PROVE  OlderThan([book EXCEPT ![0] = @ + units], 0) = OlderThan(book, 0) + units
<1> DEFINE more == [book EXCEPT ![0] = @ + units]
<1>1. /\ more \in [0..(L - 1) -> Nat] /\ more[0] = book[0] + units
      /\ \A j \in 0..(L - 1) : j >= 1 => more[j] = book[j]
  OBVIOUS
<1> HIDE DEF more
<1>2. OlderThan(more, 1) = OlderThan(book, 1)
  <2>1. OlderThan(more, 1) \in Nat /\ OlderThan(book, 1) \in Nat
    BY <1>1, OlderThanStep
  <2>2. \A j \in 0..(L - 1) : j >= 1 /\ j + 0 < L => more[j + 0] <= book[j] /\ book[j + 0] <= more[j]
    BY <1>1
  <2>3. OlderThan(more, 1 + 0) <= OlderThan(book, 1) /\ OlderThan(book, 1 + 0) <= OlderThan(more, 1)
    BY <1>1, <2>2, Dominated
  <2> QED BY <2>1, <2>3
<1>3. ASSUME NEW any \in [0..(L - 1) -> Nat]
      PROVE  OlderThan(any, 0) = any[0] + OlderThan(any, 1) /\ OlderThan(any, 1) \in Nat /\ any[0] \in Nat
  <2>1. OlderThan(any, 0) = IF 0 < L THEN any[0] + OlderThan(any, 0 + 1) ELSE 0
    BY OlderThanStep
  <2> QED BY <2>1, OlderThanStep
<1>4. OlderThan(more, 0) = OlderThan(book, 0) + units
  <2>1. OlderThan(more, 0) = more[0] + OlderThan(more, 1)
    BY <1>1, <1>3
  <2>2. OlderThan(book, 0) = book[0] + OlderThan(book, 1) /\ book[0] \in Nat /\ OlderThan(book, 1) \in Nat
    BY <1>3
  <2> QED BY <1>1, <1>2, <2>1, <2>2
<1> QED BY <1>4 DEF more

----------------------------------------------------------------------------
(* Finite sets, and the smallest delay.                                    *)

LEMMA Largest ==
  ASSUME NEW S, IsFiniteSet(S), S \subseteq Int, S # {}
  PROVE  Max(S) \in S /\ \A y \in S : Max(S) >= y
<1> DEFINE T == {n \in Nat : \A U \in SUBSET S :
                    Cardinality(U) = n /\ U # {} => \E x \in U : \A y \in U : x >= y}
<1>0. \A U \in SUBSET S : IsFiniteSet(U) /\ Cardinality(U) \in Nat
  BY FS_Subset, FS_CardinalityType
<1>1. 0 \in T
  BY <1>0, FS_EmptySet
<1>2. ASSUME NEW n \in Nat, n \in T PROVE n + 1 \in T
  <2>1. ASSUME NEW U \in SUBSET S, Cardinality(U) = n + 1, U # {}
        PROVE  \E x \in U : \A y \in U : x >= y
    <3>1. PICK u \in U : TRUE
      BY <2>1
    <3>2. Cardinality(U \ {u}) = n /\ U \ {u} \in SUBSET S
      <4>1. IsFiniteSet(U)
        BY <1>0
      <4>2. Cardinality(U \ {u}) = IF u \in U THEN Cardinality(U) - 1 ELSE Cardinality(U)
        BY ONLY <4>1, FS_RemoveElement
      <4> QED BY <2>1, <3>1, <4>2
    <3>3. CASE U \ {u} = {}
      BY <3>3
    <3>4. CASE U \ {u} # {}
      <4>1. PICK x \in U \ {u} : \A y \in U \ {u} : x >= y
        BY <1>2, <3>2, <3>4
      <4>2. x \in Int /\ u \in Int /\ \A y \in U : y \in Int
        BY <2>1, <4>1
      <4>3. CASE x >= u
        BY <4>1, <4>2, <4>3
      <4>4. CASE ~(x >= u)
        <5>1. \A y \in U : u >= y
          BY <4>1, <4>2, <4>4
        <5> QED BY <5>1
      <4> QED BY <4>3, <4>4
    <3> QED BY <3>3, <3>4
  <2> QED BY <2>1
<1> HIDE DEF T
<1>3. Cardinality(S) \in T
  BY <1>0, <1>1, <1>2, Induction
<1>4. \E x \in S : \A y \in S : x >= y
  BY <1>3 DEF T
<1> QED BY <1>4 DEF Max

BookOK(book) == DOMAIN book = Windows /\ \A w \in Windows : book[w] \in [Ages(w) -> Nat]

(* What wait_seconds promises: a delay after which the units fit; without  *)
(* a delay, they fit now.                                                  *)
LEMMA WaitIsEnough ==
  ASSUME BookOK(charged), NEW w \in Windows, NEW units \in Nat, units <= Capacity[w]
  PROVE  /\ WaitSeconds(w, units) \in 0..Length[w]
         /\ Used(w) \in Nat
         /\ WaitSeconds(w, units) = 0 => Used(w) + units <= Capacity[w]
<1> DEFINE T == {k \in Nat : k <= Length[w] => ~Fits(w, units, k)}
<1>1. Length[w] \in Nat \ {0} /\ Capacity[w] \in Nat /\ charged[w] \in [0..(Length[w] - 1) -> Nat]
  BY WindowsAssumption DEF BookOK, Ages
<1>2. Used(w) = OlderThan(charged[w], 0) /\ OlderThan(charged[w], 0) \in Nat
  BY <1>1, OlderThanStep DEF Used, Total
<1>3. Fits(w, units, Length[w])
  <2>1. Length[w] - Length[w] = 0
    BY <1>1
  <2> QED BY <1>1, <1>2, <2>1 DEF Fits
<1>4. \E delay \in 0..Length[w] :
        Fits(w, units, delay) /\ (delay = 0 \/ ~Fits(w, units, delay - 1))
  <2>1. SUFFICES ASSUME \A delay \in 0..Length[w] :
                          Fits(w, units, delay) => delay # 0 /\ Fits(w, units, delay - 1)
                 PROVE  FALSE
    OBVIOUS
  <2>2. 0 \in T
    BY <1>1, <2>1
  <2>3. ASSUME NEW k \in Nat, k \in T PROVE k + 1 \in T
    <3>1. ASSUME k + 1 <= Length[w], Fits(w, units, k + 1) PROVE FALSE
      <4>1. k + 1 \in 0..Length[w] /\ (k + 1) - 1 = k /\ k <= Length[w]
        BY <1>1, <3>1
      <4>2. Fits(w, units, (k + 1) - 1)
        BY <2>1, <3>1, <4>1
      <4> QED BY <2>3, <4>1, <4>2
    <3> QED BY <3>1
  <2>4. Length[w] \in T
    <3> HIDE DEF T
    <3> QED BY <1>1, <2>2, <2>3, Induction
  <2> QED BY <1>1, <1>3, <2>4
<1>5. WaitSeconds(w, units) \in 0..Length[w] /\ Fits(w, units, WaitSeconds(w, units))
  <2> HIDE DEF T
  <2> QED BY <1>4 DEF WaitSeconds
<1>6. ASSUME WaitSeconds(w, units) = 0 PROVE Used(w) + units <= Capacity[w]
  <2>1. Fits(w, units, 0)
    BY <1>5, <1>6
  <2>2. OlderThan(charged[w], Length[w] - 0) = 0
    <3>1. Length[w] - 0 \in Nat /\ ~(Length[w] - 0 < Length[w])
      BY <1>1
    <3> QED BY <1>1, <3>1, OlderThanStep
  <2> QED BY <1>1, <1>2, <2>1, <2>2 DEF Fits
<1> QED BY <1>2, <1>5, <1>6

(* A call goes out only if every window it consults has room.              *)
LEMMA NoDelayFits ==
  ASSUME BookOK(charged), NEW k \in Kinds
  PROVE  /\ Delay(k) \in Nat
         /\ Delay(k) = 0 => \A w \in Consulted(k) : Used(w) + Cost[k][w] <= Capacity[w]
<1> DEFINE waits == {WaitSeconds(w, Cost[k][w]) : w \in Consulted(k)}
<1>1. \A w \in Windows : Cost[k][w] \in Nat /\ Cost[k][w] <= Capacity[w] /\ Length[w] \in Nat
  BY WindowsAssumption
<1>2. \A w \in Consulted(k) : w \in Windows /\ WaitSeconds(w, Cost[k][w]) \in Nat
  BY <1>1, WaitIsEnough DEF Consulted
<1>3. IsFiniteSet(waits)
  <2>1. IsFiniteSet(Consulted(k))
    BY WindowsAssumption, FS_Subset DEF Consulted
  <2> DEFINE f == [w \in Consulted(k) |-> WaitSeconds(w, Cost[k][w])]
  <2>2. f \in [Consulted(k) -> waits] /\ \A t \in waits : \E w \in Consulted(k) : f[w] = t
    OBVIOUS
  <2>3. f \in Surjection(Consulted(k), waits)
    <3> HIDE DEF f, waits
    <3> QED BY <2>2 DEF Surjection
  <2> HIDE DEF f, waits
  <2> QED BY <2>1, <2>3, FS_Surjection DEF ExistsSurjection
<1>4. IsFiniteSet({0} \cup waits) /\ {0} \cup waits \subseteq Nat /\ {0} \cup waits # {}
  <2>1. IsFiniteSet(waits \cup {0})
    BY <1>3, FS_AddElement
  <2>2. waits \cup {0} = {0} \cup waits
    OBVIOUS
  <2> QED BY <1>2, <2>1, <2>2
<1>5. Delay(k) = Max({0} \cup waits)
  BY DEF Delay
<1>6. Delay(k) \in {0} \cup waits /\ \A y \in waits : Delay(k) >= y
  <2> HIDE DEF waits
  <2> QED BY <1>4, <1>5, Largest
<1>7. ASSUME Delay(k) = 0, NEW w \in Consulted(k) PROVE Used(w) + Cost[k][w] <= Capacity[w]
  <2>1. WaitSeconds(w, Cost[k][w]) = 0
    BY <1>2, <1>6, <1>7
  <2>2. w \in Windows /\ Cost[k][w] \in Nat /\ Cost[k][w] <= Capacity[w]
    BY <1>1, <1>2
  <2> QED BY <2>1, <2>2, WaitIsEnough
<1> QED BY <1>2, <1>6, <1>7

----------------------------------------------------------------------------
(* The invariant.                                                          *)

(* What was sent was charged, and is charged as long as it counts.         *)
Paid == \A w \in Windows : \A n \in Ages(w) : sent[w][n] <= charged[w][n]

Inv == TypeOK /\ Paid /\ WithinBudget

LEMMA TypedBooks == ASSUME TypeOK PROVE BookOK(charged) /\ BookOK(sent)
BY DEF TypeOK, BookOK

LEMMA ChargeKeeps ==
  ASSUME NEW book, BookOK(book), NEW k \in Kinds
  PROVE  /\ BookOK(Charge(book, k))
         /\ \A w \in Windows :
              /\ Total(Charge(book, k)[w]) = Total(book[w]) + Cost[k][w]
              /\ Charge(book, k)[w][0] = book[w][0] + Cost[k][w]
              /\ \A n \in Ages(w) : n # 0 => Charge(book, k)[w][n] = book[w][n]
<1>1. \A w \in Windows : /\ Length[w] \in Nat \ {0} /\ Cost[k][w] \in Nat
                         /\ book[w] \in [0..(Length[w] - 1) -> Nat]
  BY WindowsAssumption DEF BookOK, Ages
<1>2. \A w \in Windows : Charge(book, k)[w] = [book[w] EXCEPT ![0] = @ + Cost[k][w]]
  BY DEF Charge
<1>3. ASSUME NEW w \in Windows
      PROVE  /\ Charge(book, k)[w] \in [Ages(w) -> Nat]
             /\ Charge(book, k)[w][0] = book[w][0] + Cost[k][w]
             /\ \A n \in Ages(w) : n # 0 => Charge(book, k)[w][n] = book[w][n]
  <2>1. /\ 0 \in Ages(w) /\ book[w] \in [Ages(w) -> Nat] /\ Cost[k][w] \in Nat
        /\ Charge(book, k)[w] = [book[w] EXCEPT ![0] = @ + Cost[k][w]]
    BY <1>1, <1>2 DEF Ages
  <2> QED BY ONLY <2>1
<1>4. \A w \in Windows : Total(Charge(book, k)[w]) = Total(book[w]) + Cost[k][w]
  BY <1>1, <1>2, Added DEF Total
<1> QED BY <1>3, <1>4 DEF BookOK, Charge

(* What is sent is at most what is charged, age by age and so in all.      *)
LEMMA SentWithinCharged ==
  ASSUME TypeOK, Paid, NEW w \in Windows
  PROVE  Total(sent[w]) \in Nat /\ Used(w) \in Nat /\ Total(sent[w]) <= Used(w)
<1>1. /\ Length[w] \in Nat /\ sent[w] \in [0..(Length[w] - 1) -> Nat]
      /\ charged[w] \in [0..(Length[w] - 1) -> Nat]
  BY WindowsAssumption, TypedBooks DEF BookOK, Ages
<1>2. \A j \in 0..(Length[w] - 1) : j >= 0 /\ j + 0 < Length[w] => sent[w][j + 0] <= charged[w][j]
  BY <1>1 DEF Paid, Ages
<1>3. OlderThan(sent[w], 0 + 0) <= OlderThan(charged[w], 0)
  BY <1>1, <1>2, Dominated
<1>4. OlderThan(sent[w], 0) \in Nat /\ OlderThan(charged[w], 0) \in Nat
  BY <1>1, OlderThanStep
<1> QED BY <1>3, <1>4 DEF Total, Used

(* A call that goes out is charged as it goes, in both books, and only if  *)
(* there is room.                                                          *)
LEMMA SendKeeps ==
  ASSUME TypeOK, Paid, NEW k \in Kinds, Delay(k) = 0, WithinBudget,
         charged' = Charge(charged, k), sent' = Charge(sent, k)
  PROVE  BookOK(charged') /\ BookOK(sent') /\ Paid' /\ WithinBudget'
<1>1. BookOK(charged') /\ BookOK(sent')
  BY TypedBooks, ChargeKeeps
<1>2. \A w \in Windows : \A n \in Ages(w) : n \in Nat /\ sent[w][n] \in Nat /\ charged[w][n] \in Nat
  BY TypedBooks, WindowsAssumption DEF BookOK, Ages
<1>3. \A w \in Windows : Cost[k][w] \in Nat /\ Capacity[w] \in Nat
  BY WindowsAssumption
<1>4. ASSUME NEW w \in Windows, NEW n \in Ages(w) PROVE sent'[w][n] <= charged'[w][n]
  <2>1. /\ sent'[w][n] = IF n = 0 THEN sent[w][n] + Cost[k][w] ELSE sent[w][n]
        /\ charged'[w][n] = IF n = 0 THEN charged[w][n] + Cost[k][w] ELSE charged[w][n]
    BY TypedBooks, ChargeKeeps
  <2> QED BY <1>2, <1>3, <2>1 DEF Paid
<1>5. ASSUME NEW w \in Windows PROVE Total(sent'[w]) <= Capacity[w]
  <2>1. Total(sent'[w]) = Total(sent[w]) + Cost[k][w]
    BY TypedBooks, ChargeKeeps
  <2>2. Total(sent[w]) \in Nat /\ Used(w) \in Nat /\ Total(sent[w]) <= Used(w)
    BY SentWithinCharged
  <2>3. CASE Cost[k][w] > 0
    <3>1. Used(w) + Cost[k][w] <= Capacity[w]
      BY <2>3, TypedBooks, NoDelayFits DEF Consulted
    <3> QED BY <1>3, <2>1, <2>2, <3>1
  <2>4. CASE ~(Cost[k][w] > 0)
    <3>1. Cost[k][w] = 0 /\ Total(sent[w]) <= Capacity[w]
      BY <1>3, <2>4 DEF WithinBudget
    <3> QED BY <2>1, <2>2, <3>1
  <2> QED BY <2>3, <2>4
<1> QED BY <1>1, <1>4, <1>5 DEF Paid, WithinBudget, Ages

(* The venue's figure is only ever added.                                  *)
LEMMA ObserveKeeps ==
  ASSUME TypeOK, Paid, NEW reported \in Reports, Observe(reported), UNCHANGED sent
  PROVE  BookOK(charged') /\ Paid'
<1>1. ASSUME NEW w \in Windows
      PROVE  /\ charged'[w] \in [Ages(w) -> Nat]
             /\ \A n \in Ages(w) : charged[w][n] <= charged'[w][n]
  <2>1. /\ 0 \in Ages(w) /\ charged[w] \in [Ages(w) -> Nat] /\ Used(w) \in Nat /\ reported \in Nat
    BY <1>1, WindowsAssumption, LimitsAssumption, TypedBooks, SentWithinCharged DEF BookOK, Ages
  <2>2. CASE reported > Used(w) /\ charged'[w] = [charged[w] EXCEPT ![0] = @ + reported - Used(w)]
    <3>1. charged[w][0] \in Nat /\ charged[w][0] + reported - Used(w) \in Nat
          /\ charged[w][0] <= charged[w][0] + reported - Used(w)
      BY <2>1, <2>2
    <3>2. \A n \in Ages(w) : charged[w][n] \in Nat
      BY <2>1
    <3> QED BY ONLY <2>1, <2>2, <3>1, <3>2
  <2>3. CASE charged'[w] = charged[w]
    BY <2>1, <2>3
  <2> QED BY <2>2, <2>3 DEF Observe
<1>2. DOMAIN charged' = Windows
  BY DEF Observe
<1>3. \A w \in Windows : \A n \in Ages(w) :
        sent[w][n] \in Nat /\ charged[w][n] \in Nat /\ charged'[w][n] \in Nat
        /\ sent[w][n] <= charged[w][n] /\ charged[w][n] <= charged'[w][n]
  BY <1>1, TypedBooks DEF BookOK, Paid
<1>4. \A w \in Windows : \A n \in Ages(w) : sent[w][n] <= charged'[w][n]
  BY <1>3
<1> QED BY <1>1, <1>2, <1>4 DEF BookOK, Paid, Ages

LEMMA OlderShape ==
  ASSUME NEW book, BookOK(book), NEW w \in Windows, NEW n \in Ages(w)
  PROVE  /\ BookOK(Older(book))
         /\ Older(book)[w][n] = IF n = 0 THEN 0 ELSE book[w][n - 1]
         /\ 0 \in Ages(w) /\ (n # 0 => n - 1 \in Ages(w))
<1>1. \A v \in Windows : 0 \in Ages(v) /\ \A m \in Ages(v) : m # 0 => m - 1 \in Ages(v)
  BY WindowsAssumption DEF Ages
<1>2. \A v \in Windows : /\ Older(book)[v] = [m \in Ages(v) |-> IF m = 0 THEN 0 ELSE book[v][m - 1]]
                         /\ book[v] \in [Ages(v) -> Nat]
  BY DEF Older, BookOK
<1>3. ASSUME NEW v \in Windows PROVE Older(book)[v] \in [Ages(v) -> Nat]
  <2>1. \A m \in Ages(v) : (IF m = 0 THEN 0 ELSE book[v][m - 1]) \in Nat
    BY <1>1, <1>2
  <2> QED BY <1>2, <2>1
<1> QED BY <1>1, <1>2, <1>3 DEF BookOK, Older

(* Both books grow old together, and what leaves the window leaves the sum.*)
LEMMA OlderKeeps ==
  ASSUME TypeOK, Paid, WithinBudget, charged' = Older(charged), sent' = Older(sent)
  PROVE  BookOK(charged') /\ BookOK(sent') /\ Paid' /\ WithinBudget'
<1>1. ASSUME NEW w \in Windows, NEW n \in Ages(w)
      PROVE  /\ sent'[w][n] = IF n = 0 THEN 0 ELSE sent[w][n - 1]
             /\ charged'[w][n] = IF n = 0 THEN 0 ELSE charged[w][n - 1]
             /\ 0 \in Ages(w) /\ (n # 0 => n - 1 \in Ages(w))
  BY <1>1, TypedBooks, OlderShape
<1>2. BookOK(charged') /\ BookOK(sent')
  <2>1. \A w \in Windows : 0 \in Ages(w)
    BY WindowsAssumption DEF Ages
  <2>2. CASE Windows = {}
    BY <2>2 DEF BookOK, Older
  <2>3. CASE Windows # {}
    BY <2>1, <2>3, TypedBooks, OlderShape
  <2> QED BY <2>2, <2>3
<1>3. ASSUME NEW w \in Windows, NEW n \in Ages(w) PROVE sent'[w][n] <= charged'[w][n]
  <2>1. CASE n = 0
    <3>1. sent'[w][n] = 0 /\ charged'[w][n] = 0
      BY <1>1, <2>1
    <3> QED BY <3>1
  <2>2. CASE n # 0
    <3>1. n - 1 \in Ages(w) /\ sent'[w][n] = sent[w][n - 1] /\ charged'[w][n] = charged[w][n - 1]
      BY <1>1, <2>2
    <3> QED BY <3>1 DEF Paid
  <2> QED BY <2>1, <2>2
<1>4. ASSUME NEW w \in Windows PROVE Total(sent'[w]) <= Capacity[w]
  <2> DEFINE L == Length[w]
             a == sent'[w]
             b == sent[w]
  <2>1. /\ L \in Nat \ {0} /\ b \in [0..(L - 1) -> Nat] /\ a \in [0..(L - 1) -> Nat]
        /\ Capacity[w] \in Nat
    BY <1>1, <1>2, WindowsAssumption, TypedBooks DEF BookOK, Ages
  <2>2. a[0] = 0 /\ \A j \in 0..(L - 1) : j >= 0 /\ j + 1 < L => a[j + 1] <= b[j]
    <3>1. 0 \in Ages(w)
      BY <2>1 DEF Ages
    <3>2. ASSUME NEW j \in 0..(L - 1), j + 1 < L PROVE a[j + 1] <= b[j]
      <4>1. j + 1 \in Ages(w) /\ j + 1 # 0 /\ (j + 1) - 1 = j
        BY <2>1, <3>2 DEF Ages
      <4>2. a[j + 1] = b[(j + 1) - 1] /\ b[j] \in Nat
        BY <1>1, <2>1, <4>1
      <4> QED BY <2>1, <4>1, <4>2
    <3> QED BY <1>1, <3>1, <3>2
  <2>3. Total(b) <= Capacity[w]
    BY DEF WithinBudget
  <2> HIDE DEF L, a, b
  <2>4. OlderThan(a, 0 + 1) <= OlderThan(b, 0)
    BY <2>1, <2>2, Dominated
  <2>5. OlderThan(a, 0) = a[0] + OlderThan(a, 0 + 1)
    <3>1. OlderThan(a, 0) = IF 0 < L THEN a[0] + OlderThan(a, 0 + 1) ELSE 0
      BY <2>1, OlderThanStep
    <3> QED BY <2>1, <3>1
  <2>6. OlderThan(a, 1) \in Nat /\ OlderThan(b, 0) \in Nat
    BY <2>1, OlderThanStep
  <2>7. Total(a) <= Capacity[w]
    BY <2>1, <2>2, <2>3, <2>4, <2>5, <2>6 DEF Total
  <2> QED BY <2>7 DEF a
<1> QED BY <1>2, <1>3, <1>4 DEF Paid, WithinBudget, Ages

----------------------------------------------------------------------------
(* The steps.                                                              *)

LEMMA Least ==
  ASSUME NEW x \in Int, NEW y \in Int
  PROVE  Min({x, y}) = (IF x <= y THEN x ELSE y) /\ Max({x, y}) = (IF x >= y THEN x ELSE y)
BY DEF Min, Max

LEMMA NoCallTyped == NoCall \in Call
BY WindowsAssumption, LimitsAssumption DEF NoCall, Call

(* One round of _wait_for, whoever makes it.                               *)
LEMMA SettleKeeps ==
  ASSUME Inv, NEW c \in Callers, NEW k \in Kinds, NEW waited \in 0..MaxWait, Settle(c, k, waited)
  PROVE  /\ BookOK(charged') /\ BookOK(sent') /\ Paid' /\ WithinBudget'
         /\ call' \in [Callers -> Call]
<1>1. call \in [Callers -> Call] /\ BookOK(charged) /\ BookOK(sent) /\ Delay(k) \in Nat
  BY TypedBooks, NoDelayFits DEF Inv, TypeOK
<1>2. CASE Delay(k) = 0 /\ charged' = Charge(charged, k) /\ sent' = Charge(sent, k)
           /\ Sleep(c, "sent", k, 0, 0)
  <2>1. [stage |-> "sent", kind |-> k, left |-> 0, waited |-> 0] \in Call
    BY LimitsAssumption DEF Call
  <2>2. call' \in [Callers -> Call]
    BY <1>1, <1>2, <2>1 DEF Sleep
  <2> QED BY <1>2, <2>2, SendKeeps DEF Inv
<1>3. CASE call' = [call EXCEPT ![c] = NoCall] /\ UNCHANGED <<charged, sent>>
  <2>1. call' \in [Callers -> Call]
    BY <1>1, <1>3, NoCallTyped
  <2> QED BY <1>1, <1>3, <2>1 DEF Inv, Paid, WithinBudget
<1>4. CASE waited + Delay(k) <= MaxWait /\ Sleep(c, "waiting", k, Delay(k), waited + Delay(k))
           /\ UNCHANGED <<charged, sent>>
  <2>1. [stage |-> "waiting", kind |-> k, left |-> Delay(k), waited |-> waited + Delay(k)] \in Call
    BY <1>1, <1>4, LimitsAssumption DEF Call
  <2>2. call' \in [Callers -> Call]
    BY <1>1, <1>4, <2>1 DEF Sleep
  <2> QED BY <1>1, <1>4, <2>2 DEF Inv, Paid, WithinBudget
<1> QED BY <1>2, <1>3, <1>4 DEF Settle, Accumulated

LEMMA TypeFromParts ==
  ASSUME BookOK(charged'), BookOK(sent'), penalty' \in 0..MaxPenalty, failures' \in 0..Threshold,
         opened' \in -1..Cooldown, banned' \in BOOLEAN, call' \in [Callers -> Call]
  PROVE  TypeOK'
BY DEF TypeOK, BookOK, Ages, Call

LEMMA AskKeeps == ASSUME Inv, NEW c \in Callers, NEW k \in Kinds, Ask(c, k) PROVE Inv'
<1>1. /\ penalty \in 0..MaxPenalty /\ failures \in 0..Threshold /\ opened \in -1..Cooldown
      /\ banned \in BOOLEAN /\ call \in [Callers -> Call]
      /\ UNCHANGED <<penalty, failures, opened, banned>>
  BY DEF Inv, TypeOK, Ask
<1>2. CASE Settle(c, k, 0)
  <2>1. 0 \in 0..MaxWait
    BY LimitsAssumption
  <2> QED BY <1>1, <1>2, <2>1, SettleKeeps, TypeFromParts DEF Inv
<1>3. CASE Sleep(c, "penalised", k, penalty, 0) /\ UNCHANGED <<charged, sent>>
  <2>1. [stage |-> "penalised", kind |-> k, left |-> penalty, waited |-> 0] \in Call
    BY <1>1, LimitsAssumption DEF Call
  <2>2. call' \in [Callers -> Call]
    BY <1>1, <1>3, <2>1 DEF Sleep
  <2>3. BookOK(charged') /\ BookOK(sent') /\ Paid' /\ WithinBudget'
    BY <1>3, TypedBooks DEF Inv, Paid, WithinBudget
  <2> QED BY <1>1, <2>2, <2>3, TypeFromParts DEF Inv
<1> QED BY <1>2, <1>3 DEF Ask

LEMMA WakeKeeps == ASSUME Inv, NEW c \in Callers, Wake(c) PROVE Inv'
<1>1. /\ penalty \in 0..MaxPenalty /\ failures \in 0..Threshold /\ opened \in -1..Cooldown
      /\ banned \in BOOLEAN /\ call[c] \in Call
      /\ UNCHANGED <<penalty, failures, opened, banned>>
  BY DEF Inv, TypeOK, Wake
<1>2. call[c].kind \in Kinds /\ call[c].waited \in 0..MaxWait /\ Settle(c, call[c].kind, call[c].waited)
  BY <1>1 DEF Call, Wake
<1>3. PICK k \in Kinds, waited \in 0..MaxWait : Settle(c, k, waited)
  BY <1>2
<1> QED BY <1>1, <1>3, SettleKeeps, TypeFromParts DEF Inv

LEMMA AnswerKeeps == ASSUME Inv, NEW c \in Callers, Answer(c) PROVE Inv'
<1>1. /\ penalty \in 0..MaxPenalty /\ failures \in 0..Threshold /\ opened \in -1..Cooldown
      /\ banned \in BOOLEAN /\ call \in [Callers -> Call]
  BY DEF Inv, TypeOK
<1>2. Reply(c)
  BY DEF Answer, Succeeds, Fails, RateLimited, Banned
<1>3. BookOK(charged') /\ BookOK(sent') /\ Paid' /\ WithinBudget'
  BY <1>2, ObserveKeeps, TypedBooks DEF Inv, Reply, WithinBudget
<1>4. call' \in [Callers -> Call]
  BY <1>1, <1>2, NoCallTyped DEF Reply
<1>5. ASSUME RecordFailure PROVE failures' \in 0..Threshold /\ opened' \in -1..Cooldown
  <2>1. Min({failures + 1, Threshold}) \in 0..Threshold
    BY <1>1, LimitsAssumption, Least
  <2> QED BY <1>1, <1>5, <2>1, LimitsAssumption DEF RecordFailure
<1>6. failures' \in 0..Threshold /\ opened' \in -1..Cooldown
  <2>1. CASE Succeeds(c)
    BY <2>1, LimitsAssumption DEF Succeeds
  <2> QED BY <1>5, <2>1 DEF Answer, Fails, RateLimited, Banned
<1>7. penalty' \in 0..MaxPenalty
  <2>1. CASE RateLimited(c)
    <3>1. \A after \in 1..MaxPenalty : Max({penalty, after}) \in 0..MaxPenalty
      <4> TAKE after \in 1..MaxPenalty
      <4>1. penalty \in Int /\ after \in Int /\ after \in 0..MaxPenalty
        BY <1>1, LimitsAssumption
      <4>2. Max({penalty, after}) = IF penalty >= after THEN penalty ELSE after
        BY <4>1, Least
      <4> QED BY <1>1, <4>1, <4>2
    <3> QED BY <2>1, <3>1 DEF RateLimited
  <2> QED BY <1>1, <2>1 DEF Answer, Succeeds, Fails, Banned
<1>8. banned' \in BOOLEAN
  BY <1>1 DEF Answer, Succeeds, Fails, RateLimited, Banned
<1> QED BY <1>3, <1>4, <1>6, <1>7, <1>8, TypeFromParts DEF Inv

LEMMA TickKeeps == ASSUME Inv, Tick PROVE Inv'
<1>1. /\ penalty \in 0..MaxPenalty /\ failures \in 0..Threshold /\ opened \in -1..Cooldown
      /\ banned \in BOOLEAN /\ call \in [Callers -> Call]
  BY DEF Inv, TypeOK
<1>2. BookOK(charged') /\ BookOK(sent') /\ Paid' /\ WithinBudget'
  BY OlderKeeps DEF Inv, Tick
<1>3. penalty' \in 0..MaxPenalty
  BY <1>1, LimitsAssumption DEF Tick, Less
<1>4. opened' \in -1..Cooldown
  <2>1. opened # -1 => Min({opened + 1, Cooldown}) \in -1..Cooldown
    BY <1>1, LimitsAssumption, Least
  <2> QED BY <1>1, <2>1, LimitsAssumption DEF Tick
<1>5. call' \in [Callers -> Call]
  <2>1. ASSUME NEW c \in Callers PROVE [call[c] EXCEPT !.left = Less(@)] \in Call
    BY <1>1 DEF Call, Less
  <2> QED BY <2>1 DEF Tick
<1>6. failures' \in 0..Threshold /\ banned' \in BOOLEAN
  BY <1>1 DEF Tick
<1> QED BY <1>2, <1>3, <1>4, <1>5, <1>6, TypeFromParts DEF Inv

LEMMA CancelKeeps == ASSUME Inv, NEW c \in Callers, Cancel(c) PROVE Inv'
<1>1. /\ penalty' \in 0..MaxPenalty /\ failures' \in 0..Threshold /\ opened' \in -1..Cooldown
      /\ banned' \in BOOLEAN
  BY DEF Inv, TypeOK, Cancel, limiter
<1>2. call' \in [Callers -> Call]
  BY NoCallTyped DEF Inv, TypeOK, Cancel
<1>3. BookOK(charged') /\ BookOK(sent') /\ Paid' /\ WithinBudget'
  BY TypedBooks DEF Inv, Paid, WithinBudget, Cancel, limiter
<1> QED BY <1>1, <1>2, <1>3, TypeFromParts DEF Inv

LEMMA AtFirst == Init => Inv
<1> SUFFICES ASSUME Init PROVE Inv
  OBVIOUS
<1>1. TypeOK
  <2>1. BookOK(charged) /\ BookOK(sent)
    BY DEF Init, BookOK
  <2>2. call \in [Callers -> Call]
    BY NoCallTyped DEF Init
  <2>3. penalty \in 0..MaxPenalty /\ failures \in 0..Threshold /\ opened \in -1..Cooldown
    BY LimitsAssumption DEF Init
  <2>4. banned \in BOOLEAN
    BY DEF Init
  <2> QED BY <2>1, <2>2, <2>3, <2>4 DEF TypeOK, BookOK
<1>2. Paid
  BY DEF Init, Paid
<1>3. ASSUME NEW w \in Windows PROVE Total(sent[w]) <= Capacity[w]
  <2> DEFINE L == Length[w]
             empty == [n \in 0..(L - 1) |-> 0]
             T == {k \in Nat : k <= L => OlderThan(empty, L - k) = 0}
  <2>1. L \in Nat /\ Capacity[w] \in Nat /\ empty \in [0..(L - 1) -> Nat] /\ sent[w] = empty
    BY WindowsAssumption DEF Init, Ages
  <2>u. \A n \in 0..(L - 1) : empty[n] = 0
    OBVIOUS
  <2> HIDE DEF L, empty
  <2>2. 0 \in T
    <3>1. L - 0 \in Nat /\ ~(L - 0 < L)
      BY <2>1
    <3> QED BY <2>1, <3>1, OlderThanStep
  <2>3. ASSUME NEW k \in Nat, k \in T PROVE k + 1 \in T
    <3>1. ASSUME k + 1 <= L PROVE OlderThan(empty, L - (k + 1)) = 0
      <4> DEFINE i == L - (k + 1)
      <4>1. i \in Nat /\ i < L /\ i \in 0..(L - 1) /\ i + 1 = L - k
        BY <2>1, <3>1
      <4>2. OlderThan(empty, L - k) = 0
        BY <2>3, <3>1, <2>1
      <4> HIDE DEF i
      <4>3. OlderThan(empty, i) = IF i < L THEN empty[i] + OlderThan(empty, i + 1) ELSE 0
        BY <2>1, <4>1, OlderThanStep
      <4>4. OlderThan(empty, i) = 0
        BY <2>u, <4>1, <4>2, <4>3
      <4> QED BY <4>4 DEF i
    <3> QED BY <3>1
  <2>4. L \in T
    <3> HIDE DEF T
    <3> QED BY <2>1, <2>2, <2>3, Induction
  <2>5. OlderThan(empty, L - L) = 0 /\ L - L = 0
    BY <2>1, <2>4
  <2> QED BY <2>1, <2>5 DEF Total
<1> QED BY <1>1, <1>2, <1>3 DEF Inv, WithinBudget

LEMMA Steps == Inv /\ [Next]_vars => Inv'
<1> SUFFICES ASSUME Inv, [Next]_vars PROVE Inv'
  OBVIOUS
<1>1. CASE UNCHANGED vars
  BY <1>1 DEF vars, limiter, Inv, TypeOK, Call, Ages, Paid, WithinBudget
<1> QED BY <1>1, AskKeeps, WakeKeeps, AnswerKeeps, CancelKeeps, TickKeeps DEF Next

THEOREM Invariant == Spec => []Inv
BY AtFirst, Steps, PTL DEF Spec

(* The shape of the state, and with it: nobody has ever waited longer than *)
(* max_wait_seconds when it sleeps again (_wait_for).                      *)
THEOREM TypeCorrect == Spec => []TypeOK
<1>1. Inv => TypeOK
  BY DEF Inv
<1> QED BY <1>1, Invariant, PTL

(* However many call, whatever the windows and the costs, whatever was     *)
(* cancelled after it was charged and whatever figure the venue reports:   *)
(* no window of time sees more than its budget sent.                       *)
THEOREM BudgetKept == Spec => []WithinBudget
<1>1. Inv => WithinBudget
  BY DEF Inv
<1> QED BY <1>1, Invariant, PTL
===============================================================================
