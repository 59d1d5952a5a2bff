---------------------------- MODULE GalleryProofs ----------------------------
(***************************************************************************)
(* TLAPS proofs about the people and the albums of Gallery, for every      *)
(* library and any interleaving.                                           *)
(* People: whatever the faces look like and whichever passes overlap, the  *)
(* faces of a photo are different people, nobody is left without a face,   *)
(* the first people appear, and names stay where they were.  They rest on  *)
(* what the grouping and the assignment of faces compute, proved first of  *)
(* the operators of FaceGroups.                                            *)
(* Albums: for any number of clients and requests, with photos deleted     *)
(* meanwhile and whatever people and memories do.                          *)
(***************************************************************************)
EXTENDS Gallery, FiniteSetTheorems, WellFoundedInduction, TLAPS

---------------------------------------------------------------------------
(* Finite sets and numbers.                                                *)

LEMMA LeastExists ==
    ASSUME NEW S, S \subseteq Nat, S # {} PROVE \E m \in S : \A k \in S : m <= k
<1>1. PICK m \in S : \A k \in S : <<k, m>> \notin OpToRel(<, Nat)
  BY WFMin, NatLessThanWellFounded, Zenon
<1>2. \A k \in S : ~(k < m)
  BY <1>1, Zenon DEF OpToRel
<1> QED BY <1>2

(* A set of numbers has its minimum. *)
LEMMA MinIsLeast ==
    ASSUME NEW S, S \subseteq Nat, S # {} PROVE Min(S) \in S /\ \A y \in S : Min(S) <= y
BY LeastExists DEF Min

(* Of the subsets of a finite set that have something, one is smallest: so *)
(* what holds of a set when it holds of those with one element less holds  *)
(* of all.                                                                 *)
LEMMA SmallestExists ==
    ASSUME NEW S, IsFiniteSet(S), NEW B \in SUBSET SUBSET S, B # {}
    PROVE  \E T \in B : IsFiniteSet(T) /\ \A x \in T : T \ {x} \notin B
<1> DEFINE Sizes == {n \in Nat : \E T \in B : Cardinality(T) = n}
<1>1. \A T \in B : IsFiniteSet(T) /\ Cardinality(T) \in Nat
  BY FS_Subset, FS_CardinalityType
<1>2. PICK n \in Sizes : \A k \in Sizes : n <= k
  <2>1. Sizes \subseteq Nat /\ Sizes # {}
    BY <1>1
  <2> HIDE DEF Sizes
  <2> QED BY <2>1, LeastExists
<1>3. PICK T \in B : Cardinality(T) = n
  BY <1>2
<1>4. ASSUME NEW x \in T, T \ {x} \in B PROVE FALSE
  <2>1. Cardinality(T \ {x}) = n - 1
    BY <1>1, <1>3, FS_RemoveElement
  <2>2. Cardinality(T \ {x}) \in Sizes
    BY <1>1, <1>4
  <2>3. n \in Nat
    BY <1>1, <1>3
  <2> HIDE DEF Sizes
  <2>4. n <= Cardinality(T \ {x})
    BY <1>2, <2>2
  <2> QED BY ONLY <2>1, <2>3, <2>4
<1> QED BY <1>1, <1>3, <1>4

(* A finite set of numbers has its maximum. *)
LEMMA MaxIsGreatest ==
    ASSUME NEW S, S \subseteq Int, S # {}, IsFiniteSet(S) PROVE Max(S) \in S /\ \A y \in S : y <= Max(S)
<1> DEFINE HasMax(T) == \E m \in T : \A k \in T : m >= k
           B == {T \in SUBSET S : T # {} /\ ~HasMax(T)}
<1>1. ASSUME B # {} PROVE FALSE
  <2>1. B \in SUBSET SUBSET S
    OBVIOUS
  <2>2. PICK T \in B : \A x \in T : T \ {x} \notin B
    <3> HIDE DEF B
    <3> QED BY <1>1, <2>1, SmallestExists
  <2>3. PICK x \in T : TRUE
    BY <2>2
  <2>4. T \ {x} = {} \/ HasMax(T \ {x})
    BY <2>2
  <2>5. CASE T \ {x} = {}
    BY <2>2, <2>3, <2>5
  <2>6. CASE HasMax(T \ {x})
    <3>1. PICK m \in T \ {x} : \A k \in T \ {x} : m >= k
      BY <2>6
    <3>2. m \in Int /\ x \in Int
      BY <2>2, <2>3
    <3>3. CASE m >= x
      BY <2>2, <3>1, <3>3
    <3>4. CASE x >= m
      <4>1. \A k \in T : k \in Int /\ x >= k
        BY <2>2, <3>1, <3>2, <3>4
      <4> QED BY <2>2, <2>3, <4>1
    <3> QED BY <3>2, <3>3, <3>4
  <2> QED BY <2>4, <2>5, <2>6
<1>2. HasMax(S)
  BY <1>1
<1>3. Max(S) \in S /\ \A y \in S : Max(S) >= y
  BY <1>2 DEF Max
<1> QED BY <1>3

(* Something is best by two measures, the greater of the first and for     *)
(* equal ones the smaller of the second.                                   *)
LEMMA BestExists ==
    ASSUME NEW S, IsFiniteSet(S), S # {}, NEW w \in [S -> Nat], NEW r \in [S -> Nat]
    PROVE  \E n \in S : \A m \in S : w[n] > w[m] \/ (w[n] = w[m] /\ r[n] <= r[m])
<1> DEFINE Beats(n, m) == w[n] > w[m] \/ (w[n] = w[m] /\ r[n] <= r[m])
           HasBest(T) == \E n \in T : \A m \in T : Beats(n, m)
           B == {T \in SUBSET S : T # {} /\ ~HasBest(T)}
<1>1. \A n, m, k \in S : Beats(n, n) /\ (Beats(n, m) \/ Beats(m, n)) /\ (Beats(n, m) /\ Beats(m, k) => Beats(n, k))
  <2>1. \A n \in S : w[n] \in Nat /\ r[n] \in Nat
    OBVIOUS
  <2> QED BY <2>1
<1> HIDE DEF Beats
<1>2. ASSUME B # {} PROVE FALSE
  <2>1. B \in SUBSET SUBSET S
    OBVIOUS
  <2>2. PICK T \in B : \A x \in T : T \ {x} \notin B
    <3> HIDE DEF B
    <3> QED BY <1>2, <2>1, SmallestExists
  <2>3. PICK x \in T : TRUE
    BY <2>2
  <2>4. T \ {x} = {} \/ HasBest(T \ {x})
    BY <2>2
  <2>5. CASE T \ {x} = {}
    BY <1>1, <2>2, <2>3, <2>5
  <2>6. CASE HasBest(T \ {x})
    <3>1. PICK n \in T \ {x} : \A m \in T \ {x} : Beats(n, m)
      BY <2>6
    <3> QED BY <1>1, <2>2, <2>3, <3>1
  <2> QED BY <2>4, <2>5, <2>6
<1>3. HasBest(S)
  BY <1>2
<1> QED BY <1>3 DEF Beats

(* Every place has someone, if of any two one is ahead of the other.       *)
LEMMA PlacesAreTaken ==
    ASSUME NEW S, IsFiniteSet(S), NEW ahead \in [S -> SUBSET S],
           \A p \in S : p \notin ahead[p],
           \A p, q \in S : p # q => p \in ahead[q] \/ q \in ahead[p],
           \A p, q \in S : p \in ahead[q] => ahead[p] \subseteq ahead[q]
    PROVE  /\ Cardinality(S) \in Nat
           /\ \A i \in 1..Cardinality(S) : \E q \in S : Cardinality(ahead[q]) = i - 1
           /\ \A p, q \in S : Cardinality(ahead[p]) = Cardinality(ahead[q]) => p = q
<1> DEFINE n == Cardinality(S)
           place == [q \in S |-> Cardinality(ahead[q]) + 1]
<1>1. n \in Nat
  BY FS_CardinalityType
<1>2. \A q \in S : IsFiniteSet(ahead[q]) /\ Cardinality(ahead[q]) \in 0..(n - 1)
  <2> TAKE q \in S
  <2>1. ahead[q] \in SUBSET (S \ {q})
    OBVIOUS
  <2>2. IsFiniteSet(S \ {q}) /\ Cardinality(S \ {q}) = n - 1
    BY FS_RemoveElement
  <2>3. IsFiniteSet(ahead[q]) /\ Cardinality(ahead[q]) <= n - 1
    BY <2>1, <2>2, FS_Subset
  <2> QED BY <1>1, <2>3, FS_CardinalityType
<1>3. \A p, q \in S : p \in ahead[q] => Cardinality(ahead[p]) < Cardinality(ahead[q])
  <2> TAKE p \in S, q \in S
  <2> HAVE p \in ahead[q]
  <2>1. ahead[p] \in SUBSET (ahead[q] \ {p})
    OBVIOUS
  <2>2. IsFiniteSet(ahead[q] \ {p}) /\ Cardinality(ahead[q] \ {p}) = Cardinality(ahead[q]) - 1
    BY <1>2, FS_RemoveElement
  <2>3. Cardinality(ahead[p]) <= Cardinality(ahead[q]) - 1
    BY <2>1, <2>2, FS_Subset
  <2> QED BY <1>2, <2>3
<1>4. \A p, q \in S : Cardinality(ahead[p]) = Cardinality(ahead[q]) => p = q
  BY <1>2, <1>3
<1>5. place \in [S -> 1..n]
  BY <1>1, <1>2
<1>6. place \in Injection(S, 1..n)
  <2>1. \A p, q \in S : place[p] = place[q] => p = q
    BY <1>2, <1>4
  <2> HIDE DEF place
  <2> QED BY <1>5, <2>1 DEF Injection, IsInjective
<1>7. place \in Surjection(S, 1..n)
  <2>1. IsFiniteSet(1..n) /\ Cardinality(1..n) = n
    BY <1>1, FS_Interval
  <2> HIDE DEF place
  <2> QED BY <1>6, <2>1, FS_Injection
<1>8. \A i \in 1..n : \E q \in S : Cardinality(ahead[q]) = i - 1
  <2> TAKE i \in 1..n
  <2>1. PICK q \in S : place[q] = i
    <3> HIDE DEF place, n
    <3> QED BY <1>7 DEF Surjection
  <2> QED BY <1>2, <2>1
<1> QED BY <1>1, <1>4, <1>8
---------------------------------------------------------------------------
(* Folds.                                                                  *)

(* What a fold computes from a start and a step is defined for every       *)
(* subset of a finite set, and is of the kind that the steps keep to.      *)
Steps(S, V, base, pick, step) ==
    /\ IsFiniteSet(S) /\ base \in V
    /\ \A s \in SUBSET S : s # {} => pick[s] \in s
    /\ \A x \in S, v \in V : step[x][v] \in V

IsFold(h, S, V, base, pick, step) ==
    /\ h \in [SUBSET S -> V]
    /\ \A s \in SUBSET S : h[s] = IF s = {} THEN base ELSE step[pick[s]][h[s \ {pick[s]}]]

(* A fold over a finite set, member by member, is well defined. *)
LEMMA FoldExists ==
    ASSUME NEW S, NEW V, NEW base, NEW pick, NEW step, Steps(S, V, base, pick, step)
    PROVE  \E h : IsFold(h, S, V, base, pick, step)
<1> USE DEF Steps, IsFold
<1> DEFINE Upto(n) == {s \in SUBSET S : Cardinality(s) <= n}
           Next1(h, s) == IF s = {} THEN base ELSE step[pick[s]][h[s \ {pick[s]}]]
           Fold(n, h) == h \in [Upto(n) -> V] /\ \A s \in Upto(n) : h[s] = Next1(h, s)
           Bad == {n \in Nat : ~\E h : Fold(n, h)}
<1>1. \A s \in SUBSET S : /\ IsFiniteSet(s) /\ Cardinality(s) \in Nat
                          /\ Cardinality(s) = 0 <=> s = {}
                          /\ \A x \in s : Cardinality(s \ {x}) = Cardinality(s) - 1
  BY FS_Subset, FS_CardinalityType, FS_EmptySet, FS_RemoveElement
<1>2. ASSUME NEW n \in Nat, n \in Bad, \A k \in Bad : n <= k PROVE FALSE
  <2>1. CASE n = 0
    <3> DEFINE h == [s \in Upto(0) |-> base]
    <3>1. \A s \in Upto(0) : s = {}
      BY <1>1
    <3>2. Fold(0, h)
      BY <3>1
    <3> HIDE DEF Fold
    <3> QED BY <1>2, <2>1, <3>2
  <2>2. CASE n # 0
    <3>1. n - 1 \in Nat /\ n - 1 \notin Bad
      <4> HIDE DEF Bad
      <4> QED BY <1>2, <2>2
    <3>2. PICK h : Fold(n - 1, h)
      BY <3>1
    <3> DEFINE k == [s \in Upto(n) |-> Next1(h, s)]
    <3>3. \A s \in Upto(n) : s # {} => s \ {pick[s]} \in Upto(n - 1) /\ s \ {pick[s]} \in Upto(n)
      BY <1>1
    <3>4. \A t \in Upto(n - 1) : t \in Upto(n) /\ h[t] = Next1(h, t) /\ h[t] \in V
      <4>1. \A t \in Upto(n - 1) : t \in Upto(n)
        BY <1>1
      <4> HIDE DEF Next1
      <4> QED BY <3>2, <4>1
    <3>5. k \in [Upto(n) -> V]
      BY <3>3, <3>4
    <3>6. ASSUME NEW s \in Upto(n) PROVE k[s] = Next1(k, s)
      <4>1. k[s] = Next1(h, s)
        OBVIOUS
      <4>2. s # {} => k[s \ {pick[s]}] = h[s \ {pick[s]}]
        BY <3>3, <3>4
      <4> QED BY <4>1, <4>2
    <3>7. Fold(n, k)
      <4> HIDE DEF k, Next1, Upto
      <4> QED BY <3>5, <3>6
    <3> HIDE DEF Fold
    <3> QED BY <1>2, <3>7
  <2> QED BY <2>1, <2>2
<1>3. Bad = {}
  <2>1. Bad \subseteq Nat
    OBVIOUS
  <2> HIDE DEF Bad
  <2> QED BY <1>2, <2>1, LeastExists
<1>4. Cardinality(S) \in Nat /\ Upto(Cardinality(S)) = SUBSET S
  BY FS_Subset, FS_CardinalityType
<1>5. PICK h : Fold(Cardinality(S), h)
  BY <1>3, <1>4
<1> QED BY <1>4, <1>5

(* A sum, as the community module folds it. *)
SumSteps(f, H, iter) ==
    iter = [s \in SUBSET H |->
              IF s = {} THEN 0 ELSE f[CHOOSE x \in s : TRUE] + iter[s \ {CHOOSE x \in s : TRUE}]]
SumOf(f, H) == LET iter == CHOOSE iter : SumSteps(f, H, iter) IN iter[H]

(* A sum of finitely many numbers is a number. *)
LEMMA SumIsInt ==
    ASSUME NEW f, NEW H, IsFiniteSet(H), \A x \in H : f[x] \in Int PROVE SumFunctionOnSet(f, H) \in Int
<1> DEFINE pick == [s \in SUBSET H |-> CHOOSE x \in s : TRUE]
           step == [x \in H |-> [v \in Int |-> f[x] + v]]
<1>1. IsFiniteSet(H) /\ \A x \in H : f[x] \in Int
  OBVIOUS
<1>2. \A s \in SUBSET H : pick[s] = (CHOOSE x \in s : TRUE) /\ (s # {} => pick[s] \in s)
  OBVIOUS
<1>3. \A x \in H, v \in Int : step[x][v] = f[x] + v /\ step[x][v] \in Int
  BY <1>1
<1> HIDE DEF pick, step
<1>4. PICK h \in [SUBSET H -> Int] : \A s \in SUBSET H : h[s] = IF s = {} THEN 0 ELSE step[pick[s]][h[s \ {pick[s]}]]
  <2>1. Steps(H, Int, 0, pick, step)
    BY <1>1, <1>2, <1>3 DEF Steps
  <2>2. PICK h : IsFold(h, H, Int, 0, pick, step)
    BY <2>1, FoldExists
  <2> QED BY <2>2 DEF IsFold
<1>5. SumSteps(f, H, h)
  <2>1. ASSUME NEW s \in SUBSET H, s # {} PROVE h[s] = f[CHOOSE x \in s : TRUE] + h[s \ {CHOOSE x \in s : TRUE}]
    <3>1. pick[s] \in H /\ s \ {pick[s]} \in SUBSET H
      BY <1>2, <2>1
    <3>2. h[s] = f[pick[s]] + h[s \ {pick[s]}]
      BY <1>3, <1>4, <2>1, <3>1
    <3> QED BY <1>2, <3>2
  <2> QED BY <1>4, <2>1 DEF SumSteps
<1> DEFINE iter == CHOOSE iter : SumSteps(f, H, iter)
<1>6. SumSteps(f, H, iter)
  BY <1>5
<1> HIDE DEF iter
<1>7. \A s \in SUBSET H : iter[s] = IF s = {} THEN 0 ELSE f[pick[s]] + iter[s \ {pick[s]}]
  BY <1>2, <1>6 DEF SumSteps
<1> DEFINE B == {s \in SUBSET H : iter[s] \notin Int}
<1>8. B = {}
  <2>1. SUFFICES ASSUME NEW T \in B, \A x \in T : T \ {x} \notin B PROVE FALSE
    <3>1. B \in SUBSET SUBSET H
      OBVIOUS
    <3> HIDE DEF B
    <3> QED BY <1>1, <3>1, SmallestExists
  <2> HIDE DEF B
  <2>2. T \in SUBSET H /\ iter[T] \notin Int /\ \A x \in T : iter[T \ {x}] \in Int
    BY <2>1 DEF B
  <2>3. T # {}
    <3>1. iter[{}] = 0 /\ 0 \in Int
      BY <1>7
    <3> QED BY <2>2, <3>1, Zenon
  <2>4. pick[T] \in T /\ iter[T \ {pick[T]}] \in Int /\ f[pick[T]] \in Int
    BY <1>1, <1>2, <2>2, <2>3
  <2>5. iter[T] = f[pick[T]] + iter[T \ {pick[T]}]
    BY <1>7, <2>2, <2>3
  <2>6. \A x, y \in Int : x + y \in Int
    OBVIOUS
  <2> QED BY <2>2, <2>4, <2>5, <2>6, Zenon
<1> QED BY <1>8 DEF SumOf, iter, SumSteps, SumFunctionOnSet, FoldFunctionOnSet, MapThenFoldSet

(* Distances are numbers. *)
LEMMA ApartIsNat == ASSUME NEW F, NEW G, F \subseteq Faces, G \subseteq Faces PROVE Apart(F, G) \in Nat
<1>1. IsFiniteSet(F) /\ IsFiniteSet(G) /\ \A f \in Faces : Look[f] \in Int
  <2>1. F \in SUBSET Faces /\ G \in SUBSET Faces /\ IsFiniteSet(Faces)
    BY FacesAssumption
  <2> QED BY <2>1, FS_Subset, FacesAssumption
<1>2. /\ Cardinality(F) \in Int /\ SumFunctionOnSet(Look, F) \in Int
      /\ Cardinality(G) \in Int /\ SumFunctionOnSet(Look, G) \in Int
  BY <1>1, FS_CardinalityType, SumIsInt
<1> QED BY <1>2 DEF Apart, Abs
---------------------------------------------------------------------------
(* The grouping of faces.                                                  *)

(* A set of numbers from the smallest to the largest. *)
Ascending(S) == InOrder(S, <)

(* Sorting by number lists every member once. *)
LEMMA AscendingIsSorted ==
    ASSUME NEW S, S \subseteq Nat, IsFiniteSet(S)
    PROVE  /\ Cardinality(S) \in Nat /\ Ascending(S) \in [1..Cardinality(S) -> S]
           /\ \A i, j \in 1..Cardinality(S) : Ascending(S)[i] = Ascending(S)[j] => i = j
           /\ \A x \in S : \E i \in 1..Cardinality(S) : Ascending(S)[i] = x
<1> DEFINE ahead == [q \in S |-> {p \in S : p < q}]
           n == Cardinality(S)
<1>1. \A p, q \in S : (p \in ahead[q] <=> p < q) /\ p \in Nat /\ ahead \in [S -> SUBSET S]
  OBVIOUS
<1>2. /\ n \in Nat
      /\ \A i \in 1..n : \E q \in S : Cardinality(ahead[q]) = i - 1
      /\ \A p, q \in S : Cardinality(ahead[p]) = Cardinality(ahead[q]) => p = q
  <2>1. /\ ahead \in [S -> SUBSET S]
        /\ \A p \in S : p \notin ahead[p]
        /\ \A p, q \in S : p # q => p \in ahead[q] \/ q \in ahead[p]
        /\ \A p, q \in S : p \in ahead[q] => ahead[p] \subseteq ahead[q]
    <3>1. ASSUME NEW p \in S, NEW q \in S, p \in ahead[q], NEW x \in ahead[p] PROVE x \in ahead[q]
      <4>1. x \in S /\ x \in Nat /\ p \in Nat /\ q \in Nat /\ x < p /\ p < q
        BY <1>1, <3>1
      <4> QED BY <4>1
    <3>2. \A p \in S : p \notin ahead[p]
      BY <1>1
    <3>3. \A p, q \in S : p # q => p \in ahead[q] \/ q \in ahead[p]
      BY <1>1
    <3> QED BY <3>1, <3>2, <3>3
  <2> HIDE DEF ahead
  <2> QED BY <2>1, PlacesAreTaken
<1>3. Ascending(S) = [i \in 1..n |-> CHOOSE p \in S : Cardinality(ahead[p]) = i - 1]
  <2>1. \A q \in S : {p \in S : p < q \/ (~(q < p) /\ p < q)} = ahead[q]
    BY <1>1
  <2>2. Ascending(S) = [i \in 1..n |->
            CHOOSE q \in S : Cardinality({p \in S : p < q \/ (~(q < p) /\ p < q)}) = i - 1]
    BY DEF Ascending, InOrder
  <2> HIDE DEF ahead
  <2>3. \A i \in 1..n : (CHOOSE q \in S : Cardinality({p \in S : p < q \/ (~(q < p) /\ p < q)}) = i - 1)
                      = (CHOOSE q \in S : Cardinality(ahead[q]) = i - 1)
    BY <2>1
  <2> QED BY <2>2, <2>3
<1> HIDE DEF ahead
<1>4. \A i \in 1..n : Ascending(S)[i] \in S /\ Cardinality(ahead[Ascending(S)[i]]) = i - 1
  BY <1>2, <1>3
<1>5. ASSUME NEW x \in S PROVE \E i \in 1..n : Ascending(S)[i] = x
  <2>1. IsFiniteSet(ahead[x]) /\ Cardinality(ahead[x]) \in Nat /\ Cardinality(ahead[x]) <= n - 1
    <3>1. ahead[x] \in SUBSET (S \ {x})
      BY <1>1 DEF ahead
    <3>2. IsFiniteSet(S \ {x}) /\ Cardinality(S \ {x}) = n - 1
      BY FS_RemoveElement
    <3> QED BY <3>1, <3>2, FS_Subset, FS_CardinalityType
  <2>2. Cardinality(ahead[x]) + 1 \in 1..n
    BY <1>2, <2>1
  <2>3. Cardinality(ahead[Ascending(S)[Cardinality(ahead[x]) + 1]]) = Cardinality(ahead[x])
    BY <1>4, <2>1, <2>2
  <2> QED BY <1>2, <1>4, <2>2, <2>3
<1>6. ASSUME NEW i \in 1..n, NEW j \in 1..n, Ascending(S)[i] = Ascending(S)[j] PROVE i = j
  <2>1. i - 1 = j - 1
    BY <1>4, <1>6
  <2> QED BY <1>2, <2>1
<1>7. Ascending(S) \in [1..n -> S]
  BY <1>3, <1>4
<1> QED BY <1>2, <1>5, <1>6, <1>7

(* What the groups of S are in: the first faces of chains. *)
Chain(f, S) == ChainOf(f, S, EpsTenths(S))
Firsts(S) == {f \in S : Cardinality(Chain(f, S)) >= MinSamples /\ f = Min(Chain(f, S))}

(* Groups, with its local definitions named. *)
LEMMA GroupsAre == ASSUME NEW S PROVE Groups(S) = [i \in DOMAIN Ascending(Firsts(S)) |-> Chain(Ascending(Firsts(S))[i], S)]
BY DEF Groups, Ascending, InOrder, Firsts, Chain

(* Groups are sets of faces that have nobody in common. *)
LEMMA GroupsAreApart ==
    ASSUME NEW S, S \subseteq Faces
    PROVE  /\ \E n \in Nat : DOMAIN Groups(S) = 1..n
           /\ \A i \in DOMAIN Groups(S) : Groups(S)[i] \subseteq S /\ Groups(S)[i] # {}
           /\ \A i, j \in DOMAIN Groups(S) : i # j => Groups(S)[i] \cap Groups(S)[j] = {}
<1> DEFINE first == Ascending(Firsts(S))
           n == Cardinality(Firsts(S))
<1>1. Firsts(S) \subseteq Nat /\ IsFiniteSet(Firsts(S)) /\ S \subseteq Nat
  <2>1. Firsts(S) \in SUBSET Faces /\ IsFiniteSet(Faces) /\ Faces \subseteq Nat
    BY FacesAssumption DEF Firsts
  <2> QED BY <2>1, FS_Subset
<1>2. /\ n \in Nat /\ first \in [1..n -> Firsts(S)]
      /\ \A i, j \in 1..n : first[i] = first[j] => i = j
  BY <1>1, AscendingIsSorted
<1>3. Groups(S) = [i \in 1..n |-> Chain(first[i], S)]
  BY <1>2, GroupsAre
<1> HIDE DEF first, n
<1>4. \A i \in 1..n : Groups(S)[i] = Chain(first[i], S) /\ first[i] \in S /\ first[i] = Min(Chain(first[i], S))
  BY <1>2, <1>3 DEF Firsts
<1>5. \A f \in S : f \in Chain(f, S) /\ Chain(f, S) \subseteq S
  <2> TAKE f \in S
  <2>1. Look[f] \in Int /\ Min({Look[f], Look[f]}) = Look[f] /\ Max({Look[f], Look[f]}) = Look[f]
    BY FacesAssumption DEF Min, Max
  <2>2. \A h \in S : Look[h] \in Int
    BY FacesAssumption
  <2> QED BY <2>1, <2>2 DEF Chain, ChainOf
<1>6. \A f, g, h \in S : g \in Chain(f, S) /\ h \in Chain(f, S) => h \in Chain(g, S)
  <2> TAKE f \in S, g \in S, h \in S
  <2> HAVE g \in Chain(f, S) /\ h \in Chain(f, S)
  <2> DEFINE Linked(k) == \E m \in S : Look[m] > Look[k] /\ 10 * (Look[m] - Look[k]) <= EpsTenths(S)
  <2>1. \A x, y \in S : y \in Chain(x, S) <=>
            \A k \in S : Look[k] >= Min({Look[x], Look[y]}) /\ Look[k] < Max({Look[x], Look[y]}) => Linked(k)
    BY DEF Chain, ChainOf
  <2> HIDE DEF Linked
  <2>2. \A x, y \in S : Look[x] \in Int /\ Look[y] \in Int
            /\ Min({Look[x], Look[y]}) = (IF Look[x] <= Look[y] THEN Look[x] ELSE Look[y])
            /\ Max({Look[x], Look[y]}) = (IF Look[x] <= Look[y] THEN Look[y] ELSE Look[x])
    <3> TAKE x \in S, y \in S
    <3>1. Look[x] \in Int /\ Look[y] \in Int
      BY FacesAssumption
    <3> QED BY <3>1 DEF Min, Max
  <2>3. ASSUME NEW k \in S, Look[k] >= Min({Look[g], Look[h]}), Look[k] < Max({Look[g], Look[h]})
        PROVE  \/ Look[k] >= Min({Look[f], Look[g]}) /\ Look[k] < Max({Look[f], Look[g]})
               \/ Look[k] >= Min({Look[f], Look[h]}) /\ Look[k] < Max({Look[f], Look[h]})
    <3> DEFINE a == Look[f]
               b == Look[g]
               c == Look[h]
               d == Look[k]
    <3>1. /\ Min({b, c}) = (IF b <= c THEN b ELSE c) /\ Max({b, c}) = (IF b <= c THEN c ELSE b)
          /\ Min({a, b}) = (IF a <= b THEN a ELSE b) /\ Max({a, b}) = (IF a <= b THEN b ELSE a)
          /\ Min({a, c}) = (IF a <= c THEN a ELSE c) /\ Max({a, c}) = (IF a <= c THEN c ELSE a)
          /\ a \in Int /\ b \in Int /\ c \in Int /\ d \in Int
      BY <2>2
    <3>2. d >= Min({b, c}) /\ d < Max({b, c})
      BY <2>3
    <3> HIDE DEF a, b, c, d
    <3>3. (d >= Min({a, b}) /\ d < Max({a, b})) \/ (d >= Min({a, c}) /\ d < Max({a, c}))
      BY ONLY <3>1, <3>2
    <3> QED BY <3>3 DEF a, b, c, d
  <2> QED BY <2>1, <2>3
<1>7. ASSUME NEW i \in 1..n, NEW j \in 1..n, Groups(S)[i] \cap Groups(S)[j] # {} PROVE i = j
  <2>1. PICK x \in S : x \in Chain(first[i], S) /\ x \in Chain(first[j], S)
    BY <1>4, <1>5, <1>7
  <2>2. \A f, g \in S : g \in Chain(f, S) => f \in Chain(g, S)
    BY <1>5, <1>6
  <2>3. Chain(first[i], S) = Chain(first[j], S)
    BY <1>4, <1>5, <1>6, <2>1, <2>2
  <2> QED BY <1>2, <1>4, <2>3
<1> QED BY <1>2, <1>3, <1>4, <1>5, <1>7
(* A vote ends with a name that somebody has, if anybody has one. *)
Named(F, nameOf) == {f \in F : nameOf[f] # None}
Electable(F, nameOf) == IF Named(F, nameOf) = {} THEN {None} ELSE {nameOf[f] : f \in Named(F, nameOf)}

(* Who wins the vote was electable. *)
LEMMA VotesElect == ASSUME NEW F, F \subseteq Faces, NEW nameOf PROVE MostCommon(F, nameOf) \in Electable(F, nameOf)
<1> DEFINE named == {f \in F : nameOf[f] # None}
           votes(n) == {f \in named : nameOf[f] = n}
           running == {nameOf[f] : f \in named}
           Beats(n, m) ==
               \/ Cardinality(votes(n)) > Cardinality(votes(m))
               \/ /\ Cardinality(votes(n)) = Cardinality(votes(m))
                  /\ Min(votes(n)) <= Min(votes(m))
<1>1. MostCommon(F, nameOf) = IF named = {} THEN None ELSE CHOOSE n \in running : \A m \in running : Beats(n, m)
  BY DEF MostCommon
<1>2. ASSUME named # {} PROVE \E n \in running : \A m \in running : Beats(n, m)
  <2> DEFINE w == [n \in running |-> Cardinality(votes(n))]
             r == [n \in running |-> Min(votes(n))]
  <2>1. named \in SUBSET Faces /\ IsFiniteSet(named) /\ Faces \subseteq Nat
    <3>1. named \in SUBSET Faces /\ IsFiniteSet(Faces) /\ Faces \subseteq Nat
      BY FacesAssumption
    <3> HIDE DEF named
    <3> QED BY <3>1, FS_Subset
  <2>2. ASSUME NEW n \in running PROVE votes(n) # {} /\ votes(n) \subseteq Nat /\ Cardinality(votes(n)) \in Nat /\ Min(votes(n)) \in Nat
    <3>1. votes(n) # {} /\ votes(n) \subseteq Nat /\ votes(n) \in SUBSET named
      BY <2>1
    <3> HIDE DEF votes, named
    <3>2. Cardinality(votes(n)) \in Nat
      BY <2>1, <3>1, FS_Subset, FS_CardinalityType
    <3>3. Min(votes(n)) \in votes(n)
      BY <3>1, MinIsLeast
    <3> QED BY <3>1, <3>2, <3>3
  <2>3. IsFiniteSet(running) /\ running # {}
    <3> DEFINE f == [x \in named |-> nameOf[x]]
    <3>1. f \in Surjection(named, running)
      BY DEF Surjection
    <3>2. running # {}
      BY <1>2
    <3> HIDE DEF f, running, named
    <3> QED BY <2>1, <3>1, <3>2, FS_Surjection
  <2>4. w \in [running -> Nat] /\ r \in [running -> Nat]
    BY <2>2
  <2>5. PICK n \in running : \A m \in running : w[n] > w[m] \/ (w[n] = w[m] /\ r[n] <= r[m])
    <3> HIDE DEF running, w, r
    <3> QED BY <2>3, <2>4, BestExists
  <2>6. \A m \in running : w[m] = Cardinality(votes(m)) /\ r[m] = Min(votes(m))
    OBVIOUS
  <2> HIDE DEF w, r, running, votes
  <2> QED BY <2>5, <2>6
<1> HIDE DEF Beats
<1> QED BY <1>1, <1>2 DEF Electable, Named

---------------------------------------------------------------------------
(* The people that are found.                                              *)

Heads(S) == {i \in DOMAIN Groups(S) : HeadOf(Groups(S))[i] = i}
Together(h, S) == UNION {Groups(S)[i] : i \in {j \in DOMAIN Groups(S) : HeadOf(Groups(S))[j] = h}}
GroupFor(S) == [f \in UNION Range(Groups(S)) |-> CHOOSE F \in Range(Groups(S)) : f \in F]
GroupName(S, nameOf) == [f \in DOMAIN GroupFor(S) |-> MostCommon(GroupFor(S)[f], nameOf)]
PersonOf(h, S, nameOf) ==
    [faces |-> OnePerImage(Together(h, S), GroupFor(S)),
     name |-> MostCommon(Together(h, S), GroupName(S, nameOf))]

(* PeopleAmong, with its local definitions named. *)
LEMMA PeopleAre ==
    ASSUME NEW S, NEW nameOf
    PROVE  PeopleAmong(S, nameOf) = {PersonOf(h, S \cap Usable, nameOf) : h \in Heads(S \cap Usable)}
BY DEF PeopleAmong, MergedPeople, PeopleFrom, PersonOf, Heads, Together, GroupFor, GroupName

(* Every grouped face finds its own group. *)
LEMMA GroupForIs ==
    ASSUME NEW S, S \subseteq Faces
    PROVE  /\ DOMAIN GroupFor(S) = UNION {Groups(S)[i] : i \in DOMAIN Groups(S)}
           /\ \A i \in DOMAIN Groups(S) : \A f \in Groups(S)[i] : f \in DOMAIN GroupFor(S) /\ GroupFor(S)[f] = Groups(S)[i]
<1>1. Range(Groups(S)) = {Groups(S)[i] : i \in DOMAIN Groups(S)}
  BY DEF Range
<1>2. DOMAIN GroupFor(S) = UNION {Groups(S)[i] : i \in DOMAIN Groups(S)}
  BY <1>1 DEF GroupFor
<1>3. ASSUME NEW i \in DOMAIN Groups(S), NEW f \in Groups(S)[i]
      PROVE  f \in DOMAIN GroupFor(S) /\ GroupFor(S)[f] = Groups(S)[i]
  <2>1. f \in UNION Range(Groups(S))
    BY <1>1
  <2>2. GroupFor(S)[f] \in Range(Groups(S)) /\ f \in GroupFor(S)[f]
    BY <2>1 DEF GroupFor
  <2>3. PICK j \in DOMAIN Groups(S) : GroupFor(S)[f] = Groups(S)[j]
    BY <1>1, <2>2
  <2>4. i = j
    BY <2>2, <2>3, GroupsAreApart
  <2> QED BY <2>1, <2>3, <2>4 DEF GroupFor
<1> QED BY <1>2, <1>3

(* Who is put together has nobody in common with others, and the name      *)
(* that they get is one of theirs, if anybody has one.                     *)
LEMMA TogetherIs ==
    ASSUME NEW S, S \subseteq Faces, NEW nameOf, NEW h \in Heads(S)
    PROVE  /\ Together(h, S) \subseteq S /\ Together(h, S) # {}
           /\ \A k \in Heads(S) : k # h => Together(h, S) \cap Together(k, S) = {}
           /\ PersonOf(h, S, nameOf).name \in Electable(Together(h, S), nameOf)
<1>1. Together(h, S) \subseteq S
  BY GroupsAreApart DEF Together
<1>2. Together(h, S) # {}
  BY GroupsAreApart DEF Together, Heads
<1>3. ASSUME NEW k \in Heads(S), k # h PROVE Together(h, S) \cap Together(k, S) = {}
  <2> SUFFICES ASSUME NEW f \in Together(h, S), f \in Together(k, S) PROVE FALSE
    OBVIOUS
  <2>1. PICK i \in DOMAIN Groups(S) : HeadOf(Groups(S))[i] = h /\ f \in Groups(S)[i]
    BY DEF Together
  <2>2. PICK j \in DOMAIN Groups(S) : HeadOf(Groups(S))[j] = k /\ f \in Groups(S)[j]
    BY DEF Together
  <2> QED BY <1>3, <2>1, <2>2, GroupsAreApart
<1>4. ASSUME NEW f \in Together(h, S)
      PROVE  \E i \in DOMAIN Groups(S) : /\ f \in Groups(S)[i] /\ Groups(S)[i] \subseteq Together(h, S)
                                         /\ GroupName(S, nameOf)[f] = MostCommon(Groups(S)[i], nameOf)
  <2>1. PICK i \in DOMAIN Groups(S) : HeadOf(Groups(S))[i] = h /\ f \in Groups(S)[i]
    BY DEF Together
  <2>2. Groups(S)[i] \subseteq Together(h, S)
    BY <2>1 DEF Together
  <2>3. GroupName(S, nameOf)[f] = MostCommon(Groups(S)[i], nameOf)
    BY <2>1, GroupForIs DEF GroupName
  <2> QED BY <2>1, <2>2, <2>3
<1> DEFINE M == Together(h, S)
           voted == GroupName(S, nameOf)
           named == {f \in M : nameOf[f] # None}
           voters == {f \in M : voted[f] # None}
<1>5. \A f \in M : voted[f] # None => \E g \in named : voted[f] = nameOf[g]
  <2> TAKE f \in M
  <2>1. PICK i \in DOMAIN Groups(S) : /\ f \in Groups(S)[i] /\ Groups(S)[i] \subseteq M
                                      /\ voted[f] = MostCommon(Groups(S)[i], nameOf)
    BY <1>4
  <2>2. Groups(S)[i] \subseteq Faces
    BY GroupsAreApart
  <2> QED BY <2>1, <2>2, VotesElect DEF Electable, Named
<1>6. \A f \in M : nameOf[f] # None => voted[f] # None
  <2> TAKE f \in M
  <2>1. PICK i \in DOMAIN Groups(S) : /\ f \in Groups(S)[i] /\ Groups(S)[i] \subseteq M
                                      /\ voted[f] = MostCommon(Groups(S)[i], nameOf)
    BY <1>4
  <2>2. Groups(S)[i] \subseteq Faces
    BY GroupsAreApart
  <2> QED BY <2>1, <2>2, VotesElect DEF Electable, Named
<1>7. PersonOf(h, S, nameOf).name = MostCommon(M, voted)
  BY DEF PersonOf
<1>8. MostCommon(M, voted) \in IF voters = {} THEN {None} ELSE {voted[f] : f \in voters}
  BY <1>1, VotesElect DEF Electable, Named
<1> HIDE DEF voted
<1>9. MostCommon(M, voted) \in IF named = {} THEN {None} ELSE {nameOf[f] : f \in named}
  BY <1>5, <1>6, <1>8
<1> QED BY <1>1, <1>2, <1>3, <1>7, <1>9 DEF Electable, Named
(* One face of each image stays, and so somebody does. *)
LEMMA OnePerImageStays ==
    ASSUME NEW S, S \subseteq Faces, NEW h \in Heads(S)
    PROVE  LET kept == OnePerImage(Together(h, S), GroupFor(S))
           IN  /\ kept \subseteq Together(h, S) /\ kept # {}
               /\ \A f, g \in kept : f # g => ImageOf[f] # ImageOf[g]
<1> DEFINE M == Together(h, S)
           groupOf == GroupFor(S)
           far == [f \in M |-> Apart({f}, M)]
           head == [f \in M |-> Min(groupOf[f])]
           Earlier(f, g) == Min(groupOf[f]) < Min(groupOf[g]) \/ (Min(groupOf[f]) = Min(groupOf[g]) /\ f < g)
           Beats(f, g) == Apart({f}, M) < Apart({g}, M) \/ (Apart({f}, M) = Apart({g}, M) /\ Earlier(f, g))
           kept == {f \in M : \A g \in M : g # f /\ ImageOf[g] = ImageOf[f] => Beats(f, g)}
<1>1. OnePerImage(M, groupOf) = kept
  BY DEF OnePerImage
<1>2. M \subseteq Faces /\ M # {} /\ Faces \subseteq Nat
  BY TogetherIs, FacesAssumption
<1>3. \A f \in M : Apart({f}, M) \in Nat
  BY <1>2, ApartIsNat
<1>4. \A f \in M : Min(groupOf[f]) \in Nat
  <2> TAKE f \in M
  <2>1. PICK i \in DOMAIN Groups(S) : f \in Groups(S)[i]
    BY DEF Together
  <2>2. Groups(S)[i] # {} /\ Groups(S)[i] \subseteq Nat /\ groupOf[f] = Groups(S)[i]
    BY <1>2, <2>1, GroupsAreApart, GroupForIs
  <2> QED BY <2>2, MinIsLeast
<1>5. \A f \in M : far[f] = Apart({f}, M) /\ far[f] \in Nat /\ head[f] = Min(groupOf[f]) /\ head[f] \in Nat /\ f \in Nat
  BY <1>2, <1>3, <1>4
<1>6. \A f, g \in M : Beats(f, g) <=> far[f] < far[g] \/ (far[f] = far[g] /\ (head[f] < head[g] \/ (head[f] = head[g] /\ f < g)))
  BY <1>5
<1> HIDE DEF far, head, M, groupOf, Beats
<1>7. ASSUME NEW f \in kept, NEW g \in kept, f # g PROVE ImageOf[f] # ImageOf[g]
  <2>1. SUFFICES ASSUME ImageOf[f] = ImageOf[g] PROVE FALSE
    OBVIOUS
  <2>2. Beats(f, g) /\ Beats(g, f) /\ f \in M /\ g \in M
    BY <1>7, <2>1
  <2>3. far[f] \in Nat /\ far[g] \in Nat /\ head[f] \in Nat /\ head[g] \in Nat /\ f \in Nat /\ g \in Nat
    BY <1>5, <2>2
  <2>4. /\ far[f] < far[g] \/ (far[f] = far[g] /\ (head[f] < head[g] \/ (head[f] = head[g] /\ f < g)))
        /\ far[g] < far[f] \/ (far[g] = far[f] /\ (head[g] < head[f] \/ (head[g] = head[f] /\ g < f)))
    BY <1>6, <2>2
  <2> QED BY ONLY <2>3, <2>4
<1>8. kept # {}
  <2> DEFINE A == {far[f] : f \in M}
  <2>1. PICK a \in A : \A b \in A : a <= b
    <3>1. A \subseteq Nat /\ A # {}
      BY <1>2, <1>5
    <3> HIDE DEF A
    <3> QED BY <3>1, LeastExists
  <2> DEFINE B == {head[f] : f \in {g \in M : far[g] = a}}
  <2>2. PICK b \in B : \A c \in B : b <= c
    <3>1. B \subseteq Nat /\ B # {}
      BY <1>5
    <3> HIDE DEF B
    <3> QED BY <3>1, LeastExists
  <2> DEFINE C == {f \in M : far[f] = a /\ head[f] = b}
  <2>3. PICK f \in C : \A g \in C : f <= g
    <3>1. C \subseteq Nat /\ C # {}
      BY <1>5
    <3> HIDE DEF C
    <3> QED BY <3>1, LeastExists
  <2>4. ASSUME NEW g \in M, g # f PROVE Beats(f, g)
    <3>1. far[f] = a /\ head[f] = b /\ f \in M
      BY <2>3
    <3>2. a <= far[g]
      BY <2>1
    <3>3. far[g] = a => b <= head[g]
      BY <2>2
    <3>4. far[g] = a /\ head[g] = b => f <= g
      BY <2>3
    <3>5. far[f] \in Nat /\ far[g] \in Nat /\ head[f] \in Nat /\ head[g] \in Nat /\ f \in Nat /\ g \in Nat
      BY <1>5, <3>1
    <3>6. far[f] < far[g] \/ (far[f] = far[g] /\ (head[f] < head[g] \/ (head[f] = head[g] /\ f < g)))
      BY ONLY <2>4, <3>1, <3>2, <3>3, <3>4, <3>5
    <3> QED BY <1>6, <3>1, <3>6
  <2>5. f \in kept
    BY <2>3, <2>4
  <2> QED BY <2>5
<1> QED BY <1>1, <1>7, <1>8 DEF M, groupOf

(* The people among S: finitely many, each with faces of different images, *)
(* nobody in two, and named as one of those who were put together.         *)
LEMMA PeopleFound ==
    ASSUME NEW S, S \subseteq Faces, NEW nameOf
    PROVE  /\ IsFiniteSet(PeopleAmong(S, nameOf))
           /\ \A P \in PeopleAmong(S, nameOf) :
                 /\ P.faces \subseteq S /\ P.faces # {}
                 /\ \A f, g \in P.faces : f # g => ImageOf[f] # ImageOf[g]
           /\ \A P, Q \in PeopleAmong(S, nameOf) : P # Q => P.faces \cap Q.faces = {}
<1> DEFINE U == S \cap Usable
           person == [h \in Heads(U) |-> PersonOf(h, U, nameOf)]
<1>1. U \subseteq Faces
  OBVIOUS
<1> HIDE DEF U
<1>2. IsFiniteSet(Heads(U))
  <2>1. PICK n \in Nat : DOMAIN Groups(U) = 1..n
    BY <1>1, GroupsAreApart
  <2>2. IsFiniteSet(1..n) /\ Heads(U) \in SUBSET (1..n)
    BY <2>1, FS_Interval DEF Heads
  <2> QED BY <2>2, FS_Subset
<1>3. PeopleAmong(S, nameOf) = {PersonOf(h, U, nameOf) : h \in Heads(U)}
  BY PeopleAre DEF U
<1>4. IsFiniteSet(PeopleAmong(S, nameOf))
  <2>1. person \in Surjection(Heads(U), PeopleAmong(S, nameOf))
    BY <1>3 DEF Surjection
  <2> HIDE DEF person
  <2> QED BY <1>2, <2>1, FS_Surjection
<1>5. ASSUME NEW h \in Heads(U)
      PROVE  LET P == PersonOf(h, U, nameOf)
             IN  /\ P.faces \subseteq Together(h, U) /\ P.faces # {}
                 /\ \A f, g \in P.faces : f # g => ImageOf[f] # ImageOf[g]
  BY <1>1, OnePerImageStays DEF PersonOf
<1>6. \A h \in Heads(U) : Together(h, U) \subseteq U /\ \A k \in Heads(U) : k # h => Together(h, U) \cap Together(k, U) = {}
  BY <1>1, TogetherIs
<1>7. U \subseteq S
  BY DEF U
<1>8. ASSUME NEW P \in PeopleAmong(S, nameOf), NEW Q \in PeopleAmong(S, nameOf), P # Q
      PROVE  P.faces \cap Q.faces = {}
  <2>1. PICK h \in Heads(U) : P = PersonOf(h, U, nameOf)
    BY <1>3
  <2>2. PICK k \in Heads(U) : Q = PersonOf(k, U, nameOf)
    BY <1>3
  <2>3. h # k
    BY <1>8, <2>1, <2>2
  <2> QED BY <1>5, <1>6, <2>1, <2>2, <2>3
<1>9. ASSUME NEW P \in PeopleAmong(S, nameOf)
      PROVE  /\ P.faces \subseteq S /\ P.faces # {}
             /\ \A f, g \in P.faces : f # g => ImageOf[f] # ImageOf[g]
  <2>1. PICK h \in Heads(U) : P = PersonOf(h, U, nameOf)
    BY <1>3
  <2> QED BY <1>5, <1>6, <1>7, <2>1
<1> QED BY <1>4, <1>8, <1>9
(* A person's name is that of one who was put together with them, if any   *)
(* of those has one, and these are in no other person.                     *)
LEMMA NamesFound ==
    ASSUME NEW S, S \subseteq Faces, NEW nameOf, NEW P \in PeopleAmong(S, nameOf)
    PROVE  \E M \in SUBSET S :
               /\ P.faces \subseteq M
               /\ \A Q \in PeopleAmong(S, nameOf) : Q # P => Q.faces \cap M = {}
               /\ P.name \in Electable(M, nameOf)
<1> DEFINE U == S \cap Usable
<1>1. U \subseteq Faces
  OBVIOUS
<1> HIDE DEF U
<1>2. PeopleAmong(S, nameOf) = {PersonOf(h, U, nameOf) : h \in Heads(U)}
  BY PeopleAre DEF U
<1>3. PICK h \in Heads(U) : P = PersonOf(h, U, nameOf)
  BY <1>2
<1>4. Together(h, U) \in SUBSET S
  <2>1. U \subseteq S
    BY DEF U
  <2> QED BY <1>1, <2>1, TogetherIs
<1>5. \A k \in Heads(U) : PersonOf(k, U, nameOf).faces \subseteq Together(k, U)
  BY <1>1, OnePerImageStays DEF PersonOf
<1>6. ASSUME NEW Q \in PeopleAmong(S, nameOf), Q # P PROVE Q.faces \cap Together(h, U) = {}
  <2>1. PICK k \in Heads(U) : Q = PersonOf(k, U, nameOf)
    BY <1>2
  <2>2. k # h
    BY <1>3, <1>6, <2>1
  <2> QED BY <1>1, <1>5, <2>1, <2>2, TogetherIs
<1>7. P.name \in Electable(Together(h, U), nameOf)
  BY <1>1, <1>3, TogetherIs
<1> QED BY <1>3, <1>4, <1>5, <1>6, <1>7

---------------------------------------------------------------------------
(* The assignment of new faces.                                            *)

(* Fractions are ordered: a/n <= b/m and b/m <= c/k make a/n <= c/k. *)
LEMMA Fractions ==
    ASSUME NEW a \in Nat, NEW b \in Nat, NEW c \in Nat,
           NEW n \in Nat \ {0}, NEW m \in Nat \ {0}, NEW k \in Nat \ {0},
           a * m <= b * n, b * k <= c * m
    PROVE  a * k <= c * n
<1>1. (a * m) * k <= (b * n) * k /\ (b * k) * n <= (c * m) * n
  OBVIOUS
<1>2. (a * m) * k = (a * k) * m /\ (b * n) * k = (b * k) * n /\ (c * m) * n = (c * n) * m
  OBVIOUS
<1>3. (a * k) * m <= (c * n) * m
  BY <1>1, <1>2
<1>4. \A x, y \in Nat : x * m <= y * m => x <= y
  OBVIOUS
<1> QED BY <1>3, <1>4

(* Of finitely many fractions one is the least. *)
LEMMA NearestExists ==
    ASSUME NEW C, IsFiniteSet(C), C # {}, NEW a \in [C -> Nat], NEW n \in [C -> Nat \ {0}]
    PROVE  \E c \in C : \A d \in C : a[c] * n[d] <= a[d] * n[c]
<1> DEFINE Nearer(c, d) == a[c] * n[d] <= a[d] * n[c]
           HasNearest(T) == \E c \in T : \A d \in T : Nearer(c, d)
           B == {T \in SUBSET C : T # {} /\ ~HasNearest(T)}
<1>1. \A c, d, e \in C : Nearer(c, c) /\ (Nearer(c, d) \/ Nearer(d, c)) /\ (Nearer(c, d) /\ Nearer(d, e) => Nearer(c, e))
  <2> TAKE c \in C, d \in C, e \in C
  <2>1. a[c] * n[d] \in Nat /\ a[d] * n[c] \in Nat /\ a[c] * n[c] \in Nat
    OBVIOUS
  <2>2. Nearer(c, d) /\ Nearer(d, e) => Nearer(c, e)
    BY Fractions
  <2> QED BY <2>1, <2>2
<1> HIDE DEF Nearer
<1>2. ASSUME B # {} PROVE FALSE
  <2>1. B \in SUBSET SUBSET C
    OBVIOUS
  <2>2. PICK T \in B : \A x \in T : T \ {x} \notin B
    <3> HIDE DEF B
    <3> QED BY <1>2, <2>1, SmallestExists
  <2>3. PICK x \in T : TRUE
    BY <2>2
  <2>4. T \ {x} = {} \/ HasNearest(T \ {x})
    BY <2>2
  <2>5. CASE T \ {x} = {}
    BY <1>1, <2>2, <2>3, <2>5
  <2>6. CASE HasNearest(T \ {x})
    <3>1. PICK c \in T \ {x} : \A d \in T \ {x} : Nearer(c, d)
      BY <2>6
    <3> QED BY <1>1, <2>2, <2>3, <3>1
  <2> QED BY <2>4, <2>5, <2>6
<1>3. HasNearest(C)
  BY <1>2
<1> QED BY <1>3 DEF Nearer

(* Assign, as FaceGroups folds it over the new faces in their order. *)
NearestTo(f, means) ==
    CHOOSE c \in DOMAIN means : \A d \in DOMAIN means :
        Apart({f}, means[c]) * Cardinality(means[d]) <= Apart({f}, means[d]) * Cardinality(means[c])
AssignOne(to, f, means, occupied) ==
    IF /\ Within(AssignDistance, {f}, means[NearestTo(f, means)])
       /\ <<NearestTo(f, means), ImageOf[f]>> \notin occupied
       /\ \A g \in DOMAIN to : to[g] = NearestTo(f, means) => ImageOf[g] # ImageOf[f]
    THEN [g \in DOMAIN to \cup {f} |-> IF g = f THEN NearestTo(f, means) ELSE to[g]]
    ELSE to
AssignSteps(iter, seq, means, occupied) ==
    iter = [s \in SUBSET DOMAIN seq |->
              IF s = {} THEN <<>> ELSE AssignOne(iter[s \ {Max(s)}], seq[Max(s)], means, occupied)]
AssignAll(seq, means, occupied) ==
    LET iter == CHOOSE iter : AssignSteps(iter, seq, means, occupied) IN iter[DOMAIN seq]

(* Assign, with the community module's fold spelt out. *)
LEMMA AssignIs ==
    ASSUME NEW F, NEW means, NEW occupied
    PROVE  Assign(F, means, occupied) = AssignAll(Ascending(F \cap Usable), means, occupied)
BY DEF Assign, FoldLeft, MapThenFoldSet, AssignAll, AssignSteps, AssignOne, NearestTo, Ascending, InOrder

(* Assignments that put no two faces of an image into one cluster, not     *)
(* even together with those that are there.                                *)
Spread(C, occupied) ==
    {to \in UNION {[D -> C] : D \in SUBSET Faces} :
        \A f \in DOMAIN to :
            /\ <<to[f], ImageOf[f]>> \notin occupied
            /\ \A g \in DOMAIN to : g # f /\ ImageOf[g] = ImageOf[f] => to[g] # to[f]}

(* Every cluster's faces. *)
MeansOK(means) ==
    /\ IsFiniteSet(DOMAIN means)
    /\ \A c \in DOMAIN means : means[c] \subseteq Faces /\ means[c] # {}

(* A face has a nearest cluster. *)
LEMMA NearestIs ==
    ASSUME NEW means, MeansOK(means), DOMAIN means # {}, NEW f \in Faces
    PROVE  NearestTo(f, means) \in DOMAIN means
<1> DEFINE a == [c \in DOMAIN means |-> Apart({f}, means[c])]
           n == [c \in DOMAIN means |-> Cardinality(means[c])]
<1>1. ASSUME NEW c \in DOMAIN means PROVE Apart({f}, means[c]) \in Nat /\ Cardinality(means[c]) \in Nat \ {0}
  <2>1. means[c] \in SUBSET Faces /\ means[c] # {} /\ IsFiniteSet(Faces)
    BY FacesAssumption DEF MeansOK
  <2>2. IsFiniteSet(means[c])
    BY <2>1, FS_Subset
  <2> QED BY <2>1, <2>2, ApartIsNat, FS_CardinalityType, FS_EmptySet
<1>2. a \in [DOMAIN means -> Nat] /\ n \in [DOMAIN means -> Nat \ {0}]
  BY <1>1
<1>3. IsFiniteSet(DOMAIN means)
  BY DEF MeansOK
<1>4. \A c \in DOMAIN means : a[c] = Apart({f}, means[c]) /\ n[c] = Cardinality(means[c])
  OBVIOUS
<1> HIDE DEF a, n
<1>5. \E c \in DOMAIN means : \A d \in DOMAIN means : a[c] * n[d] <= a[d] * n[c]
  BY <1>2, <1>3, NearestExists
<1>6. \E c \in DOMAIN means : \A d \in DOMAIN means :
          Apart({f}, means[c]) * Cardinality(means[d]) <= Apart({f}, means[d]) * Cardinality(means[c])
  BY <1>4, <1>5
<1> QED BY <1>6 DEF NearestTo

(* Assigning one more face keeps images spread. *)
LEMMA AssigningOne ==
    ASSUME NEW means, MeansOK(means), DOMAIN means # {}, NEW occupied, NEW f \in Faces,
           NEW to \in Spread(DOMAIN means, occupied)
    PROVE  AssignOne(to, f, means, occupied) \in Spread(DOMAIN means, occupied)
<1> DEFINE c == NearestTo(f, means)
           new == [g \in DOMAIN to \cup {f} |-> IF g = f THEN c ELSE to[g]]
<1>1. c \in DOMAIN means
  BY NearestIs
<1> HIDE DEF c
<1>2. CASE /\ <<c, ImageOf[f]>> \notin occupied
           /\ \A g \in DOMAIN to : to[g] = c => ImageOf[g] # ImageOf[f]
           /\ AssignOne(to, f, means, occupied) = new
  <2>1. PICK D \in SUBSET Faces : to \in [D -> DOMAIN means]
    BY DEF Spread
  <2>2. new \in [D \cup {f} -> DOMAIN means] /\ D \cup {f} \in SUBSET Faces
    BY <1>1, <2>1
  <2>3. \A g \in DOMAIN new :
            /\ <<new[g], ImageOf[g]>> \notin occupied
            /\ \A h \in DOMAIN new : h # g /\ ImageOf[h] = ImageOf[g] => new[h] # new[g]
    BY <1>2, <2>1 DEF Spread
  <2> HIDE DEF new
  <2> QED BY <1>2, <2>2, <2>3 DEF Spread
<1>3. CASE AssignOne(to, f, means, occupied) = to
  BY <1>3
<1> QED BY <1>2, <1>3 DEF AssignOne, c

(* So does assigning all. *)
LEMMA AssignSpreads ==
    ASSUME NEW F, F \subseteq Faces, NEW means, MeansOK(means), DOMAIN means # {}, NEW occupied
    PROVE  Assign(F, means, occupied) \in Spread(DOMAIN means, occupied)
<1> DEFINE seq == Ascending(F \cap Usable)
           S == DOMAIN seq
           V == Spread(DOMAIN means, occupied)
           pick == [s \in SUBSET S |-> Max(s)]
           step == [i \in S |-> [to \in V |-> AssignOne(to, seq[i], means, occupied)]]
<1>1. /\ \E n \in Nat : S = 1..n
      /\ \A i \in S : seq[i] \in Faces
  <2>1. F \cap Usable \in SUBSET Faces /\ IsFiniteSet(Faces) /\ Faces \subseteq Nat
    BY FacesAssumption
  <2>2. IsFiniteSet(F \cap Usable) /\ F \cap Usable \subseteq Nat
    BY <2>1, FS_Subset
  <2>3. Cardinality(F \cap Usable) \in Nat /\ seq \in [1..Cardinality(F \cap Usable) -> F \cap Usable]
    BY <2>2, AscendingIsSorted
  <2> HIDE DEF seq
  <2> QED BY <2>3
<1> HIDE DEF seq
<1>2. IsFiniteSet(S) /\ S \subseteq Nat
  BY <1>1, FS_Interval
<1>3. <<>> \in V
  <2>1. <<>> \in [{} -> DOMAIN means]
    OBVIOUS
  <2> QED BY <2>1 DEF Spread
<1>4. \A s \in SUBSET S : pick[s] = Max(s) /\ (s # {} => Max(s) \in s)
  <2> TAKE s \in SUBSET S
  <2>1. IsFiniteSet(s) /\ s \subseteq Nat
    BY <1>2, FS_Subset
  <2> QED BY <2>1, MaxIsGreatest
<1>5. \A i \in S, to \in V : step[i][to] = AssignOne(to, seq[i], means, occupied) /\ step[i][to] \in V
  BY <1>1, AssigningOne
<1> HIDE DEF pick, step, S, V
<1>6. PICK h : IsFold(h, S, V, <<>>, pick, step)
  <2>1. Steps(S, V, <<>>, pick, step)
    BY <1>2, <1>3, <1>4, <1>5 DEF Steps
  <2> QED BY <2>1, FoldExists
<1>7. AssignSteps(h, seq, means, occupied)
  <2>1. ASSUME NEW s \in SUBSET S, s # {} PROVE h[s] = AssignOne(h[s \ {Max(s)}], seq[Max(s)], means, occupied)
    <3>1. Max(s) \in S /\ s \ {Max(s)} \in SUBSET S /\ pick[s] = Max(s)
      BY <1>4, <2>1
    <3>2. h[s \ {Max(s)}] \in V
      BY <1>6, <3>1 DEF IsFold
    <3> QED BY <1>5, <1>6, <2>1, <3>1, <3>2 DEF IsFold
  <2>2. h \in [SUBSET S -> V] /\ h[{}] = <<>>
    BY <1>6 DEF IsFold
  <2> QED BY <2>1, <2>2 DEF AssignSteps, S
<1> DEFINE iter == CHOOSE iter : AssignSteps(iter, seq, means, occupied)
<1>8. AssignSteps(iter, seq, means, occupied)
  BY <1>7
<1> HIDE DEF iter
<1>9. \A s \in SUBSET S : iter[s] = IF s = {} THEN <<>> ELSE AssignOne(iter[s \ {Max(s)}], seq[Max(s)], means, occupied)
  BY <1>8 DEF AssignSteps, S
<1> DEFINE B == {s \in SUBSET S : iter[s] \notin V}
<1>10. B = {}
  <2>1. SUFFICES ASSUME NEW T \in B, \A x \in T : T \ {x} \notin B PROVE FALSE
    <3>1. B \in SUBSET SUBSET S
      OBVIOUS
    <3> HIDE DEF B
    <3> QED BY <1>2, <3>1, SmallestExists
  <2>2. T # {}
    BY <1>3, <1>9
  <2>3. Max(T) \in T /\ Max(T) \in S /\ iter[T \ {Max(T)}] \in V
    BY <1>4, <2>1, <2>2
  <2>4. AssignOne(iter[T \ {Max(T)}], seq[Max(T)], means, occupied) \in V
    BY <1>5, <2>3
  <2> QED BY <1>9, <2>2, <2>4
<1>11. iter[S] \in V
  BY <1>10
<1> QED BY <1>11, AssignIs DEF AssignAll, iter, seq, S, V

---------------------------------------------------------------------------
(* The inductive invariant of the passes.                                  *)

(* What a pass has seen of each face: its cluster and the cluster's name.  *)
SeenOK(seen) ==
    /\ DOMAIN seen \subseteq Faces
    /\ \A f \in DOMAIN seen : seen[f][2] \in Names \cup {None}

NamesSeen(seen) == [f \in DOMAIN seen |-> seen[f][2]]

(* The incremental pass began when every face had a cluster or some had. *)
SomebodySeen(seen) ==
    (\E f \in DOMAIN seen : seen[f][1] = None) => \E f \in DOMAIN seen : seen[f][1] # None

Incremental == {"read new", "read means", "read pairs", "assign"}

(* The assignment puts faces of an image into different clusters, and none *)
(* where another of that image is by now, as long as the cluster is there. *)
ToOK(to) ==
    /\ to \in UNION {[D -> 1..drawn] : D \in SUBSET Faces}
    /\ \A f, g \in DOMAIN to : f # g /\ ImageOf[f] = ImageOf[g] => to[f] # to[g]
    /\ \A f \in DOMAIN to, g \in Faces : ImageOf[f] = ImageOf[g] /\ Exists(to[f]) => face[g] # to[f]

Fields == {"pc", "blob", "seen", "people", "new", "means", "to"}

PassOK(a) ==
    LET p == pass[a]
    IN  /\ DOMAIN p = Fields
        /\ p.pc \in {"idle", "read all", "write all"} \cup Incremental
        /\ p.pc \in Incremental => a = "worker" /\ SomebodySeen(p.seen)
        /\ p.pc = "write all" => SeenOK(p.seen) /\ p.people = PeopleAmong(DOMAIN p.seen, NamesSeen(p.seen))
        /\ p.pc \in {"read means", "read pairs"} => p.new \subseteq Faces
        /\ p.pc = "read pairs" => /\ p.means \in [DOMAIN p.means -> (SUBSET Faces) \ {{}}]
                                  /\ DOMAIN p.means \subseteq 1..drawn
        /\ p.pc = "assign" => ToOK(p.to)

FacesOK ==
    /\ face \in [Faces -> Clusters \cup {None, NoFace}]
    /\ \A f \in Faces : face[f] \in Clusters => Exists(face[f])
    /\ incoming \subseteq Faces

ClustersOK ==
    /\ cluster \in [Clusters -> Names \cup {None, NoCluster}]
    /\ drawn \in Nat /\ drawn <= Max(Clusters)
    /\ \A c \in Clusters : Exists(c) => c <= drawn

PassesOK ==
    /\ passes \in 0 .. MaxPasses
    /\ DOMAIN pass = Actors
    /\ \A a \in Actors : PassOK(a)

PeopleInv == FacesOK /\ ClustersOK /\ OneFacePerPhoto /\ PassesOK

---------------------------------------------------------------------------
(* Writing.                                                                *)

(* A finite set is written in some order, each member once.                *)
LEMMA InSomeOrder ==
    ASSUME NEW S, IsFiniteSet(S)
    PROVE  /\ Cardinality(S) \in Nat
           /\ SetToSeq(S) \in [1..Cardinality(S) -> S]
           /\ Len(SetToSeq(S)) = Cardinality(S)
           /\ \A i, j \in 1..Cardinality(S) : SetToSeq(S)[i] = SetToSeq(S)[j] => i = j
           /\ \A x \in S : \E i \in 1..Cardinality(S) : SetToSeq(S)[i] = x
<1> DEFINE n == Cardinality(S)
<1>1. n \in Nat /\ ExistsBijection(1..n, S)
  BY FS_CardinalityType
<1>2. PICK b : b \in Bijection(1..n, S)
  BY <1>1 DEF ExistsBijection
<1>3. b \in [1..n -> S] /\ IsInjective(b)
  BY <1>2 DEF Bijection, Injection, IsInjective
<1> HIDE DEF n
<1> DEFINE seq == SetToSeq(S)
<1>4. seq \in [1..n -> S] /\ IsInjective(seq)
  BY <1>3 DEF SetToSeq, n
<1> HIDE DEF seq
<1>5. seq \in Injection(1..n, S)
  BY <1>4 DEF Injection, IsInjective
<1>6. IsFiniteSet(1..n) /\ Cardinality(1..n) = n
  BY <1>1, FS_Interval
<1>7. seq \in Surjection(1..n, S)
  BY <1>5, <1>6, FS_Injection DEF n
<1>8. \A x \in S : \E i \in 1..n : seq[i] = x
  BY <1>7 DEF Surjection
<1>9. Len(seq) = n
  BY <1>1, <1>4
<1>10. \A i, j \in 1..n : seq[i] = seq[j] => i = j
  BY <1>4 DEF IsInjective
<1> QED BY <1>1, <1>4, <1>8, <1>9, <1>10 DEF seq, n

(* Clusters are numbered. *)
LEMMA ClustersAre == Max(Clusters) \in Nat /\ Clusters = 1..Max(Clusters)
<1>1. Cardinality(Clusters) \in Nat /\ Clusters = 1..Cardinality(Clusters) /\ Clusters # {} /\ IsFiniteSet(Clusters)
  BY PeopleAssumption, FS_CardinalityType
<1>2. Clusters \subseteq Nat
  BY <1>1
<1>3. Max(Clusters) \in Clusters /\ \A c \in Clusters : c <= Max(Clusters)
  BY <1>1, <1>2, MaxIsGreatest
<1>4. Max(Clusters) = Cardinality(Clusters)
  BY <1>1, <1>3
<1> QED BY <1>1, <1>4

(* The NULLs are no names and no clusters. *)
LEMMA NullsAreNone ==
    /\ None \notin Clusters /\ None \notin Names /\ NoFace \notin Clusters /\ NoFace # None
    /\ NoCluster \notin Names /\ NoCluster # None
BY PeopleAssumption

(* What a full pass writes, of people that are finitely many and apart.    *)
PeopleOK(people, S) ==
    /\ IsFiniteSet(people)
    /\ \A P \in people :
          /\ P.faces \subseteq S /\ P.faces # {}
          /\ \A f, g \in P.faces : f # g => ImageOf[f] # ImageOf[g]
          /\ P.name \in Names \cup {None}
    /\ \A P, Q \in people : P # Q => P.faces \cap Q.faces = {}

(* Of the clusters that are there afterwards, each has its person's name. *)
LEMMA ClustersWritten ==
    ASSUME NEW people, NEW S, PeopleOK(people, S), ClustersOK, drawn + Len(SetToSeq(people)) <= Max(Clusters)
    PROVE  LET found == SetToSeq(people)
           IN  /\ Inserted(found) \in [Clusters -> Names \cup {None, NoCluster}]
               /\ Len(found) \in Nat
               /\ \A c \in Clusters : Inserted(found)[c] # NoCluster <=> c \in drawn + 1 .. drawn + Len(found)
               /\ \A j \in 1..Len(found) : drawn + j \in Clusters /\ Inserted(found)[drawn + j] = found[j].name
<1> DEFINE found == SetToSeq(people)
<1>1. Len(found) \in Nat /\ found \in [1..Len(found) -> people]
  BY InSomeOrder DEF PeopleOK
<1>2. \A j \in 1..Len(found) : found[j].name \in Names \cup {None}
  BY <1>1 DEF PeopleOK
<1> HIDE DEF found
<1>3. drawn \in Nat /\ drawn + Len(found) <= Max(Clusters) /\ Max(Clusters) \in Nat /\ Clusters = 1..Max(Clusters)
  BY ClustersAre DEF ClustersOK, found
<1>4. \A c \in Clusters : c \in drawn + 1 .. drawn + Len(found) => c - drawn \in 1..Len(found)
  BY <1>1, <1>3
<1>5. \A j \in 1..Len(found) : drawn + j \in Clusters /\ drawn + j \in drawn + 1 .. drawn + Len(found) /\ (drawn + j) - drawn = j
  BY <1>1, <1>3
<1>6. \A c \in Clusters : Inserted(found)[c] = IF c \in drawn + 1 .. drawn + Len(found) THEN found[c - drawn].name ELSE NoCluster
  BY DEF Inserted
<1>7. Inserted(found) = [c \in Clusters |-> Inserted(found)[c]]
  BY DEF Inserted
<1>8. \A c \in Clusters : Inserted(found)[c] \in Names \cup {None, NoCluster}
  BY <1>2, <1>4, <1>6
<1>9. \A c \in Clusters : Inserted(found)[c] # NoCluster <=> c \in drawn + 1 .. drawn + Len(found)
  BY <1>2, <1>4, <1>6, NullsAreNone
<1>10. \A j \in 1..Len(found) : Inserted(found)[drawn + j] = found[j].name
  BY <1>5, <1>6
<1>11. Inserted(found) \in [Clusters -> Names \cup {None, NoCluster}]
  BY <1>7, <1>8
<1> QED BY <1>1, <1>5, <1>9, <1>10, <1>11 DEF found

(* A face gets its person's cluster, or none. *)
LEMMA FacesWritten ==
    ASSUME NEW people, NEW S, PeopleOK(people, S), ClustersOK
    PROVE  LET found == SetToSeq(people)
           IN  /\ DOMAIN Regrouped(found) = Faces
               /\ \A f \in Faces :
                     /\ face[f] = NoFace => Regrouped(found)[f] = NoFace
                     /\ face[f] # NoFace =>
                            \/ Regrouped(found)[f] = None /\ \A j \in 1..Len(found) : f \notin found[j].faces
                            \/ \E j \in 1..Len(found) : f \in found[j].faces /\ Regrouped(found)[f] = drawn + j
                     /\ \A j \in 1..Len(found) : face[f] # NoFace /\ f \in found[j].faces => Regrouped(found)[f] = drawn + j
<1> DEFINE found == SetToSeq(people)
           New(f) == {drawn + i : i \in {j \in DOMAIN found : f \in found[j].faces}}
<1>1. /\ Len(found) \in Nat /\ DOMAIN found = 1..Len(found)
      /\ \A i, j \in 1..Len(found) : i # j => found[i].faces \cap found[j].faces = {}
  BY InSomeOrder DEF PeopleOK
<1>2. drawn \in Nat
  BY DEF ClustersOK
<1>3. Regrouped(found) = [f \in Faces |-> IF face[f] = NoFace THEN NoFace ELSE IF New(f) = {} THEN None ELSE Min(New(f))]
  BY DEF Regrouped
<1> HIDE DEF found
<1>4. ASSUME NEW f \in Faces, NEW j \in 1..Len(found), f \in found[j].faces
      PROVE  New(f) # {} /\ Min(New(f)) = drawn + j
  <2>1. New(f) = {drawn + j}
    BY <1>1, <1>4
  <2>2. {drawn + j} \subseteq Nat /\ {drawn + j} # {}
    BY <1>1, <1>2
  <2>3. Min({drawn + j}) \in {drawn + j}
    BY <2>2, MinIsLeast
  <2> QED BY <2>1, <2>3
<1>5. ASSUME NEW f \in Faces, \A j \in 1..Len(found) : f \notin found[j].faces PROVE New(f) = {}
  BY <1>1, <1>5
<1> HIDE DEF New
<1> QED BY <1>3, <1>4, <1>5 DEF found
---------------------------------------------------------------------------
(* Reading.                                                                *)

LEMMA SeenNowIs ==
    ASSUME FacesOK, ClustersOK
    PROVE  /\ SeenOK(SeenNow) /\ DOMAIN SeenNow = HasRow /\ NamesSeen(SeenNow) = NamesNow
           /\ HasRow \subseteq Faces /\ Unassigned \subseteq Faces
           /\ \A f \in HasRow : SeenNow[f][1] = face[f] /\ NamesNow[f] \in Names \cup {None}
<1>1. HasRow \subseteq Faces /\ Unassigned \subseteq Faces
  BY DEF HasRow, Unassigned
<1>2. ASSUME NEW f \in HasRow PROVE NamesNow[f] \in Names \cup {None}
  BY DEF HasRow, NamesNow, FacesOK, ClustersOK, Exists
<1>3. DOMAIN SeenNow = HasRow /\ \A f \in HasRow : SeenNow[f][1] = face[f] /\ SeenNow[f][2] = NamesNow[f]
  BY DEF SeenNow
<1>4. NamesSeen(SeenNow) = NamesNow
  BY <1>3 DEF NamesSeen, NamesNow
<1> QED BY <1>1, <1>2, <1>3, <1>4 DEF SeenOK

(* People grouped from what was seen are fit to be written. *)
LEMMA PeopleAreApart ==
    ASSUME NEW seen, SeenOK(seen)
    PROVE  PeopleOK(PeopleAmong(DOMAIN seen, NamesSeen(seen)), DOMAIN seen)
<1> DEFINE S == DOMAIN seen
           nameOf == NamesSeen(seen)
           people == PeopleAmong(S, nameOf)
<1>1. S \subseteq Faces /\ \A f \in S : nameOf[f] \in Names \cup {None}
  BY DEF SeenOK, NamesSeen
<1> HIDE DEF S, nameOf
<1>2. ASSUME NEW P \in people PROVE P.name \in Names \cup {None}
  <2>1. PICK M \in SUBSET S : P.name \in Electable(M, nameOf)
    BY <1>1, NamesFound
  <2> QED BY <1>1, <2>1 DEF Electable, Named
<1>3. /\ IsFiniteSet(people)
      /\ \A P \in people :
            /\ P.faces \subseteq S /\ P.faces # {}
            /\ \A f, g \in P.faces : f # g => ImageOf[f] # ImageOf[g]
      /\ \A P, Q \in people : P # Q => P.faces \cap Q.faces = {}
  BY <1>1, PeopleFound
<1> HIDE DEF people
<1>4. PeopleOK(people, S)
  BY <1>2, <1>3 DEF PeopleOK
<1> QED BY <1>4 DEF people, S, nameOf

(* What the passes have in hand stays right as long as no cluster appears, *)
(* and faces only leave clusters.                                          *)
LEMMA PassStaysOK ==
    ASSUME NEW a, PassOK(a), ClustersOK, pass'[a] = pass[a], drawn' \in Nat, drawn <= drawn',
           pass[a].pc = "assign" =>
               \A c \in 1..drawn : Exists(c)' => Exists(c) /\ \A f \in Faces : face'[f] = c => face[f] = c
    PROVE  PassOK(a)'
<1> DEFINE p == pass[a]
<1>1. drawn \in Nat /\ 1..drawn \subseteq 1..drawn'
  BY DEF ClustersOK
<1>2. CASE p.pc = "assign"
  <2>1. PICK D \in SUBSET Faces : p.to \in [D -> 1..drawn]
    BY <1>2 DEF PassOK, ToOK
  <2>2. p.to \in [D -> 1..drawn']
    BY <1>1, <2>1
  <2>3. \A f \in DOMAIN p.to : p.to[f] \in 1..drawn /\ f \in Faces
    BY <2>1
  <2>4. ToOK(p.to)'
    BY <1>2, <2>2, <2>3 DEF PassOK, ToOK
  <2> QED BY <1>2, <2>4 DEF PassOK, SeenOK, SomebodySeen, Incremental
<1>3. CASE p.pc # "assign"
  BY <1>1, <1>3 DEF PassOK
<1> QED BY <1>2, <1>3

(* One pass reads; the other has what it had. *)
LEMMA OthersStayOK ==
    ASSUME PeopleInv, NEW a \in Actors, UNCHANGED <<face, cluster, drawn>>, NEW p,
           Goes(a, p), PassOK(a)', NEW b \in Actors
    PROVE  PassOK(b)' /\ DOMAIN pass' = Actors
<1>1. DOMAIN pass' = Actors /\ \A x \in Actors : x # a => pass'[x] = pass[x]
  BY DEF PeopleInv, PassesOK, Goes
<1>2. CASE b # a
  <2>1. PassOK(b) /\ ClustersOK /\ drawn' \in Nat /\ drawn <= drawn'
    BY DEF PeopleInv, PassesOK, ClustersOK
  <2>2. \A c \in 1..drawn : Exists(c)' => Exists(c) /\ \A f \in Faces : face'[f] = c => face[f] = c
    BY DEF Exists
  <2> QED BY <1>1, <1>2, <2>1, <2>2, PassStaysOK
<1> QED BY <1>1, <1>2

(* A pass that reads, or ends without a write.                             *)
LEMMA Reading ==
    ASSUME PeopleInv, NEW a \in Actors, UNCHANGED <<face, cluster, drawn, incoming>>, passes' \in 0..MaxPasses,
           NEW p, Goes(a, p), PassOK(a)'
    PROVE  PeopleInv'
<1>1. FacesOK' /\ ClustersOK' /\ OneFacePerPhoto'
  BY DEF PeopleInv, FacesOK, ClustersOK, OneFacePerPhoto, Exists
<1>2. PassesOK'
  BY OthersStayOK DEF PassesOK
<1> QED BY <1>1, <1>2 DEF PeopleInv

LEMMA IdleIsOK == ASSUME NEW a \in Actors, DOMAIN pass = Actors, Goes(a, IdlePass) PROVE PassOK(a)'
<1>1. pass'[a] = IdlePass
  BY DEF Goes
<1> QED BY <1>1 DEF IdlePass, PassOK, Incremental, Fields

LEMMA Beginning ==
    ASSUME PeopleInv, NEW a \in Actors, Begin(a), UNCHANGED libraryVars PROVE PeopleInv'
<1> DEFINE pc == IF a = "server" \/ ReclusteringNeeded(metadata) THEN "read all" ELSE "read new"
           p == [IdlePass EXCEPT !.blob = metadata, !.seen = SeenNow, !.pc = pc]
<1>1. Goes(a, p) /\ pass'[a] = p
  BY DEF Begin, Goes, PeopleInv, PassesOK
<1>2. DOMAIN p = Fields /\ p.pc = pc /\ p.seen = SeenNow
  BY DEF IdlePass, Fields
<1> HIDE DEF p
<1>3. passes' \in 0..MaxPasses
  BY PeopleAssumption DEF Begin, PeopleInv, PassesOK
<1>4. pc = "read new" => a = "worker" /\ SomebodySeen(SeenNow)
  <2> SUFFICES ASSUME pc = "read new" PROVE a = "worker" /\ SomebodySeen(SeenNow)
    OBVIOUS
  <2>1. a = "worker" /\ (Unassigned = {} \/ VisibleClusters # {})
    BY DEF ReclusteringNeeded, Actors
  <2>2. DOMAIN SeenNow = HasRow /\ \A f \in HasRow : SeenNow[f][1] = face[f]
    BY SeenNowIs DEF PeopleInv
  <2>3. CASE Unassigned = {}
    BY <2>1, <2>2, <2>3 DEF SomebodySeen, Unassigned
  <2>4. CASE VisibleClusters # {}
    <3>1. PICK f \in Faces : face[f] \in Clusters
      BY <2>4 DEF VisibleClusters, FacesOf
    <3>2. f \in HasRow /\ face[f] # None
      BY <3>1, NullsAreNone DEF HasRow
    <3> QED BY <2>1, <2>2, <3>2 DEF SomebodySeen
  <2> QED BY <2>1, <2>3, <2>4
<1>5. PassOK(a)'
  <2>1. pc \in {"read all", "read new"}
    OBVIOUS
  <2>2. pc = "read new" => SomebodySeen(pass'[a].seen)
    BY <1>1, <1>2, <1>4
  <2> HIDE DEF pc
  <2> QED BY <1>1, <1>2, <1>4, <2>1, <2>2 DEF PassOK, Incremental, Fields
<1> QED BY <1>1, <1>3, <1>5, Reading DEF Begin

LEMMA ReadingAll ==
    ASSUME PeopleInv, NEW a \in Actors, ReadAll(a), UNCHANGED libraryVars PROVE PeopleInv'
<1> DEFINE p == [pass[a] EXCEPT !.pc = "write all", !.seen = SeenNow, !.people = PeopleAmong(HasRow, NamesNow)]
<1>1. Goes(a, p) /\ pass'[a] = p /\ passes' \in 0..MaxPasses /\ DOMAIN pass[a] = Fields
  BY DEF ReadAll, Goes, PeopleInv, PassesOK, PassOK, Fields
<1>2. DOMAIN p = Fields /\ p.pc = "write all" /\ p.seen = SeenNow /\ p.people = PeopleAmong(HasRow, NamesNow)
  BY <1>1 DEF Fields
<1> HIDE DEF p
<1>3. SeenOK(SeenNow) /\ HasRow = DOMAIN SeenNow /\ NamesNow = NamesSeen(SeenNow)
  BY SeenNowIs DEF PeopleInv
<1>4. SeenOK(pass'[a].seen) /\ pass'[a].people = PeopleAmong(DOMAIN pass'[a].seen, NamesSeen(pass'[a].seen))
  BY <1>1, <1>2, <1>3
<1>5. PassOK(a)'
  BY <1>1, <1>2, <1>4 DEF PassOK, Incremental, Fields, SeenOK, NamesSeen
<1> QED BY <1>1, <1>5, Reading DEF ReadAll

LEMMA ReadingNew ==
    ASSUME PeopleInv, NEW a \in Actors, ReadNew(a), UNCHANGED libraryVars PROVE PeopleInv'
<1> DEFINE p == [pass[a] EXCEPT !.pc = "read means", !.new = Unassigned]
<1>1. passes' \in 0..MaxPasses /\ DOMAIN pass[a] = Fields /\ DOMAIN pass = Actors /\ PassOK(a) /\ pass[a].pc = "read new"
  BY DEF ReadNew, PeopleInv, PassesOK, PassOK, Fields
<1>2. CASE Goes(a, IdlePass)
  BY <1>1, <1>2, IdleIsOK, Reading DEF ReadNew
<1>3. CASE Goes(a, p)
  <2>1. pass'[a] = p
    BY <1>1, <1>3 DEF Goes
  <2>2. DOMAIN p = Fields /\ p.pc = "read means" /\ p.seen = pass[a].seen /\ p.new = Unassigned
    BY <1>1 DEF Fields
  <2> HIDE DEF p
  <2>3. Unassigned \subseteq Faces
    BY DEF Unassigned, HasRow
  <2>4. PassOK(a)'
    BY <1>1, <2>1, <2>2, <2>3 DEF PassOK, Incremental, Fields, SomebodySeen
  <2> QED BY <1>1, <1>3, <2>4, Reading DEF ReadNew
<1> QED BY <1>2, <1>3 DEF ReadNew, Ends

LEMMA ReadingMeans ==
    ASSUME PeopleInv, NEW a \in Actors, ReadMeans(a), UNCHANGED libraryVars PROVE PeopleInv'
<1> DEFINE means == [c \in VisibleClusters |-> FacesOf(c)]
           p == [pass[a] EXCEPT !.pc = "read pairs", !.means = means]
<1>1. /\ passes' \in 0..MaxPasses /\ DOMAIN pass[a] = Fields /\ DOMAIN pass = Actors
      /\ PassOK(a) /\ pass[a].pc = "read means" /\ Goes(a, p) /\ pass'[a] = p
  BY DEF ReadMeans, PeopleInv, PassesOK, PassOK, Fields, Goes
<1>2. /\ DOMAIN p = Fields /\ p.pc = "read pairs" /\ p.seen = pass[a].seen
      /\ p.new = pass[a].new /\ p.means = means
  BY <1>1 DEF Fields
<1> HIDE DEF p
<1>3. means \in [VisibleClusters -> (SUBSET Faces) \ {{}}]
  <2>1. \A c \in VisibleClusters : FacesOf(c) \in SUBSET Faces /\ FacesOf(c) # {}
    BY DEF VisibleClusters, FacesOf
  <2> QED BY <2>1
<1>4. VisibleClusters \subseteq 1..drawn
  <2> SUFFICES ASSUME NEW c \in VisibleClusters PROVE c \in 1..drawn
    OBVIOUS
  <2>1. PICK f \in Faces : face[f] = c
    BY DEF VisibleClusters, FacesOf
  <2>2. c \in Clusters /\ c \in Nat /\ 1 <= c
    BY ClustersAre DEF VisibleClusters
  <2>3. c <= drawn /\ drawn \in Nat
    BY <2>1, <2>2 DEF PeopleInv, FacesOK, ClustersOK
  <2> QED BY <2>2, <2>3
<1>5. DOMAIN means = VisibleClusters
  OBVIOUS
<1> HIDE DEF means
<1>6. drawn' = drawn
  BY DEF ReadMeans
<1>7. PassOK(a)'
  BY <1>1, <1>2, <1>3, <1>4, <1>5, <1>6 DEF PassOK, Incremental, Fields, SomebodySeen
<1> QED BY <1>1, <1>7, Reading DEF ReadMeans

LEMMA ReadingPairs ==
    ASSUME PeopleInv, NEW a \in Actors, ReadPairs(a), UNCHANGED libraryVars PROVE PeopleInv'
<1> DEFINE means == pass[a].means
           to == IF means = <<>> THEN <<>> ELSE Assign(pass[a].new, means, Occupied)
           p == [pass[a] EXCEPT !.pc = "assign", !.to = to]
<1>1. /\ passes' \in 0..MaxPasses /\ DOMAIN pass[a] = Fields /\ DOMAIN pass = Actors
      /\ PassOK(a) /\ pass[a].pc = "read pairs" /\ Goes(a, p) /\ pass'[a] = p
  BY DEF ReadPairs, PeopleInv, PassesOK, PassOK, Fields, Goes
<1>2. DOMAIN p = Fields /\ p.pc = "assign" /\ p.seen = pass[a].seen /\ p.to = to
  BY <1>1 DEF Fields
<1> HIDE DEF p
<1>3. /\ pass[a].new \subseteq Faces /\ means \in [DOMAIN means -> (SUBSET Faces) \ {{}}]
      /\ DOMAIN means \subseteq 1..drawn /\ drawn \in Nat /\ drawn <= Max(Clusters)
  BY <1>1 DEF PassOK, PeopleInv, ClustersOK, Incremental
<1> HIDE DEF means
<1>4. ToOK(to)
  <2>1. CASE means = <<>>
    <3>1. to = <<>> /\ to \in [{} -> 1..drawn] /\ DOMAIN to = {}
      BY <2>1
    <3> HIDE DEF to
    <3> QED BY <3>1 DEF ToOK
  <2>2. CASE means # <<>>
    <3>1. DOMAIN means # {}
      <4>1. <<>> \in [{} -> (SUBSET Faces) \ {{}}]
        OBVIOUS
      <4>2. DOMAIN means = {} => means = <<>>
        BY <1>3, <4>1
      <4> QED BY <2>2, <4>2
    <3>2. MeansOK(means)
      <4>1. IsFiniteSet(1..drawn) /\ DOMAIN means \in SUBSET (1..drawn)
        BY <1>3, FS_Interval
      <4>2. IsFiniteSet(DOMAIN means)
        BY <4>1, FS_Subset
      <4>3. \A c \in DOMAIN means : means[c] \in (SUBSET Faces) \ {{}}
        BY <1>3
      <4> QED BY <4>2, <4>3 DEF MeansOK
    <3>3. to \in Spread(DOMAIN means, Occupied)
      BY <1>3, <2>2, <3>1, <3>2, AssignSpreads
    <3> HIDE DEF to
    <3>4. PICK D \in SUBSET Faces : to \in [D -> DOMAIN means]
      BY <3>3 DEF Spread
    <3>5. to \in [D -> 1..drawn] /\ \A f \in DOMAIN to : to[f] \in Clusters /\ f \in Faces
      <4>1. 1..drawn \subseteq Clusters
        BY <1>3, ClustersAre
      <4> QED BY <1>3, <3>4, <4>1
    <3>6. ASSUME NEW f \in DOMAIN to, NEW g \in Faces, ImageOf[f] = ImageOf[g], face[g] = to[f] PROVE FALSE
      <4>1. g \in HasRow \ Unassigned
        BY <3>5, <3>6, NullsAreNone DEF HasRow, Unassigned
      <4>2. <<to[f], ImageOf[f]>> \in Occupied
        BY <3>6, <4>1 DEF Occupied
      <4> QED BY <3>3, <4>2 DEF Spread
    <3>7. \A f, g \in DOMAIN to : f # g /\ ImageOf[f] = ImageOf[g] => to[f] # to[g]
      BY <3>3 DEF Spread
    <3> QED BY <3>5, <3>6, <3>7 DEF ToOK
  <2> QED BY <2>1, <2>2
<1> HIDE DEF to
<1>5. PassOK(a)'
  <2>1. /\ pass'[a].to = to /\ drawn' = drawn /\ cluster' = cluster /\ face' = face
    BY <1>1, <1>2 DEF ReadPairs
  <2>2. ToOK(pass[a].to)'
    BY <1>4, <2>1 DEF ToOK, Exists
  <2> QED BY <1>1, <1>2, <2>2 DEF PassOK, Incremental, Fields, SomebodySeen
<1> QED BY <1>1, <1>5, Reading DEF ReadPairs

---------------------------------------------------------------------------
(* The two transactions.                                                   *)

LEMMA WritingAssigned ==
    ASSUME PeopleInv, NEW a \in Actors, WriteAssigned(a), UNCHANGED libraryVars PROVE PeopleInv'
<1> DEFINE to == pass[a].to
<1>1. /\ DOMAIN pass = Actors /\ a = "worker" /\ ToOK(to) /\ Goes(a, IdlePass)
      /\ \A b \in Actors : PassOK(b)
  BY DEF WriteAssigned, Ends, PeopleInv, PassesOK, PassOK, Incremental
<1>2. PICK D \in SUBSET Faces : to \in [D -> 1..drawn]
  BY <1>1 DEF ToOK
<1>3. \A f \in DOMAIN to : f \in Faces /\ to[f] \in Clusters /\ to[f] \in 1..drawn
  <2>1. 1..drawn \subseteq Clusters
    BY ClustersAre DEF PeopleInv, ClustersOK
  <2> QED BY <1>2, <2>1
<1>4. FacesOK /\ ClustersOK /\ OneFacePerPhoto /\ incoming' = incoming /\ cluster' = cluster /\ drawn' = drawn /\ passes' = passes
  BY DEF PeopleInv, WriteAssigned
<1>5. PassesOK'
  <2>1. PassOK(a)' /\ DOMAIN pass' = Actors /\ \A b \in Actors : b # a => pass'[b] = pass[b]
    BY <1>1, IdleIsOK DEF Goes
  <2>2. \A b \in Actors : b # a => pass[b].pc # "assign"
    BY <1>1 DEF PassOK, Incremental
  <2>3. \A b \in Actors : b # a => PassOK(b)'
    BY <1>1, <1>4, <2>1, <2>2, PassStaysOK DEF ClustersOK
  <2> QED BY <1>4, <2>1, <2>3 DEF PassesOK, PeopleInv
<1>6. ClustersOK'
  BY <1>4 DEF ClustersOK, Exists
<1> HIDE DEF to
<1>7. CASE face' = face
  <2>1. FacesOK' /\ OneFacePerPhoto'
    BY <1>4, <1>7 DEF FacesOK, OneFacePerPhoto, Exists
  <2> QED BY <1>5, <1>6, <2>1 DEF PeopleInv
<1>8. CASE face' = Assigned(to) /\ \A f \in DOMAIN to \cap HasRow : Exists(to[f])
  <2>1. face' = [f \in Faces |-> IF f \in DOMAIN to \cap HasRow THEN to[f] ELSE face[f]]
    BY <1>8 DEF Assigned
  <2>2. \A f \in Faces : f \notin DOMAIN to \cap HasRow => face'[f] = face[f]
    BY <2>1
  <2>3. \A f \in DOMAIN to \cap HasRow : face'[f] = to[f] /\ face[f] # NoFace /\ f \in Faces
    BY <1>3, <2>1 DEF HasRow
  <2>4. face' \in [Faces -> Clusters \cup {None, NoFace}]
    BY <1>3, <1>4, <2>1 DEF FacesOK
  <2>5. ASSUME NEW f \in Faces, face'[f] \in Clusters PROVE Exists(face'[f])
    BY <1>4, <1>8, <2>2, <2>3, <2>5 DEF FacesOK
  <2>7. FacesOK'
    BY <1>4, <2>4, <2>5 DEF FacesOK, Exists
  <2>8. ASSUME NEW f \in Faces, NEW g \in Faces, f # g, ImageOf[f] = ImageOf[g], face'[f] \in Clusters, face'[f] = face'[g]
        PROVE  FALSE
    <3>1. CASE f \in DOMAIN to \cap HasRow /\ g \in DOMAIN to \cap HasRow
      BY <1>1, <2>3, <2>8, <3>1 DEF ToOK, to
    <3>2. CASE f \in DOMAIN to \cap HasRow /\ g \notin DOMAIN to \cap HasRow
      BY <1>1, <1>8, <2>2, <2>3, <2>8, <3>2 DEF ToOK, to
    <3>3. CASE f \notin DOMAIN to \cap HasRow /\ g \in DOMAIN to \cap HasRow
      BY <1>1, <1>8, <2>2, <2>3, <2>8, <3>3 DEF ToOK, to
    <3>4. CASE f \notin DOMAIN to \cap HasRow /\ g \notin DOMAIN to \cap HasRow
      BY <1>4, <2>2, <2>8, <3>4 DEF OneFacePerPhoto
    <3> QED BY <3>1, <3>2, <3>3, <3>4
  <2>9. OneFacePerPhoto'
    BY <2>8 DEF OneFacePerPhoto
  <2> QED BY <1>5, <1>6, <2>7, <2>9 DEF PeopleInv
<1> QED BY <1>7, <1>8 DEF WriteAssigned, to

(* What a full pass is about to write. *)
LEMMA ToBeWritten ==
    ASSUME PeopleInv, NEW a \in Actors, pass[a].pc = "write all"
    PROVE  /\ PeopleOK(pass[a].people, DOMAIN pass[a].seen) /\ ClustersOK /\ SeenOK(pass[a].seen)
           /\ pass[a].people = PeopleAmong(DOMAIN pass[a].seen, NamesSeen(pass[a].seen))
<1>1. SeenOK(pass[a].seen) /\ pass[a].people = PeopleAmong(DOMAIN pass[a].seen, NamesSeen(pass[a].seen)) /\ ClustersOK
  BY DEF PeopleInv, PassesOK, PassOK
<1> QED BY <1>1, PeopleAreApart

LEMMA WritingAll ==
    ASSUME PeopleInv, NEW a \in Actors, WriteAll(a), UNCHANGED libraryVars PROVE PeopleInv'
<1> DEFINE found == SetToSeq(pass[a].people)
           new == Regrouped(found)
<1>1. PeopleOK(pass[a].people, DOMAIN pass[a].seen) /\ ClustersOK /\ DOMAIN pass = Actors /\ Goes(a, IdlePass)
  BY ToBeWritten DEF WriteAll, Ends, PeopleInv, PassesOK
<1>2. /\ drawn + Len(found) <= Max(Clusters) /\ drawn' = drawn + Len(found)
      /\ cluster' = Inserted(found) /\ face' = new /\ passes' = passes /\ incoming' = incoming
  BY DEF WriteAll
<1>3. /\ cluster' \in [Clusters -> Names \cup {None, NoCluster}] /\ Len(found) \in Nat
      /\ \A c \in Clusters : Exists(c)' <=> c \in drawn + 1 .. drawn + Len(found)
      /\ \A j \in 1..Len(found) : drawn + j \in Clusters
  BY <1>1, <1>2, ClustersWritten DEF Exists
<1>4. /\ DOMAIN face' = Faces
      /\ \A f \in Faces :
            /\ face[f] = NoFace => face'[f] = NoFace
            /\ face[f] # NoFace => \/ face'[f] = None
                                   \/ \E j \in 1..Len(found) : f \in found[j].faces /\ face'[f] = drawn + j
  BY <1>1, <1>2, FacesWritten
<1>5. \A j \in 1..Len(found) : found[j] \in pass[a].people
  BY <1>1, InSomeOrder DEF PeopleOK
<1> HIDE DEF found, new
<1>6. drawn \in Nat /\ drawn' \in Nat /\ drawn <= drawn'
  BY <1>1, <1>2, <1>3 DEF ClustersOK
<1>7. ClustersOK'
  <2>1. \A c \in Clusters : Exists(c)' => c <= drawn'
    BY <1>2, <1>3, <1>6
  <2> QED BY <1>2, <1>3, <1>6, <2>1 DEF ClustersOK
<1>8. \A f \in Faces : face'[f] \in Clusters \cup {None, NoFace}
  BY <1>3, <1>4
<1>9. \A f \in Faces : face'[f] \in Clusters => \E j \in 1..Len(found) : f \in found[j].faces /\ face'[f] = drawn + j
  BY <1>4, NullsAreNone
<1>10. FacesOK'
  <2>1. face' \in [Faces -> Clusters \cup {None, NoFace}]
    <3>1. face' = [f \in Faces |-> face'[f]]
      BY <1>2 DEF new, Regrouped
    <3> QED BY <1>8, <3>1
  <2>2. \A f \in Faces : face'[f] \in Clusters => cluster'[face'[f]] # NoCluster
    <3>1. \A j \in 1..Len(found) : drawn + j \in drawn + 1 .. drawn + Len(found)
      BY <1>3, <1>6
    <3>2. \A c \in Clusters : c \in drawn + 1 .. drawn + Len(found) => cluster'[c] # NoCluster
      BY <1>3 DEF Exists
    <3> QED BY <1>9, <3>1, <3>2
  <2>3. incoming' \subseteq Faces
    BY <1>2 DEF PeopleInv, FacesOK
  <2> QED BY <2>1, <2>2, <2>3 DEF FacesOK, Exists
<1>11. ASSUME NEW f \in Faces, NEW g \in Faces, f # g, ImageOf[f] = ImageOf[g], face'[f] \in Clusters, face'[f] = face'[g]
       PROVE  FALSE
  <2>1. PICK i \in 1..Len(found) : f \in found[i].faces /\ face'[f] = drawn + i
    BY <1>9, <1>11
  <2>2. PICK j \in 1..Len(found) : g \in found[j].faces /\ face'[g] = drawn + j
    BY <1>9, <1>11
  <2>3. i = j
    <3>1. drawn + i = drawn + j
      BY <1>11, <2>1, <2>2
    <3>2. i \in Int /\ j \in Int /\ drawn \in Int
      BY <1>3, <1>6
    <3> QED BY <3>1, <3>2
  <2> QED BY <1>1, <1>5, <1>11, <2>1, <2>2, <2>3 DEF PeopleOK
<1>12. OneFacePerPhoto'
  BY <1>11 DEF OneFacePerPhoto
<1>13. PassesOK'
  <2>1. PassOK(a)' /\ DOMAIN pass' = Actors /\ \A b \in Actors : b # a => pass'[b] = pass[b] /\ PassOK(b)
    BY <1>1, IdleIsOK DEF Goes, PeopleInv, PassesOK
  <2>2. \A c \in 1..drawn : ~Exists(c)'
    <3> SUFFICES ASSUME NEW c \in 1..drawn PROVE ~Exists(c)'
      OBVIOUS
    <3>1. c \in Clusters
      BY <1>1, <1>6, ClustersAre DEF ClustersOK
    <3>2. c \notin drawn + 1 .. drawn + Len(found)
      BY <1>6
    <3> QED BY <1>3, <3>1, <3>2
  <2>3. \A b \in Actors : b # a => PassOK(b)'
    BY <1>1, <1>6, <2>1, <2>2, PassStaysOK
  <2> QED BY <1>2, <2>1, <2>3 DEF PassesOK, PeopleInv
<1> QED BY <1>7, <1>10, <1>12, <1>13 DEF PeopleInv

---------------------------------------------------------------------------
(* What happens beside the passes.                                         *)

LEMMA Beside ==
    ASSUME PeopleInv, UNCHANGED <<drawn, pass, passes>>,
           cluster' \in [Clusters -> Names \cup {None, NoCluster}],
           \A c \in Clusters : Exists(c)' <=> Exists(c),
           face' \in [Faces -> Clusters \cup {None, NoFace}],
           \A f \in Faces : face'[f] \in Clusters => face'[f] = face[f],
           incoming' \subseteq Faces
    PROVE  PeopleInv'
<1>1. FacesOK'
  <2>1. \A f \in Faces : face'[f] \in Clusters => cluster'[face'[f]] # NoCluster
    BY DEF PeopleInv, FacesOK, Exists
  <2> QED BY <2>1 DEF FacesOK, Exists
<1>2. ClustersOK' /\ OneFacePerPhoto'
  BY DEF PeopleInv, ClustersOK, OneFacePerPhoto
<1>3. \A a \in Actors : PassOK(a)'
  <2>1. \A c \in 1..drawn : c \in Clusters
    BY ClustersAre DEF PeopleInv, ClustersOK
  <2>2. \A c \in 1..drawn : Exists(c)' => Exists(c) /\ \A f \in Faces : face'[f] = c => face[f] = c
    BY <2>1
  <2>3. drawn' \in Nat /\ drawn <= drawn' /\ ClustersOK
    BY DEF PeopleInv, ClustersOK
  <2> QED BY <2>2, <2>3, PassStaysOK DEF PeopleInv, PassesOK
<1> QED BY <1>1, <1>2, <1>3 DEF PeopleInv, PassesOK

LEMMA Listing == ASSUME PeopleInv, ReadUntagged PROVE PeopleInv'
<1>1. FacesOK /\ ClustersOK /\ face' = face /\ cluster' = cluster /\ UNCHANGED <<drawn, pass, passes>>
  BY DEF PeopleInv, ReadUntagged
<1>2. incoming' \subseteq Faces
  BY DEF ReadUntagged
<1> QED BY <1>1, <1>2, Beside DEF FacesOK, ClustersOK, Exists

LEMMA Inserting == ASSUME PeopleInv, InsertFace PROVE PeopleInv'
<1> DEFINE f == Min(incoming)
<1>1. FacesOK /\ ClustersOK /\ cluster' = cluster /\ UNCHANGED <<drawn, pass, passes>>
  BY DEF PeopleInv, InsertFace
<1>2. face' = [face EXCEPT ![f] = None] /\ incoming' = incoming \ {f}
  BY DEF InsertFace
<1> HIDE DEF f
<1>3. /\ face' \in [Faces -> Clusters \cup {None, NoFace}]
      /\ \A g \in Faces : face'[g] \in Clusters => face'[g] = face[g]
      /\ incoming' \subseteq Faces
  BY <1>1, <1>2, NullsAreNone DEF FacesOK
<1> QED BY <1>1, <1>3, Beside DEF ClustersOK, Exists

LEMMA Cascading == ASSUME PeopleInv, NEW p, PhotoGoes(p) PROVE PeopleInv'
<1>1. FacesOK /\ ClustersOK /\ incoming' = incoming /\ cluster' = cluster /\ UNCHANGED <<drawn, pass, passes>>
  BY DEF PeopleInv, PhotoGoes, CascadeToFaces
<1>2. face' = [f \in Faces |-> IF ImageOf[f] = p THEN NoFace ELSE face[f]]
  BY DEF PhotoGoes, CascadeToFaces
<1>3. /\ face' \in [Faces -> Clusters \cup {None, NoFace}]
      /\ \A f \in Faces : face'[f] \in Clusters => face'[f] = face[f]
      /\ incoming' \subseteq Faces
  BY <1>1, <1>2, NullsAreNone DEF FacesOK
<1> QED BY <1>1, <1>3, Beside DEF ClustersOK, Exists

LEMMA Renaming ==
    ASSUME PeopleInv, NEW c \in Clusters, NEW name \in Names, Rename(c, name) PROVE PeopleInv'
<1>1. FacesOK /\ ClustersOK /\ incoming' = incoming /\ face' = face /\ UNCHANGED <<drawn, pass, passes>>
  BY DEF PeopleInv, Rename
<1>2. cluster[c] # NoCluster /\ cluster' = [cluster EXCEPT ![c] = name]
  BY DEF Rename, Exists
<1>3. cluster' \in [Clusters -> Names \cup {None, NoCluster}] /\ \A d \in Clusters : Exists(d)' <=> Exists(d)
  BY <1>1, <1>2, NullsAreNone DEF ClustersOK, Exists
<1> QED BY <1>1, <1>3, Beside DEF FacesOK

LEMMA NothingHappens ==
    ASSUME PeopleInv, UNCHANGED <<face, cluster, drawn, pass, passes, incoming>> PROVE PeopleInv'
BY Beside DEF PeopleInv, FacesOK, ClustersOK, Exists

LEMMA PeopleStart == Init => PeopleInv
<1> SUFFICES ASSUME Init PROVE PeopleInv
  OBVIOUS
<1>1. scope \in Scopes /\ alive = Photos /\ face = InitialCluster[scope] /\ PeopleInit
  BY DEF Init, LibraryInit, PeopleInit
<1>2. face \in [Faces -> Clusters \cup {None, NoFace}]
  BY <1>1, PeopleAssumption
<1>3. OneFacePerPhoto
  BY <1>1, PeopleAssumption DEF OneFacePerPhoto
<1>4. cluster = [c \in Clusters |-> IF c \in Range(face) THEN None ELSE NoCluster]
  BY <1>1 DEF PeopleInit
<1>5. FacesOK
  <2>1. \A f \in Faces : face[f] \in Clusters => Exists(face[f])
    BY <1>2, <1>4, NullsAreNone DEF Exists, Range
  <2>2. incoming \subseteq Faces
    BY <1>1 DEF PeopleInit
  <2> QED BY <1>2, <2>1, <2>2 DEF FacesOK
<1>6. ClustersOK
  <2> DEFINE used == {c \in Clusters : c \in Range(face)}
  <2>1. drawn = Max({0} \cup used)
    BY <1>1 DEF PeopleInit
  <2>2. Clusters = 1..Max(Clusters) /\ Max(Clusters) \in Nat
    BY ClustersAre
  <2>3. {0} \cup used \subseteq Nat /\ {0} \cup used # {} /\ used \subseteq Clusters
    BY <2>2
  <2>4. IsFiniteSet({0} \cup used)
    <3>1. IsFiniteSet(0..Max(Clusters))
      BY <2>2, FS_Interval
    <3>2. {0} \cup used \in SUBSET (0..Max(Clusters))
      BY <2>2, <2>3
    <3> QED BY <3>1, <3>2, FS_Subset
  <2> HIDE DEF used
  <2>5. drawn \in {0} \cup used /\ \A c \in {0} \cup used : c <= drawn
    BY <2>1, <2>3, <2>4, MaxIsGreatest
  <2>6. drawn \in Nat /\ drawn <= Max(Clusters)
    BY <2>2, <2>3, <2>5
  <2>7. cluster \in [Clusters -> Names \cup {None, NoCluster}] /\ \A c \in Clusters : Exists(c) => c \in used
    BY <1>4 DEF Exists, used
  <2> QED BY <2>5, <2>6, <2>7 DEF ClustersOK
<1>7. PassesOK
  <2>1. DOMAIN pass = Actors /\ passes = 0 /\ \A a \in Actors : pass[a] = IdlePass
    BY <1>1 DEF PeopleInit
  <2>2. DOMAIN IdlePass = Fields /\ IdlePass.pc = "idle"
    BY DEF IdlePass, Fields
  <2>3. \A a \in Actors : PassOK(a)
    BY <2>1, <2>2 DEF PassOK, Incremental
  <2> QED BY <2>1, <2>3, PeopleAssumption DEF PassesOK
<1> QED BY <1>3, <1>5, <1>6, <1>7 DEF PeopleInv

LEMMA PassesAreSafe == ASSUME PeopleInv, NEW a \in Actors, PassStep(a), UNCHANGED libraryVars PROVE PeopleInv'
BY Beginning, ReadingAll, WritingAll, ReadingNew, ReadingMeans, ReadingPairs, WritingAssigned DEF PassStep

(* The invariant is inductive. *)
LEMMA PeopleInvariant == PeopleInv /\ [Next]_galleryVars => PeopleInv'
<1> SUFFICES ASSUME PeopleInv, [Next]_galleryVars PROVE PeopleInv'
  OBVIOUS
<1>1. CASE UNCHANGED <<face, cluster, drawn, pass, passes, incoming>>
  BY <1>1, NothingHappens
<1>2. CASE ScanAndClock
  <2>1. ASSUME NEW p \in Photos, PhotoGoes(p) PROVE PeopleInv'
    BY <2>1, Cascading
  <2>2. CASE ((\E p \in Photos : CorrectDate(p)) \/ Tomorrow) /\ UNCHANGED peopleVars
    BY <1>1, <2>2 DEF CorrectDate, Tomorrow, peopleVars
  <2> QED BY <1>2, <2>1, <2>2 DEF ScanAndClock
<1>3. CASE PeopleStep
  <2>1. ASSUME NEW a \in Actors, PassStep(a), UNCHANGED libraryVars PROVE PeopleInv'
    BY <2>1, PassesAreSafe
  <2>2. CASE ReadUntagged \/ InsertFace
    BY <2>2, Listing, Inserting
  <2>3. CASE ReadPreferences \/ TimePasses \/ WritePreferences
    BY <1>1, <2>3 DEF ReadPreferences, TimePasses, WritePreferences
  <2> QED BY <1>3, <2>1, <2>2, <2>3 DEF PeopleStep
<1>4. CASE RenamePerson
  BY <1>4, Renaming DEF RenamePerson
<1>5. CASE MemoriesStep \/ AlbumsStep
  BY <1>1, <1>5 DEF MemoriesStep, AlbumsStep, peopleVars, libraryVars, LibraryStill
<1>6. CASE UNCHANGED galleryVars
  BY <1>1, <1>6 DEF galleryVars, libraryVars, peopleVars
<1> QED BY <1>2, <1>3, <1>4, <1>5, <1>6 DEF Next

---------------------------------------------------------------------------
(* The theorems.                                                           *)

(* A pass moves by its own steps only. *)
LEMMA OwnSteps ==
    ASSUME PeopleInv, [Next]_galleryVars, NEW a \in Actors, pass'[a] # pass[a]
    PROVE  PassStep(a)
<1>1. CASE UNCHANGED pass
  BY <1>1
<1>2. ASSUME NEW b \in Actors, PassStep(b), b # a PROVE FALSE
  <2>1. PICK p : Goes(b, p)
    BY <1>2 DEF PassStep, Begin, ReadAll, WriteAll, ReadNew, ReadMeans, ReadPairs, WriteAssigned, Ends
  <2> QED BY <1>2, <2>1 DEF Goes, PeopleInv, PassesOK
<1>3. CASE PeopleStep
  BY <1>1, <1>2, <1>3 DEF PeopleStep, ReadUntagged, InsertFace, ReadPreferences, TimePasses, WritePreferences
<1>4. CASE ScanAndClock
  BY <1>1, <1>4 DEF ScanAndClock, PhotoGoes, CascadeToFaces, peopleVars
<1>5. CASE RenamePerson
  BY <1>1, <1>5 DEF RenamePerson, Rename
<1>6. CASE MemoriesStep \/ AlbumsStep \/ UNCHANGED galleryVars
  BY <1>1, <1>6 DEF MemoriesStep, AlbumsStep, galleryVars, peopleVars
<1> QED BY <1>3, <1>4, <1>5, <1>6 DEF Next

LEMMA FullPassEnds ==
    ASSUME PeopleInv, [Next]_galleryVars, NEW a \in Actors, pass[a].pc = "write all", pass'[a].pc = "idle"
    PROVE  WriteAll(a)
<1>1. PassStep(a)
  BY OwnSteps
<1> QED BY <1>1 DEF PassStep, Begin, ReadAll, ReadNew, ReadMeans, ReadPairs, WriteAssigned

LEMMA IncrementalPassEnds ==
    ASSUME PeopleInv, [Next]_galleryVars, NEW a \in Actors, pass[a].pc = "assign", pass'[a].pc = "idle"
    PROVE  WriteAssigned(a)
<1>1. PassStep(a)
  BY OwnSteps
<1> QED BY <1>1 DEF PassStep, Begin, ReadAll, ReadNew, ReadMeans, ReadPairs, WriteAll

(* The outcome of a full pass: each person's faces that still have a row   *)
(* are in a cluster of their own, with the person's name, and nobody else  *)
(* is in it; and there is no other cluster.                                *)
LEMMA FullPassWrites ==
    ASSUME PeopleInv, NEW a \in Actors, WriteAll(a)
    PROVE  LET people == PeopleAmong(DOMAIN pass[a].seen, NamesSeen(pass[a].seen))
           IN  /\ \A c \in Clusters : cluster'[c] # NoCluster =>
                      \E P \in people : \A f \in Faces : face[f] # NoFace /\ f \in P.faces => face'[f] = c
               /\ \A f \in Faces : face[f] = NoFace => face'[f] = NoFace
               /\ \A f \in Faces : face[f] # NoFace =>
                      \/ face'[f] = None /\ \A P \in people : f \notin P.faces
                      \/ \E P \in people : /\ f \in P.faces
                                           /\ face'[f] \in Clusters /\ cluster'[face'[f]] = P.name
                                           /\ \A g \in Faces : face'[g] = face'[f] => g \in P.faces
                                           /\ \A g \in Faces : face[g] # NoFace /\ g \in P.faces => face'[g] = face'[f]
<1> DEFINE people == PeopleAmong(DOMAIN pass[a].seen, NamesSeen(pass[a].seen))
           found == SetToSeq(people)
           S == DOMAIN pass[a].seen
<1>1. pass[a].people = people /\ PeopleOK(people, S) /\ ClustersOK /\ SeenOK(pass[a].seen)
  BY ToBeWritten DEF WriteAll
<1> HIDE DEF people, S
<1>2. drawn + Len(found) <= Max(Clusters) /\ cluster' = Inserted(found) /\ face' = Regrouped(found)
  BY <1>1 DEF WriteAll
<1>3. /\ Len(found) \in Nat
      /\ \A c \in Clusters : cluster'[c] # NoCluster => c \in drawn + 1 .. drawn + Len(found)
      /\ \A j \in 1..Len(found) : drawn + j \in Clusters /\ cluster'[drawn + j] = found[j].name
  BY <1>1, <1>2, ClustersWritten
<1>4. \A f \in Faces :
          /\ face[f] = NoFace => face'[f] = NoFace
          /\ face[f] # NoFace => \/ face'[f] = None /\ \A j \in 1..Len(found) : f \notin found[j].faces
                                 \/ \E j \in 1..Len(found) : f \in found[j].faces /\ face'[f] = drawn + j
          /\ \A j \in 1..Len(found) : face[f] # NoFace /\ f \in found[j].faces => face'[f] = drawn + j
  BY <1>1, <1>2, FacesWritten
<1>5. /\ \A j \in 1..Len(found) : found[j] \in people
      /\ \A P \in people : \E j \in 1..Len(found) : found[j] = P
  BY <1>1, InSomeOrder DEF PeopleOK
<1> HIDE DEF found
<1>6. \A i, j \in 1..Len(found) : drawn + i = drawn + j => i = j
  BY <1>1, <1>3 DEF ClustersOK
<1>7. \A c \in Clusters : c \in drawn + 1 .. drawn + Len(found) => \E j \in 1..Len(found) : c = drawn + j
  <2> SUFFICES ASSUME NEW c \in drawn + 1 .. drawn + Len(found) PROVE \E j \in 1..Len(found) : c = drawn + j
    OBVIOUS
  <2>1. drawn \in Nat
    BY <1>1 DEF ClustersOK
  <2>2. c - drawn \in 1..Len(found) /\ c = drawn + (c - drawn)
    BY <1>3, <2>1
  <2> QED BY <2>2
<1>8. ASSUME NEW c \in Clusters, cluster'[c] # NoCluster
      PROVE  \E P \in people : \A f \in Faces : face[f] # NoFace /\ f \in P.faces => face'[f] = c
  <2>1. PICK j \in 1..Len(found) : c = drawn + j
    BY <1>3, <1>7, <1>8
  <2> QED BY <1>4, <1>5, <2>1
<1>9. ASSUME NEW f \in Faces, NEW j \in 1..Len(found), f \in found[j].faces, face'[f] = drawn + j
      PROVE  /\ face'[f] \in Clusters /\ cluster'[face'[f]] = found[j].name
             /\ \A g \in Faces : face'[g] = face'[f] => g \in found[j].faces
             /\ \A g \in Faces : face[g] # NoFace /\ g \in found[j].faces => face'[g] = face'[f]
  <2>1. face'[f] \in Clusters /\ cluster'[face'[f]] = found[j].name
    BY <1>3, <1>9
  <2>2. ASSUME NEW g \in Faces, face'[g] = face'[f] PROVE g \in found[j].faces
    <3>1. PICK i \in 1..Len(found) : g \in found[i].faces /\ face'[g] = drawn + i
      BY <1>4, <2>1, <2>2, NullsAreNone
    <3>2. i = j
      BY <1>6, <1>9, <2>2, <3>1
    <3> QED BY <3>1, <3>2
  <2> QED BY <1>4, <1>9, <2>1, <2>2
<1>10. ASSUME NEW f \in Faces, face[f] # NoFace
       PROVE  \/ face'[f] = None /\ \A P \in people : f \notin P.faces
              \/ \E P \in people : /\ f \in P.faces
                                   /\ face'[f] \in Clusters /\ cluster'[face'[f]] = P.name
                                   /\ \A g \in Faces : face'[g] = face'[f] => g \in P.faces
                                   /\ \A g \in Faces : face[g] # NoFace /\ g \in P.faces => face'[g] = face'[f]
  <2>1. CASE face'[f] = None /\ \A j \in 1..Len(found) : f \notin found[j].faces
    BY <1>5, <2>1
  <2>2. ASSUME NEW j \in 1..Len(found), f \in found[j].faces, face'[f] = drawn + j
        PROVE  \E P \in people : /\ f \in P.faces
                                 /\ face'[f] \in Clusters /\ cluster'[face'[f]] = P.name
                                 /\ \A g \in Faces : face'[g] = face'[f] => g \in P.faces
                                 /\ \A g \in Faces : face[g] # NoFace /\ g \in P.faces => face'[g] = face'[f]
    BY <1>5, <1>9, <2>2
  <2> QED BY <1>4, <1>10, <2>1, <2>2
<1> QED BY <1>4, <1>8, <1>10 DEF people

(* Faces, clusters and the counters have their types, and a face is in a   *)
(* cluster that has a row, although an incremental pass writes targets it  *)
(* chose before a full pass may have replaced every cluster.               *)
THEOREM PeopleAreTyped == Spec => []PeopleTypeOK
<1>1. PeopleInv => PeopleTypeOK
  BY ClustersAre DEF PeopleInv, FacesOK, ClustersOK, PassesOK, PeopleTypeOK, Exists
<1> QED BY <1>1, PeopleStart, PeopleInvariant, PTL DEF Spec

(* Two faces of one photo are never in the same cluster: not through what  *)
(* a full pass keeps of each group, not through what an incremental pass   *)
(* assigns, and not when a full pass of the server comes between its reads *)
(* and its write (face_clusters.py:513-515).                               *)
THEOREM FacesOfAPhotoAreApart == Spec => []OneFacePerPhoto
<1>1. PeopleInv => OneFacePerPhoto
  BY DEF PeopleInv
<1> QED BY <1>1, PeopleStart, PeopleInvariant, PTL DEF Spec

LEMMA EveryoneHasAFace ==
    ASSUME PeopleInv, NEW a \in Actors, WriteAll(a), DOMAIN pass[a].seen \subseteq HasRow, NEW c \in Clusters, cluster'[c] # NoCluster
    PROVE  \E f \in Faces : face'[f] = c
<1>1. PICK P \in PeopleAmong(DOMAIN pass[a].seen, NamesSeen(pass[a].seen)) :
          \A f \in Faces : face[f] # NoFace /\ f \in P.faces => face'[f] = c
  BY FullPassWrites
<1>2. P.faces # {} /\ P.faces \subseteq DOMAIN pass[a].seen
  BY <1>1, ToBeWritten DEF WriteAll, PeopleOK
<1> QED BY <1>1, <1>2 DEF HasRow

(* A full pass leaves no cluster without a face, unless a photo went while *)
(* it ran: of each person at least one face survives the one-per-image     *)
(* rule, and what survives is in nobody else (face_clusters.py:125-127).   *)
THEOREM NobodyIsFaceless == Spec => NoFacelessPeople
<1>1. PeopleInv /\ [Next]_galleryVars =>
        [\A a \in Actors : pass[a].pc = "write all" /\ pass'[a].pc = "idle"
            /\ DOMAIN pass[a].seen \subseteq HasRow =>
          \A c \in Clusters : cluster'[c] # NoCluster => \E f \in Faces : face'[f] = c]_peopleVars
  BY FullPassEnds, EveryoneHasAFace
<1> QED BY <1>1, PeopleStart, PeopleInvariant, PTL DEF Spec, NoFacelessPeople

LEMMA NobodyIsMissed ==
    ASSUME PeopleInv, NEW a \in Actors, WriteAll(a), pass[a].seen = SeenNow, \A f \in HasRow : face'[f] = None
    PROVE  PeopleAmong(HasRow, NamesNow) = {}
<1>1. DOMAIN pass[a].seen = HasRow /\ NamesSeen(pass[a].seen) = NamesNow
  BY SeenNowIs DEF PeopleInv
<1> DEFINE people == PeopleAmong(HasRow, NamesNow)
<1>2. pass[a].people = people /\ PeopleOK(people, HasRow)
  BY <1>1, ToBeWritten DEF WriteAll
<1>3. /\ people = PeopleAmong(DOMAIN pass[a].seen, NamesSeen(pass[a].seen))
      /\ \A f \in Faces : face[f] # NoFace =>
             \/ face'[f] = None /\ \A P \in people : f \notin P.faces
             \/ face'[f] \in Clusters
  BY <1>1, FullPassWrites
<1>4. ASSUME NEW P \in people PROVE FALSE
  <2>1. PICK f \in HasRow : f \in P.faces
    BY <1>2 DEF PeopleOK
  <2>2. f \in Faces /\ face[f] # NoFace
    BY DEF HasRow
  <2> QED BY <1>3, <2>1, <2>2, NullsAreNone
<1> QED BY <1>4

LEMMA SomebodyStays ==
    ASSUME PeopleInv, NEW a \in Actors, WriteAssigned(a), pass[a].seen = SeenNow, \A f \in HasRow : face'[f] = None
    PROVE  HasRow = {}
<1>1. SomebodySeen(SeenNow) /\ ToOK(pass[a].to) /\ FacesOK /\ ClustersOK
  BY DEF PeopleInv, PassesOK, PassOK, WriteAssigned, Incremental
<1>2. DOMAIN SeenNow = HasRow /\ HasRow \subseteq Faces /\ \A f \in HasRow : SeenNow[f][1] = face[f]
  BY <1>1, SeenNowIs
<1> DEFINE to == pass[a].to
<1>3. \A f \in DOMAIN to : to[f] # None
  <2>1. PICK D \in SUBSET Faces : to \in [D -> 1..drawn]
    BY <1>1 DEF ToOK
  <2>2. 1..drawn \subseteq Clusters
    BY <1>1, ClustersAre DEF ClustersOK
  <2> QED BY <2>1, <2>2, NullsAreNone
<1>4. \A f \in HasRow : face'[f] = None => face[f] = None
  BY <1>2, <1>3 DEF WriteAssigned, Assigned
<1> QED BY <1>1, <1>2, <1>4 DEF SomebodySeen

(* A pass under which nothing changed never ends with all faces unassigned *)
(* while they make a group: a full pass assigns each group's, and the      *)
(* incremental pass, which cannot make the first cluster, is not chosen    *)
(* when there is none (face_clusters.py:102-103).                          *)
THEOREM PeopleDoAppear == Spec => FirstPeopleAppear
<1>1. ASSUME PeopleInv, [Next]_galleryVars, NEW a \in Actors, pass[a].pc \in {"assign", "write all"}, pass'[a].pc = "idle",
             pass[a].seen = SeenNow, \A f \in HasRow : face'[f] = None
      PROVE  PeopleAmong(HasRow, NamesNow) = {}
  <2>1. CASE pass[a].pc = "write all"
    BY <1>1, <2>1, FullPassEnds, NobodyIsMissed
  <2>2. CASE pass[a].pc = "assign"
    <3>1. HasRow = {}
      BY <1>1, <2>2, IncrementalPassEnds, SomebodyStays
    <3>2. \A P \in PeopleAmong(HasRow, NamesNow) : P.faces \subseteq HasRow /\ P.faces # {}
      BY <3>1, PeopleFound
    <3> QED BY <3>1, <3>2
  <2> QED BY <1>1, <2>1, <2>2
<1>2. PeopleInv /\ [Next]_galleryVars =>
        [\A a \in Actors : pass[a].pc \in {"assign", "write all"} /\ pass'[a].pc = "idle"
            /\ pass[a].seen = SeenNow /\ (\A f \in HasRow : face'[f] = None) =>
          PeopleAmong(HasRow, NamesNow) = {}]_peopleVars
  BY <1>1
<1> QED BY <1>2, PeopleStart, PeopleInvariant, PTL DEF Spec, FirstPeopleAppear

LEMMA NameStays ==
    ASSUME PeopleInv, NEW a \in Actors, WriteAll(a), pass[a].seen = SeenNow, NEW name \in Names, NEW c \in Clusters,
           {f \in HasRow : NamesNow[f] = name} # {},
           \A f \in HasRow : NamesNow[f] = name => face'[f] = c,
           \A f \in Faces : face'[f] = c => NamesNow[f] \in {name, None},
           \A f \in HasRow : NamesNow[f] \notin {name, None} => face'[f] # None
    PROVE  cluster'[c] = name
<1> DEFINE people == PeopleAmong(HasRow, NamesNow)
<1>1. DOMAIN pass[a].seen = HasRow /\ NamesSeen(pass[a].seen) = NamesNow /\ HasRow \subseteq Faces
  BY SeenNowIs DEF PeopleInv
<1>2. PICK f \in HasRow : NamesNow[f] = name /\ face'[f] = c
  OBVIOUS
<1> HIDE DEF people
<1> PeopleAmong(DOMAIN pass[a].seen, NamesSeen(pass[a].seen)) = people
  BY <1>1 DEF people
<1>3. \A g \in HasRow :
          \/ face'[g] = None /\ \A P \in people : g \notin P.faces
          \/ \E P \in people : /\ g \in P.faces
                               /\ face'[g] \in Clusters /\ cluster'[face'[g]] = P.name
                               /\ \A h \in Faces : face[h] # NoFace /\ h \in P.faces => face'[h] = face'[g]
  <2>1. \A g \in Faces : face[g] # NoFace =>
          \/ face'[g] = None /\ \A P \in people : g \notin P.faces
          \/ \E P \in people : /\ g \in P.faces
                               /\ face'[g] \in Clusters /\ cluster'[face'[g]] = P.name
                               /\ \A h \in Faces : face'[h] = face'[g] => h \in P.faces
                               /\ \A h \in Faces : face[h] # NoFace /\ h \in P.faces => face'[h] = face'[g]
    BY FullPassWrites
  <2> QED BY <2>1 DEF HasRow
<1>4. PICK P \in people : /\ f \in P.faces /\ cluster'[c] = P.name
                          /\ \A h \in Faces : face[h] # NoFace /\ h \in P.faces => face'[h] = c
  BY <1>2, <1>3, NullsAreNone
<1>5. PICK M \in SUBSET HasRow : /\ P.faces \subseteq M
                                 /\ \A Q \in people : Q # P => Q.faces \cap M = {}
                                 /\ P.name \in Electable(M, NamesNow)
  <2>1. HasRow \subseteq Faces /\ P \in PeopleAmong(HasRow, NamesNow)
    BY <1>1, <1>4 DEF people
  <2>2. \E M \in SUBSET HasRow :
            /\ P.faces \subseteq M
            /\ \A Q \in PeopleAmong(HasRow, NamesNow) : Q # P => Q.faces \cap M = {}
            /\ P.name \in Electable(M, NamesNow)
    <3> DEFINE S == HasRow
               nameOf == NamesNow
    <3>1. S \subseteq Faces /\ P \in PeopleAmong(S, nameOf)
      BY <2>1
    <3> HIDE DEF S, nameOf
    <3>2. \E M \in SUBSET S :
              /\ P.faces \subseteq M
              /\ \A Q \in PeopleAmong(S, nameOf) : Q # P => Q.faces \cap M = {}
              /\ P.name \in Electable(M, nameOf)
      BY ONLY <3>1, NamesFound
    <3> QED BY <3>2 DEF S, nameOf
  <2> QED BY <2>2 DEF people
<1>6. PICK g \in M : NamesNow[g] # None /\ P.name = NamesNow[g]
  BY <1>2, <1>4, <1>5, NullsAreNone DEF Electable, Named
<1>7. ASSUME NamesNow[g] # name PROVE FALSE
  <2>1. face'[g] # None /\ g \in HasRow
    BY <1>5, <1>6, <1>7
  <2>2. PICK Q \in people : g \in Q.faces
    BY <1>3, <2>1
  <2>3. Q = P
    BY <1>5, <1>6, <2>2
  <2>4. face'[g] = c
    BY <1>1, <1>4, <2>1, <2>2, <2>3 DEF HasRow
  <2> QED BY <1>1, <1>6, <1>7, <2>1, <2>4
<1> QED BY <1>4, <1>6, <1>7

(* A full pass under which nothing changed leaves a name where it was,     *)
(* however it groups and merges: the cluster is named by a vote of those   *)
(* put together, and only faces of that name can have voted.               *)
THEOREM NamesDoStay == Spec => NamesAreKept
<1>1. PeopleInv /\ [Next]_galleryVars =>
        [\A a \in Actors : pass[a].pc = "write all" /\ pass[a].seen = SeenNow /\ pass'[a].pc = "idle" =>
          \A name \in Names : \A c \in Clusters :
              LET theirs == {f \in HasRow : NamesNow[f] = name}
                  members == {f \in Faces : face'[f] = c}
              IN  theirs # {} /\ theirs \subseteq members
                  /\ (\A f \in members : NamesNow[f] \in {name, None})
                  /\ (\A f \in HasRow : NamesNow[f] \notin {name, None} => face'[f] # None) =>
                        cluster'[c] = name]_peopleVars
  BY FullPassEnds, NameStays
<1> QED BY <1>1, PeopleStart, PeopleInvariant, PTL DEF Spec, NamesAreKept

---------------------------------------------------------------------------
(* Albums.                                                                 *)

(* A request is of this shape; what photos and which row it carries does   *)
(* not matter for its own sake.                                            *)
Shape(r) ==
    r \in [kind : {"none", "create", "from memory", "update", "open", "delete", "add", "remove"},
           pc : {"idle", "check name", "insert", "recheck name", "read album", "verify", "write"},
           id : AlbumIds \cup {0}, name : AlbumNames \cup {None}, lock : BOOLEAN,
           password : Passwords \cup {None}, current : Passwords \cup {None},
           photos : {r.photos}, row : {r.row}, reply : {"none", "200", "400", "401", "404", "409", "500"}]

(* A request that will write a name has one, one that will insert has an   *)
(* id, and nothing is answered before the end.                             *)
Prepared(r) ==
    /\ r.kind \in {"create", "from memory", "update"} => r.name \in AlbumNames
    /\ r.pc = "insert" => r.id \in AlbumIds
    /\ r.pc # "idle" => r.reply = "none"

(* Who is about to write to a row it has seen locked knew its password.    *)
Cleared(r) ==
    r.pc = "write" /\ r.kind \in {"update", "open"} /\ r.row.locked
        => r.current # None /\ r.current = r.row.secret

Sound(r) == Shape(r) /\ Prepared(r) /\ Cleared(r)

RequestsSound ==
    /\ request = [c \in Clients |-> request[c]]
    /\ \A c \in Clients : Sound(request[c])

(* An id that was drawn for an album to come is used by nobody else. *)
IdsAreFresh ==
    \A c \in Clients : request[c].pc = "insert" =>
        /\ request[c].id \notin DOMAIN albums
        /\ \A d \in Clients \ {c} : request[d].id # request[c].id

AlbumsInv == AlbumsTypeOK /\ RequestsSound /\ IdsAreFresh

---------------------------------------------------------------------------
(* One request moves on, and stays sound: so do all. *)
LEMMA OneMoves ==
    ASSUME RequestsSound, NEW c \in Clients, NEW r, Sound(r), request' = [request EXCEPT ![c] = r]
    PROVE  RequestsSound' /\ request'[c] = r /\ \A d \in Clients \ {c} : request'[d] = request[d]
<1>1. request'[c] = r /\ \A d \in Clients \ {c} : request'[d] = request[d]
  BY DEF RequestsSound
<1>2. \A d \in Clients : Sound(request'[d])
  BY <1>1 DEF RequestsSound
<1>3. request' = [d \in Clients |-> request'[d]]
  BY DEF RequestsSound
<1> QED BY <1>1, <1>2, <1>3 DEF RequestsSound

(* Ids stay fresh when one client moves without drawing an id or adding an *)
(* album.                                                                  *)
LEMMA IdsStay ==
    ASSUME IdsAreFresh, NEW c \in Clients, \A d \in Clients \ {c} : request'[d] = request[d],
           DOMAIN albums' \subseteq DOMAIN albums,
           request'[c].pc # "insert",
           request'[c].id \in {request[c].id, 0} \cup DOMAIN albums,
           \A d \in Clients : request[d].pc = "insert" => request[d].id # 0
    PROVE  IdsAreFresh'
<1> SUFFICES ASSUME NEW d \in Clients, request'[d].pc = "insert"
             PROVE  /\ request'[d].id \notin DOMAIN albums'
                    /\ \A e \in Clients \ {d} : request'[e].id # request'[d].id
  BY DEF IdsAreFresh
<1>1. d # c /\ request'[d] = request[d]
  OBVIOUS
<1>2. request[d].id \notin DOMAIN albums /\ \A e \in Clients \ {d} : request[e].id # request[d].id
  BY <1>1 DEF IdsAreFresh
<1>3. request[d].id # 0
  BY <1>1
<1> QED BY <1>1, <1>2, <1>3

(* A drawn id is not the id of a request that has none. *)
LEMMA DrawnIds ==
    ASSUME RequestsSound PROVE \A d \in Clients : request[d].pc = "insert" => request[d].id # 0
BY AlbumsAssumption DEF RequestsSound, Sound, Prepared

Replies == {"200", "400", "401", "404", "409", "500"}

(* An answer ends a request; nothing else of it changes. *)
LEMMA AnswerSound ==
    ASSUME RequestsSound, NEW c \in Clients, NEW reply \in Replies, Answers(c, reply)
    PROVE  RequestsSound' /\ request'[c].pc = "idle" /\ request'[c].id = request[c].id
           /\ request'[c].reply = reply /\ \A d \in Clients \ {c} : request'[d] = request[d]
<1> DEFINE r == [request[c] EXCEPT !.pc = "idle", !.reply = reply]
<1>1. Sound(request[c]) /\ request' = [request EXCEPT ![c] = r]
  BY DEF RequestsSound, Answers
<1>2. Shape(r) /\ r.pc = "idle" /\ r.reply = reply /\ r.kind = request[c].kind
      /\ r.name = request[c].name /\ r.id = request[c].id
  BY <1>1 DEF Sound, Shape, Replies
<1>3. Sound(r)
  BY <1>1, <1>2 DEF Sound, Prepared, Cleared
<1> HIDE DEF r
<1> QED BY <1>1, <1>2, <1>3, OneMoves

(* A request goes to another place than the insertion or the writing. *)
LEMMA MoveSound ==
    ASSUME RequestsSound, NEW c \in Clients, Moves(c, "recheck name"), request[c].pc = "insert"
    PROVE  RequestsSound' /\ request'[c].pc = "recheck name" /\ request'[c].id = request[c].id
           /\ request'[c].reply = "none" /\ \A d \in Clients \ {c} : request'[d] = request[d]
<1> DEFINE r == [request[c] EXCEPT !.pc = "recheck name"]
<1>1. Sound(request[c]) /\ request' = [request EXCEPT ![c] = r]
  BY DEF RequestsSound, Moves
<1>2. Shape(r) /\ r.pc = "recheck name" /\ r.reply = request[c].reply /\ r.kind = request[c].kind
      /\ r.name = request[c].name /\ r.id = request[c].id
  BY <1>1 DEF Sound, Shape
<1>3. Sound(r) /\ r.reply = "none"
  BY <1>1, <1>2 DEF Sound, Prepared, Cleared
<1> HIDE DEF r
<1> QED BY <1>1, <1>2, <1>3, OneMoves

(* A new request begins with nothing known and nothing drawn. *)
LEMMA AskSound ==
    ASSUME RequestsSound, NEW c \in Clients, NEW r, Asks(c, r), Shape(r),
           r.kind \in {"create", "from memory", "update"} => r.name \in AlbumNames,
           r.pc \notin {"insert", "write"}, r.pc # "idle" => r.reply = "none"
    PROVE  RequestsSound' /\ request'[c] = r /\ \A d \in Clients \ {c} : request'[d] = request[d]
<1>1. Sound(r)
  BY DEF Sound, Prepared, Cleared
<1> QED BY <1>1, OneMoves DEF Asks

---------------------------------------------------------------------------
(* Asking. *)
LEMMA AskingKeeps ==
    ASSUME AlbumsInv, NEW c \in Clients, UNCHANGED alive,
           Ask(c) \/ \E photos : AskFromMemory(c, photos)
    PROVE  AlbumsInv'
<1> USE DEF AlbumsInv
<1>a. ASSUME UNCHANGED albums, NEW r, Asks(c, r), Shape(r), r.id \in {0} \cup DOMAIN albums,
             r.kind \in {"create", "from memory", "update"} => r.name \in AlbumNames,
             r.pc \notin {"insert", "write"}, r.pc # "idle" => r.reply = "none"
      PROVE  AlbumsInv'
  <2>1. RequestsSound' /\ request'[c] = r /\ \A d \in Clients \ {c} : request'[d] = request[d]
    BY <1>a, AskSound
  <2>2. IdsAreFresh'
    BY <1>a, <2>1, DrawnIds, IdsStay
  <2>3. AlbumsTypeOK'
    BY <1>a DEF AlbumsTypeOK, AlbumRow
  <2> QED BY <2>1, <2>2, <2>3
<1>1. CASE AskCreate(c)
  <2> PICK name \in AlbumNames, lock \in BOOLEAN, password \in Passwords \cup {None} :
          Asks(c, [NoRequest EXCEPT !.kind = "create", !.pc = "check name", !.name = name,
                                    !.lock = lock, !.password = password])
    BY <1>1 DEF AskCreate
  <2> DEFINE r == [NoRequest EXCEPT !.kind = "create", !.pc = "check name", !.name = name,
                                    !.lock = lock, !.password = password]
  <2>1. Shape(r) /\ r.kind = "create" /\ r.name = name /\ r.pc = "check name" /\ r.id = 0 /\ r.reply = "none"
    BY DEF Shape, NoRequest
  <2> QED BY <1>1, <1>a, <2>1 DEF AskCreate
<1>2. ASSUME NEW photos, AskFromMemory(c, photos) PROVE AlbumsInv'
  <2> DEFINE r(name) == [NoRequest EXCEPT !.kind = "from memory", !.name = name, !.photos = photos,
                            !.pc = IF photos = {} THEN "idle" ELSE "check name",
                            !.reply = IF photos = {} THEN "400" ELSE "none"]
  <2> PICK name \in AlbumNames : Asks(c, r(name))
    BY <1>2 DEF AskFromMemory
  <2>1. Shape(r(name)) /\ r(name).kind = "from memory" /\ r(name).name = name /\ r(name).id = 0
        /\ r(name).pc \in {"idle", "check name"} /\ (r(name).pc # "idle" => r(name).reply = "none")
    BY DEF Shape, NoRequest
  <2> QED BY <1>2, <1>a, <2>1 DEF AskFromMemory
<1>3. CASE AskUpdate(c)
  <2> DEFINE r(a, name, lock, password, current) ==
          [NoRequest EXCEPT !.kind = "update", !.pc = "read album", !.id = a, !.name = name,
                            !.lock = lock, !.password = password, !.current = current]
  <2> PICK a \in DOMAIN albums, name \in AlbumNames, lock \in BOOLEAN,
           password \in Passwords \cup {None}, current \in Passwords \cup {None} :
           Asks(c, r(a, name, lock, password, current))
    BY <1>3 DEF AskUpdate
  <2> DEFINE q == r(a, name, lock, password, current)
  <2>0. a \in AlbumIds
    BY DEF AlbumsTypeOK
  <2>1. Shape(q) /\ q.kind = "update" /\ q.name = name /\ q.pc = "read album" /\ q.id = a /\ q.reply = "none"
    BY <2>0 DEF Shape, NoRequest
  <2> QED BY <1>3, <1>a, <2>1 DEF AskUpdate
<1>4. CASE AskOpen(c)
  <2> DEFINE r(a, current) ==
          [NoRequest EXCEPT !.kind = "open", !.pc = "read album", !.id = a, !.current = current]
  <2> PICK a \in DOMAIN albums, current \in Passwords \cup {None} : Asks(c, r(a, current))
    BY <1>4 DEF AskOpen
  <2>0. a \in AlbumIds
    BY DEF AlbumsTypeOK
  <2>1. Shape(r(a, current)) /\ r(a, current).kind = "open" /\ r(a, current).pc = "read album"
        /\ r(a, current).id = a /\ r(a, current).reply = "none"
    BY <2>0 DEF Shape, NoRequest
  <2> QED BY <1>4, <1>a, <2>1 DEF AskOpen
<1>5. CASE AskOther(c)
  <2> DEFINE r(a, kind, photos) ==
          [NoRequest EXCEPT !.kind = kind, !.pc = "read album", !.id = a, !.photos = photos]
  <2> PICK a \in DOMAIN albums, kind \in {"delete", "add", "remove"}, photos \in SUBSET Photos :
           Asks(c, r(a, kind, photos))
    BY <1>5 DEF AskOther
  <2> DEFINE q == r(a, kind, photos)
  <2>0. a \in AlbumIds
    BY DEF AlbumsTypeOK
  <2>1. Shape(q) /\ q.kind = kind /\ q.pc = "read album" /\ q.id = a /\ q.reply = "none"
    BY <2>0 DEF Shape, NoRequest
  <2> QED BY <1>5, <1>a, <2>1 DEF AskOther
<1> QED BY <1>1, <1>2, <1>3, <1>4, <1>5 DEF Ask

---------------------------------------------------------------------------
(* Handling.  A step that ends its request and takes no album's id or name *)
(* away from another keeps the ids fresh.                                  *)
LEMMA AnsweredIds ==
    ASSUME RequestsSound, IdsAreFresh, NEW c \in Clients, NEW reply \in Replies, Answers(c, reply),
           DOMAIN albums' \subseteq DOMAIN albums
    PROVE  RequestsSound' /\ IdsAreFresh'
<1>1. /\ RequestsSound' /\ request'[c].pc = "idle" /\ request'[c].id = request[c].id
      /\ \A d \in Clients \ {c} : request'[d] = request[d]
  BY AnswerSound
<1> QED BY <1>1, DrawnIds, IdsStay

LEMMA AlbumsUntouched == ASSUME AlbumsTypeOK, UNCHANGED <<albums, alive>> PROVE AlbumsTypeOK'
BY DEF AlbumsTypeOK, AlbumRow

LEMMA CheckNameKeeps ==
    ASSUME AlbumsInv, NEW c \in Clients, UNCHANGED alive, CheckName(c) PROVE AlbumsInv'
<1>1. AlbumsTypeOK' /\ UNCHANGED albums
  BY AlbumsUntouched DEF AlbumsInv, CheckName
<1>2. CASE Answers(c, "409")
  BY <1>1, <1>2, AnsweredIds DEF AlbumsInv, Replies
<1>3. CASE /\ Fresh # {}
           /\ request' = [request EXCEPT ![c].pc = "insert", ![c].id = CHOOSE id \in Fresh : TRUE]
  <2> DEFINE new == CHOOSE id \in Fresh : TRUE
  <2> DEFINE r == [request[c] EXCEPT !.pc = "insert", !.id = new]
  <2>1. new \in Fresh
    BY <1>3
  <2>2. new \in AlbumIds /\ new \notin DOMAIN albums /\ \A d \in Clients : request[d].id # new
    BY <2>1 DEF Fresh
  <2> HIDE DEF new
  <2>3. Sound(request[c]) /\ request' = [request EXCEPT ![c] = r] /\ request[c].pc = "check name"
    BY <1>3 DEF RequestsSound, AlbumsInv, CheckName, new
  <2>4. Shape(r) /\ r.pc = "insert" /\ r.id = new /\ r.reply = request[c].reply
        /\ r.kind = request[c].kind /\ r.name = request[c].name
    BY <2>2, <2>3 DEF Sound, Shape
  <2>5. Sound(r)
    BY <2>2, <2>3, <2>4 DEF Sound, Prepared, Cleared
  <2> HIDE DEF r
  <2>6. RequestsSound' /\ request'[c] = r /\ \A d \in Clients \ {c} : request'[d] = request[d]
    BY <2>3, <2>5, OneMoves DEF AlbumsInv
  <2>7. IdsAreFresh'
    <3> SUFFICES ASSUME NEW d \in Clients, request'[d].pc = "insert"
                 PROVE  /\ request'[d].id \notin DOMAIN albums'
                        /\ \A e \in Clients \ {d} : request'[e].id # request'[d].id
      BY DEF IdsAreFresh
    <3>1. CASE d = c
      BY <1>1, <2>2, <2>4, <2>6, <3>1
    <3>2. CASE d # c
      BY <1>1, <2>2, <2>4, <2>6, <3>2 DEF AlbumsInv, IdsAreFresh
    <3> QED BY <3>1, <3>2
  <2> QED BY <1>1, <2>6, <2>7 DEF AlbumsInv
<1> QED BY <1>2, <1>3 DEF CheckName

(* A new album under the id that was drawn for it. *)
LEMMA AlbumAppears ==
    ASSUME AlbumsInv, NEW c \in Clients, UNCHANGED alive, request[c].pc = "insert",
           ~Taken(request[c].name), NEW row \in AlbumRow(alive), row.name = request[c].name,
           albums' = WithAlbum(request[c].id, row), Answers(c, "200")
    PROVE  AlbumsInv'
<1> DEFINE id == request[c].id
<1>0. id \in AlbumIds /\ id \notin DOMAIN albums /\ DOMAIN albums' = DOMAIN albums \cup {id}
      /\ albums'[id] = row /\ \A a \in DOMAIN albums : albums'[a] = albums[a]
  BY DEF AlbumsInv, RequestsSound, Sound, Prepared, IdsAreFresh, WithAlbum
<1>1. /\ RequestsSound' /\ request'[c].pc = "idle" /\ request'[c].id = id
      /\ \A d \in Clients \ {c} : request'[d] = request[d]
  BY AnswerSound DEF AlbumsInv, Replies
<1> HIDE DEF id
<1>2. IdsAreFresh'
  <2> SUFFICES ASSUME NEW d \in Clients, request'[d].pc = "insert"
               PROVE  /\ request'[d].id \notin DOMAIN albums'
                      /\ \A e \in Clients \ {d} : request'[e].id # request'[d].id
    BY DEF IdsAreFresh
  <2>1. d # c /\ request'[d] = request[d]
    BY <1>1
  <2>2. request[d].id \notin DOMAIN albums /\ \A e \in Clients \ {d} : request[e].id # request[d].id
    BY <2>1 DEF AlbumsInv, IdsAreFresh
  <2> QED BY <1>0, <1>1, <2>1, <2>2 DEF id
<1>3. AlbumsTypeOK'
  <2>1. \A a \in DOMAIN albums' : a \in AlbumIds /\ albums'[a] \in AlbumRow(alive)'
    BY <1>0 DEF AlbumsInv, AlbumsTypeOK, AlbumRow
  <2>2. \A a \in DOMAIN albums : albums[a].name # row.name
    BY DEF Taken
  <2>3. \A a, b \in DOMAIN albums' : albums'[a].name = albums'[b].name => a = b
    BY <1>0, <2>2 DEF AlbumsInv, AlbumsTypeOK
  <2> QED BY <2>1, <2>3 DEF AlbumsTypeOK
<1> QED BY <1>1, <1>2, <1>3 DEF AlbumsInv

LEMMA InsertAlbumKeeps ==
    ASSUME AlbumsInv, NEW c \in Clients, UNCHANGED alive, InsertAlbum(c) PROVE AlbumsInv'
<1> DEFINE r == request[c]
<1>1. CASE Answers(c, "500") /\ UNCHANGED albums
  BY <1>1, AlbumsUntouched, AnsweredIds DEF AlbumsInv, Replies
<1>2. CASE ~Taken(r.name) /\ Answers(c, "200") /\ albums' = WithAlbum(r.id, Album(r.name, r.lock, r.password, {}))
  <2>1. r.pc = "insert" /\ Sound(r) /\ r.name \in AlbumNames
    BY DEF InsertAlbum, On, AlbumsInv, RequestsSound, Sound, Prepared
  <2>2. Album(r.name, r.lock, r.password, {}) \in AlbumRow(alive)
        /\ Album(r.name, r.lock, r.password, {}).name = r.name
    BY <2>1 DEF Album, AlbumRow, Sound, Shape
  <2> QED BY <1>2, <2>1, <2>2, AlbumAppears
<1> QED BY <1>1, <1>2 DEF InsertAlbum

LEMMA InsertAlbumWithImagesKeeps ==
    ASSUME AlbumsInv, NEW c \in Clients, UNCHANGED alive, InsertAlbumWithImages(c) PROVE AlbumsInv'
<1> DEFINE r == request[c]
<1>1. r.pc = "insert" /\ Sound(r) /\ r.name \in AlbumNames
  BY DEF InsertAlbumWithImages, On, AlbumsInv, RequestsSound, Sound, Prepared
<1>2. CASE Moves(c, "recheck name") /\ UNCHANGED albums
  <2>1. /\ RequestsSound' /\ request'[c].pc = "recheck name" /\ request'[c].id = request[c].id
        /\ \A d \in Clients \ {c} : request'[d] = request[d]
    BY <1>1, <1>2, MoveSound DEF AlbumsInv
  <2>2. IdsAreFresh'
    BY <1>2, <2>1, DrawnIds, IdsStay DEF AlbumsInv
  <2> QED BY <1>2, <2>1, <2>2, AlbumsUntouched DEF AlbumsInv
<1>3. CASE /\ ~Taken(r.name) /\ r.photos \subseteq alive /\ Answers(c, "200")
           /\ albums' = WithAlbum(r.id, Album(r.name, FALSE, None, r.photos))
  <2>1. Album(r.name, FALSE, None, r.photos) \in AlbumRow(alive)
        /\ Album(r.name, FALSE, None, r.photos).name = r.name
    BY <1>1, <1>3 DEF Album, AlbumRow
  <2> QED BY <1>1, <1>3, <2>1, AlbumAppears
<1> QED BY <1>2, <1>3 DEF InsertAlbumWithImages

LEMMA RecheckNameKeeps ==
    ASSUME AlbumsInv, NEW c \in Clients, UNCHANGED alive, RecheckName(c) PROVE AlbumsInv'
BY AlbumsUntouched, AnsweredIds DEF AlbumsInv, Replies, RecheckName

LEMMA ReadAlbumKeeps ==
    ASSUME AlbumsInv, NEW c \in Clients, UNCHANGED alive, ReadAlbum(c) PROVE AlbumsInv'
<1> DEFINE q == request[c]
<1>1. CASE Answers(c, "404")
  BY <1>1, AlbumsUntouched, AnsweredIds DEF AlbumsInv, Replies, ReadAlbum
<1>2. CASE request' = [request EXCEPT ![c].row = albums[q.id],
                    ![c].pc = IF q.kind \in {"update", "open"} /\ albums[q.id].locked
                              THEN "verify" ELSE "write"]
  <2> DEFINE r == [q EXCEPT !.row = albums[q.id],
                      !.pc = IF q.kind \in {"update", "open"} /\ albums[q.id].locked
                             THEN "verify" ELSE "write"]
  <2>1. Sound(q) /\ request' = [request EXCEPT ![c] = r] /\ q.pc = "read album" /\ UNCHANGED albums
    BY <1>2 DEF RequestsSound, AlbumsInv, ReadAlbum
  <2>2. Shape(r) /\ r.row = albums[q.id] /\ r.kind = q.kind /\ r.name = q.name /\ r.id = q.id /\ r.reply = q.reply
        /\ r.pc = (IF q.kind \in {"update", "open"} /\ albums[q.id].locked THEN "verify" ELSE "write")
    BY <2>1 DEF Sound, Shape
  <2> HIDE DEF r
  <2>a. Prepared(r)
    BY <2>1, <2>2 DEF Sound, Prepared
  <2>b. ASSUME r.pc = "write", r.kind \in {"update", "open"} PROVE ~albums[q.id].locked
    BY <2>2, <2>b
  <2>c. Cleared(r)
    BY <2>2, <2>b DEF Cleared
  <2>3. Prepared(r) /\ Cleared(r)
    BY <2>a, <2>c
  <2>4. RequestsSound' /\ request'[c] = r /\ \A d \in Clients \ {c} : request'[d] = request[d]
    BY <2>1, <2>2, <2>3, OneMoves DEF AlbumsInv, Sound
  <2>5. IdsAreFresh'
    BY <2>1, <2>2, <2>4, DrawnIds, IdsStay DEF AlbumsInv
  <2> QED BY <2>1, <2>4, <2>5, AlbumsUntouched DEF AlbumsInv
<1> QED BY <1>1, <1>2 DEF ReadAlbum

LEMMA VerifyKeeps ==
    ASSUME AlbumsInv, NEW c \in Clients, UNCHANGED alive, Verify(c) PROVE AlbumsInv'
<1> DEFINE q == request[c]
<1>1. CASE Answers(c, "401")
  BY <1>1, AlbumsUntouched, AnsweredIds DEF AlbumsInv, Replies, Verify
<1>2. CASE /\ q.current # None /\ albums[q.id].secret = q.current
           /\ request' = [request EXCEPT ![c].pc = "write", ![c].row = albums[q.id]]
  <2> DEFINE r == [q EXCEPT !.pc = "write", !.row = albums[q.id]]
  <2>1. Sound(q) /\ request' = [request EXCEPT ![c] = r] /\ q.pc = "verify" /\ UNCHANGED albums
    BY <1>2 DEF RequestsSound, AlbumsInv, Verify
  <2>2. Shape(r) /\ r.row = albums[q.id] /\ r.kind = q.kind /\ r.name = q.name /\ r.id = q.id /\ r.reply = q.reply
        /\ r.pc = "write" /\ r.current = q.current
    BY <2>1 DEF Sound, Shape
  <2>3. Prepared(r) /\ Cleared(r)
    BY <1>2, <2>1, <2>2 DEF Sound, Prepared, Cleared
  <2> HIDE DEF r
  <2>4. RequestsSound' /\ request'[c] = r /\ \A d \in Clients \ {c} : request'[d] = request[d]
    BY <2>1, <2>2, <2>3, OneMoves DEF AlbumsInv, Sound
  <2>5. IdsAreFresh'
    BY <2>1, <2>2, <2>4, DrawnIds, IdsStay DEF AlbumsInv
  <2> QED BY <2>1, <2>4, <2>5, AlbumsUntouched DEF AlbumsInv
<1> QED BY <1>1, <1>2 DEF Verify

(* Rows stay rows when names stay different and no photo is added that is  *)
(* not there.                                                              *)
LEMMA RowsChange ==
    ASSUME AlbumsInv, NEW c \in Clients, UNCHANGED alive,
           NEW reply \in Replies, Answers(c, reply), DOMAIN albums' \subseteq DOMAIN albums,
           \A a \in DOMAIN albums' : albums'[a] \in AlbumRow(alive),
           \A a, b \in DOMAIN albums' : albums'[a].name = albums'[b].name => a = b
    PROVE  AlbumsInv'
<1>1. RequestsSound' /\ IdsAreFresh'
  BY AnsweredIds DEF AlbumsInv
<1>2. AlbumsTypeOK'
  BY DEF AlbumsInv, AlbumsTypeOK, AlbumRow
<1> QED BY <1>1, <1>2 DEF AlbumsInv

LEMMA UpdateAlbumKeeps ==
    ASSUME AlbumsInv, NEW c \in Clients, UNCHANGED alive, UpdateAlbum(c) PROVE AlbumsInv'
<1> DEFINE r == request[c]
<1>0. Sound(r) /\ r.kind = "update" /\ r.name \in AlbumNames
  BY DEF AlbumsInv, RequestsSound, Sound, Prepared, UpdateAlbum, On
<1>1. CASE Answers(c, "400") /\ UNCHANGED albums
  BY <1>1, AlbumsUntouched, AnsweredIds DEF AlbumsInv, Replies
<1>2. CASE /\ r.id \notin DOMAIN albums \/ \A a \in DOMAIN albums : a # r.id => albums[a].name # r.name
           /\ albums' = Changed(r) /\ Answers(c, "200")
  <2>0. DOMAIN albums' = DOMAIN albums
    BY <1>2 DEF Changed
  <2>1. ASSUME NEW a \in DOMAIN albums, a = r.id
        PROVE  albums'[a] \in AlbumRow(alive) /\ albums'[a].name = r.name
    <3>1. albums[a] \in AlbumRow(alive)
      BY DEF AlbumsInv, AlbumsTypeOK
    <3>2. albums'[a] = Album(r.name, r.lock, IF r.password = None THEN albums[a].secret ELSE r.password,
                             albums[a].photos)
      BY <1>2, <2>1 DEF Changed
    <3>3. r.lock \in BOOLEAN /\ r.password \in Passwords \cup {None}
      BY <1>0 DEF Sound, Shape
    <3> QED BY <1>0, <3>1, <3>2, <3>3 DEF Album, AlbumRow
  <2>2. ASSUME NEW a \in DOMAIN albums, a # r.id PROVE albums'[a] = albums[a] /\ albums[a] \in AlbumRow(alive)
    BY <1>2, <2>2 DEF Changed, AlbumsInv, AlbumsTypeOK
  <2>3. \A a \in DOMAIN albums' : albums'[a] \in AlbumRow(alive)
    BY <2>0, <2>1, <2>2
  <2>4. \A a, b \in DOMAIN albums : albums[a].name = albums[b].name => a = b
    BY DEF AlbumsInv, AlbumsTypeOK
  <2>5. \A a, b \in DOMAIN albums' : albums'[a].name = albums'[b].name => a = b
    BY <1>2, <2>0, <2>1, <2>2, <2>4
  <2> QED BY <1>2, <2>0, <2>3, <2>5, RowsChange DEF Replies
<1> QED BY <1>1, <1>2 DEF UpdateAlbum

LEMMA OpenAlbumKeeps ==
    ASSUME AlbumsInv, NEW c \in Clients, UNCHANGED alive, OpenAlbum(c) PROVE AlbumsInv'
<1> DEFINE q == request[c]
           shown == IF q.id \in DOMAIN albums THEN albums[q.id].photos ELSE {}
           r == [q EXCEPT !.pc = "idle", !.reply = "200", !.photos = shown]
<1>1. Sound(q) /\ request' = [request EXCEPT ![c] = r] /\ UNCHANGED albums
  BY DEF RequestsSound, AlbumsInv, OpenAlbum
<1>2. Shape(r) /\ r.pc = "idle" /\ r.kind = q.kind /\ r.name = q.name /\ r.id = q.id
  BY <1>1 DEF Sound, Shape
<1> HIDE DEF r
<1>3. Sound(r)
  BY <1>1, <1>2 DEF Sound, Prepared, Cleared
<1>4. RequestsSound' /\ request'[c] = r /\ \A d \in Clients \ {c} : request'[d] = request[d]
  BY <1>1, <1>3, OneMoves DEF AlbumsInv
<1>5. IdsAreFresh'
  BY <1>1, <1>2, <1>4, DrawnIds, IdsStay DEF AlbumsInv
<1> QED BY <1>1, <1>4, <1>5, AlbumsUntouched DEF AlbumsInv

LEMMA DeleteAlbumKeeps ==
    ASSUME AlbumsInv, NEW c \in Clients, UNCHANGED alive, DeleteAlbum(c) PROVE AlbumsInv'
<1>1. DOMAIN albums' \subseteq DOMAIN albums /\ \A a \in DOMAIN albums' : albums'[a] = albums[a]
  BY DEF DeleteAlbum
<1>2. \A a \in DOMAIN albums' : albums'[a] \in AlbumRow(alive)
  BY <1>1 DEF AlbumsInv, AlbumsTypeOK
<1>3. \A a, b \in DOMAIN albums' : albums'[a].name = albums'[b].name => a = b
  BY <1>1 DEF AlbumsInv, AlbumsTypeOK
<1> QED BY <1>1, <1>2, <1>3, RowsChange DEF DeleteAlbum, Replies

(* Changes of the photos alone. *)
LEMMA PhotosChange ==
    ASSUME AlbumsInv, NEW c \in Clients, UNCHANGED alive, NEW reply \in Replies, Answers(c, reply),
           DOMAIN albums' = DOMAIN albums,
           \A a \in DOMAIN albums : \E S \in SUBSET alive : albums'[a] = [albums[a] EXCEPT !.photos = S]
    PROVE  AlbumsInv'
<1>1. ASSUME NEW a \in DOMAIN albums PROVE albums'[a] \in AlbumRow(alive) /\ albums'[a].name = albums[a].name
  BY DEF AlbumsInv, AlbumsTypeOK, AlbumRow
<1>2. \A a, b \in DOMAIN albums' : albums'[a].name = albums'[b].name => a = b
  BY <1>1 DEF AlbumsInv, AlbumsTypeOK
<1> QED BY <1>1, <1>2, RowsChange

LEMMA AddImagesKeeps ==
    ASSUME AlbumsInv, NEW c \in Clients, UNCHANGED alive, AddImages(c) PROVE AlbumsInv'
<1> DEFINE r == request[c]
<1>1. CASE Answers(c, "500") /\ UNCHANGED albums
  BY <1>1, AlbumsUntouched, AnsweredIds DEF AlbumsInv, Replies
<1>2. CASE /\ r.id \in DOMAIN albums /\ Answers(c, "200")
           /\ albums' = [albums EXCEPT ![r.id].photos = @ \cup (r.photos \cap alive)]
  <2>1. DOMAIN albums' = DOMAIN albums
    BY <1>2
  <2>2. ASSUME NEW a \in DOMAIN albums
        PROVE  \E S \in SUBSET alive : albums'[a] = [albums[a] EXCEPT !.photos = S]
    <3>1. albums[a] \in AlbumRow(alive)
      BY DEF AlbumsInv, AlbumsTypeOK
    <3>2. albums[a].photos \in SUBSET alive /\ albums[a] = [albums[a] EXCEPT !.photos = albums[a].photos]
      BY <3>1 DEF AlbumRow
    <3>3. CASE a = r.id
      <4> DEFINE S == albums[a].photos \cup (r.photos \cap alive)
      <4>1. S \in SUBSET alive
        BY <3>2
      <4>2. albums'[a] = [albums[a] EXCEPT !.photos = S]
        BY <1>2, <3>3
      <4> QED BY <4>1, <4>2
    <3>4. CASE a # r.id
      BY <1>2, <3>2, <3>4
    <3> QED BY <3>3, <3>4
  <2> QED BY <1>2, <2>1, <2>2, PhotosChange DEF Replies
<1> QED BY <1>1, <1>2 DEF AddImages

LEMMA RemoveImagesKeeps ==
    ASSUME AlbumsInv, NEW c \in Clients, UNCHANGED alive, RemoveImages(c) PROVE AlbumsInv'
<1> DEFINE r == request[c]
<1>1. PICK reply \in Replies : Answers(c, reply)
  BY DEF RemoveImages, Replies
<1>2. DOMAIN albums' = DOMAIN albums
  BY DEF RemoveImages
<1>3. ASSUME NEW a \in DOMAIN albums
      PROVE  \E S \in SUBSET alive : albums'[a] = [albums[a] EXCEPT !.photos = S]
  <2>1. albums[a] \in AlbumRow(alive)
    BY DEF AlbumsInv, AlbumsTypeOK
  <2>2. albums[a].photos \in SUBSET alive /\ albums[a] = [albums[a] EXCEPT !.photos = albums[a].photos]
    BY <2>1 DEF AlbumRow
  <2>3. albums'[a] = IF a = r.id THEN [albums[a] EXCEPT !.photos = @ \ r.photos] ELSE albums[a]
    BY DEF RemoveImages
  <2>4. albums[a].photos \ r.photos \in SUBSET alive
    BY <2>2
  <2> QED BY <2>2, <2>3, <2>4
<1> QED BY <1>1, <1>2, <1>3, PhotosChange

LEMMA HandlingKeeps ==
    ASSUME AlbumsInv, NEW c \in Clients, UNCHANGED alive, Handle(c) PROVE AlbumsInv'
BY CheckNameKeeps, InsertAlbumKeeps, InsertAlbumWithImagesKeeps, RecheckNameKeeps, ReadAlbumKeeps, VerifyKeeps,
   UpdateAlbumKeeps, OpenAlbumKeeps, DeleteAlbumKeeps, AddImagesKeeps, RemoveImagesKeeps DEF Handle

---------------------------------------------------------------------------
(* A deleted photo leaves the albums with its row. *)
LEMMA CascadeKeeps ==
    ASSUME AlbumsInv, NEW p, alive' = alive \ {p}, CascadeToAlbums(p) PROVE AlbumsInv'
<1>1. UNCHANGED request /\ DOMAIN albums' = DOMAIN albums
  BY DEF CascadeToAlbums
<1>2. ASSUME NEW a \in DOMAIN albums
      PROVE  albums'[a] \in AlbumRow(alive)' /\ albums'[a].name = albums[a].name
  <2>1. albums[a] \in AlbumRow(alive)
    BY DEF AlbumsInv, AlbumsTypeOK
  <2>2. albums'[a] = [albums[a] EXCEPT !.photos = @ \ {p}]
    BY DEF CascadeToAlbums
  <2> QED BY <2>1, <2>2 DEF AlbumRow
<1>3. AlbumsTypeOK'
  BY <1>1, <1>2 DEF AlbumsInv, AlbumsTypeOK
<1>4. RequestsSound' /\ IdsAreFresh'
  BY <1>1 DEF AlbumsInv, RequestsSound, IdsAreFresh, Sound, Shape, Prepared, Cleared
<1> QED BY <1>3, <1>4 DEF AlbumsInv

LEMMA StutterKeeps == ASSUME AlbumsInv, UNCHANGED <<alive, albums, request>> PROVE AlbumsInv'
BY DEF AlbumsInv, AlbumsTypeOK, AlbumRow, RequestsSound, IdsAreFresh, Sound, Shape, Prepared, Cleared

LEMMA InitialAlbumsAreSound == Init => AlbumsInv
<1> SUFFICES ASSUME Init PROVE AlbumsInv
  OBVIOUS
<1>1. scope \in Scopes /\ alive = Photos /\ albums = InitialAlbums[scope] /\ request = [c \in Clients |-> NoRequest]
  BY DEF Init, LibraryInit, AlbumsInit
<1>2. AlbumsTypeOK
  BY <1>1, InitialAlbumsAssumption DEF AlbumsTypeOK
<1>3. Sound(NoRequest) /\ NoRequest.pc = "idle"
  BY DEF NoRequest, Sound, Shape, Prepared, Cleared
<1>4. RequestsSound /\ IdsAreFresh
  BY <1>1, <1>3 DEF RequestsSound, IdsAreFresh
<1> QED BY <1>2, <1>4 DEF AlbumsInv

(* Which steps of the gallery concern albums, and what the others leave.   *)
LEMMA GallerySteps ==
    ASSUME [Next]_galleryVars
    PROVE  \/ \E p \in Photos : alive' = alive \ {p} /\ CascadeToAlbums(p)
           \/ UNCHANGED <<alive, albums, request>>
           \/ \E c \in Clients : UNCHANGED alive /\ (Handle(c) \/ Ask(c) \/ \E photos : AskFromMemory(c, photos))
<1>1. CASE ScanAndClock
  BY <1>1 DEF ScanAndClock, PhotoGoes, DeletePhoto, CorrectDate, Tomorrow, albumVars
<1>2. CASE PeopleStep
  BY <1>2 DEF PeopleStep, LibraryStill, libraryVars, albumVars
<1>3. CASE RenamePerson
  BY <1>3 DEF RenamePerson, LibraryStill, albumVars
<1>4. CASE MemoriesStep
  BY <1>4 DEF MemoriesStep, LibraryStill, libraryVars, albumVars
<1>5. CASE AlbumsStep
  BY <1>5 DEF AlbumsStep, LibraryStill, libraryVars
<1>6. CASE UNCHANGED galleryVars
  BY <1>6 DEF galleryVars, libraryVars, albumVars
<1> QED BY <1>1, <1>2, <1>3, <1>4, <1>5, <1>6 DEF Next

LEMMA AlbumsInductive == Spec => []AlbumsInv
<1>1. AlbumsInv /\ [Next]_galleryVars => AlbumsInv'
  BY GallerySteps, CascadeKeeps, StutterKeeps, HandlingKeeps, AskingKeeps
<1> QED BY <1>1, InitialAlbumsAreSound, PTL DEF Spec

(* The tables of albums keep their keys: no two albums share a name, and   *)
(* every linked photo has a row, whatever requests and deletions overlap.  *)
THEOREM AlbumsKeepTheirKeys == Spec => []AlbumsTypeOK
BY AlbumsInductive, PTL DEF AlbumsInv

(* Nobody's lock, name, password or photos are changed or given out on a   *)
(* row that was seen locked, unless its password was presented.            *)
THEOREM LocksRespected == Spec => LocksAreRespected
<1>1. AlbumsInv /\ [Next]_galleryVars =>
        [\A c \in Clients : LET r == request[c] IN
          /\ r.kind \in {"update", "open"} /\ r.pc = "write" /\ request'[c].reply = "200"
          /\ r.id \in DOMAIN albums /\ r.row = albums[r.id] /\ r.row.locked
          => r.current # None /\ r.current = r.row.secret]_albumVars
  BY DEF AlbumsInv, RequestsSound, Sound, Cleared
<1> QED BY <1>1, AlbumsInductive, PTL DEF Spec, LocksAreRespected

(* A step of one client leaves the request of every other alone, and what  *)
(* is about to insert can do nothing else.                                 *)
LEMMA OthersStay ==
    ASSUME RequestsSound, NEW c \in Clients, NEW d \in Clients, c # d,
           Handle(d) \/ Ask(d) \/ \E photos : AskFromMemory(d, photos)
    PROVE  request'[c] = request[c]
<1>1. CASE Ask(d) \/ \E photos : AskFromMemory(d, photos)
  BY <1>1 DEF Ask, AskCreate, AskUpdate, AskOpen, AskOther, AskFromMemory, Asks, RequestsSound
<1>2. CASE CheckName(d) \/ InsertAlbum(d) \/ InsertAlbumWithImages(d) \/ RecheckName(d)
  BY <1>2 DEF CheckName, InsertAlbum, InsertAlbumWithImages, RecheckName, Answers, Moves, RequestsSound
<1>3. CASE ReadAlbum(d) \/ Verify(d) \/ UpdateAlbum(d) \/ OpenAlbum(d)
  BY <1>3 DEF ReadAlbum, Verify, UpdateAlbum, OpenAlbum, Answers, RequestsSound
<1>4. CASE DeleteAlbum(d) \/ AddImages(d) \/ RemoveImages(d)
  BY <1>4 DEF DeleteAlbum, AddImages, RemoveImages, Answers, RequestsSound
<1> QED BY <1>1, <1>2, <1>3, <1>4 DEF Handle

LEMMA OnlyInserts ==
    ASSUME NEW c \in Clients, request[c].kind = "from memory", request[c].pc = "insert",
           Handle(c) \/ Ask(c) \/ \E photos : AskFromMemory(c, photos)
    PROVE  InsertAlbumWithImages(c)
<1>1. ~(Ask(c) \/ \E photos : AskFromMemory(c, photos))
  BY DEF Ask, AskCreate, AskUpdate, AskOpen, AskOther, AskFromMemory, Asks
<1>2. ~(CheckName(c) \/ InsertAlbum(c) \/ RecheckName(c) \/ ReadAlbum(c) \/ Verify(c))
  BY DEF CheckName, InsertAlbum, RecheckName, ReadAlbum, Verify, On
<1>3. ~(UpdateAlbum(c) \/ OpenAlbum(c) \/ DeleteAlbum(c) \/ AddImages(c) \/ RemoveImages(c))
  BY DEF UpdateAlbum, OpenAlbum, DeleteAlbum, AddImages, RemoveImages, On
<1> QED BY <1>1, <1>2, <1>3 DEF Handle

(* A memory becomes an album with all its photos or leaves nothing behind. *)
THEOREM NothingStranded == Spec => NoStrandedAlbums
<1>1. AlbumsInv /\ [Next]_galleryVars =>
        [\A c \in Clients : request[c].kind = "from memory" /\ request[c].pc = "insert" /\ request'[c] # request[c] =>
          LET new == DOMAIN albums' \ DOMAIN albums
          IN  IF request'[c].reply = "200" THEN new # {} /\ \A a \in new : albums'[a].photos = request[c].photos
              ELSE new = {}]_albumVars
  <2> SUFFICES ASSUME AlbumsInv, [Next]_galleryVars, NEW c \in Clients, request[c].kind = "from memory",
                      request[c].pc = "insert", request'[c] # request[c]
               PROVE  IF request'[c].reply = "200"
                      THEN /\ DOMAIN albums' \ DOMAIN albums # {}
                           /\ \A a \in DOMAIN albums' \ DOMAIN albums : albums'[a].photos = request[c].photos
                      ELSE DOMAIN albums' \ DOMAIN albums = {}
    OBVIOUS
  <2> DEFINE r == request[c]
  <2>1. InsertAlbumWithImages(c)
    <3>1. ~UNCHANGED request
      OBVIOUS
    <3>2. PICK d \in Clients : Handle(d) \/ Ask(d) \/ \E photos : AskFromMemory(d, photos)
      BY <3>1, GallerySteps DEF CascadeToAlbums
    <3>3. d = c
      BY <3>2, OthersStay DEF AlbumsInv
    <3> QED BY <3>2, <3>3, OnlyInserts
  <2>2. CASE Moves(c, "recheck name") /\ UNCHANGED albums
    <3>1. request'[c].reply = "none"
      BY <2>2, MoveSound DEF AlbumsInv
    <3> QED BY <2>2, <3>1
  <2>3. CASE albums' = WithAlbum(r.id, Album(r.name, FALSE, None, r.photos)) /\ Answers(c, "200")
    <3>1. request'[c].reply = "200"
      BY <2>3, AnswerSound DEF AlbumsInv, Replies
    <3>2. r.id \notin DOMAIN albums
      BY DEF AlbumsInv, IdsAreFresh
    <3>3. DOMAIN albums' = DOMAIN albums \cup {r.id} /\ albums'[r.id].photos = r.photos
      BY <2>3 DEF WithAlbum, Album
    <3> QED BY <3>1, <3>2, <3>3
  <2> QED BY <2>1, <2>2, <2>3 DEF InsertAlbumWithImages
<1> QED BY <1>1, AlbumsInductive, PTL DEF Spec, NoStrandedAlbums
=============================================================================
