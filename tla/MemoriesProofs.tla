---------------------------- MODULE MemoriesProofs ----------------------------
(***************************************************************************)
(* TLAPS proofs about the memories of Gallery, for every library, whatever *)
(* the photos look like and whoever deletes or corrects one between two    *)
(* steps of the worker: memories show photos that exist, their periods     *)
(* hold the photos as long as no date has moved, a name reaches every      *)
(* stored score, and what a user has said of a memory is never touched by  *)
(* the worker.  The first two rest on what the operators of StoryRules and *)
(* Memories return: every trigger drafts photos with dates, and whatever   *)
(* is trimmed and sorted is listed once.                                   *)
(***************************************************************************)
EXTENDS GalleryProofs

---------------------------------------------------------------------------
(* Lists.                                                                  *)

(* seq has every member of S once. *)
Lists(seq, S) ==
    /\ Cardinality(S) \in Nat /\ seq \in [1..Cardinality(S) -> S]
    /\ \A i, j \in 1..Cardinality(S) : seq[i] = seq[j] => i = j
    /\ \A x \in S : \E i \in 1..Cardinality(S) : seq[i] = x

(* Who is ahead of q when the smaller of key a comes first, of two with    *)
(* the same the smaller of b, and else the smaller number.                 *)
AheadOf(q, S, a, b) ==
    {p \in S : a[p] < a[q] \/ (a[p] = a[q] /\ (b[p] < b[q] \/ (b[p] = b[q] /\ p < q)))}

(* Sorting by two keys lists every member once.                            *)
LEMMA SortingLists ==
    ASSUME NEW S, S \subseteq Nat, IsFiniteSet(S), NEW a \in [S -> Int], NEW b \in [S -> Int]
    PROVE  Lists([i \in 1..Cardinality(S) |-> CHOOSE p \in S : Cardinality(AheadOf(p, S, a, b)) = i - 1], S)
<1> DEFINE ahead == [q \in S |-> AheadOf(q, S, a, b)]
           n == Cardinality(S)
           seq == [i \in 1..n |-> CHOOSE p \in S : Cardinality(AheadOf(p, S, a, b)) = i - 1]
<1>1. /\ ahead \in [S -> SUBSET S]
      /\ \A p, q \in S : p \in ahead[q] <=> a[p] < a[q] \/ (a[p] = a[q] /\ (b[p] < b[q] \/ (b[p] = b[q] /\ p < q)))
      /\ \A p \in S : p \in Nat /\ a[p] \in Int /\ b[p] \in Int
      /\ \A p \in S : ahead[p] = AheadOf(p, S, a, b)
  BY DEF AheadOf
<1> HIDE DEF ahead
<1>2. /\ n \in Nat
      /\ \A i \in 1..n : \E q \in S : Cardinality(ahead[q]) = i - 1
      /\ \A p, q \in S : Cardinality(ahead[p]) = Cardinality(ahead[q]) => p = q
  <2>1. \A p \in S : p \notin ahead[p]
    BY <1>1
  <2>2. \A p, q \in S : p # q => p \in ahead[q] \/ q \in ahead[p]
    BY <1>1
  <2>3. ASSUME NEW p \in S, NEW q \in S, p \in ahead[q], NEW x \in ahead[p] PROVE x \in ahead[q]
    BY <1>1, <2>3
  <2> QED BY <1>1, <2>1, <2>2, <2>3, PlacesAreTaken
<1>3. \A i \in 1..n : seq[i] \in S /\ Cardinality(ahead[seq[i]]) = i - 1
  <2>1. \A i \in 1..n : seq[i] = CHOOSE p \in S : Cardinality(ahead[p]) = i - 1
    BY <1>1
  <2> HIDE DEF seq
  <2> QED BY <1>2, <2>1
<1>4. seq \in [1..n -> S]
  BY <1>3 DEF seq
<1> HIDE DEF seq
<1>5. ASSUME NEW x \in S PROVE \E i \in 1..n : seq[i] = x
  <2>1. IsFiniteSet(ahead[x]) /\ Cardinality(ahead[x]) \in Nat /\ Cardinality(ahead[x]) <= n - 1
    <3>1. ahead[x] \in SUBSET (S \ {x})
      BY <1>1
    <3>2. IsFiniteSet(S \ {x}) /\ Cardinality(S \ {x}) = n - 1
      BY FS_RemoveElement
    <3> QED BY <3>1, <3>2, FS_Subset, FS_CardinalityType
  <2>2. Cardinality(ahead[x]) + 1 \in 1..n
    BY <1>2, <2>1
  <2>3. Cardinality(ahead[seq[Cardinality(ahead[x]) + 1]]) = Cardinality(ahead[x])
    BY <1>3, <2>1, <2>2
  <2> QED BY <1>2, <1>3, <2>2, <2>3
<1>6. ASSUME NEW i \in 1..n, NEW j \in 1..n, seq[i] = seq[j] PROVE i = j
  <2>1. i - 1 = j - 1
    BY <1>3, <1>6
  <2> QED BY <1>2, <2>1
<1>7. Lists(seq, S)
  BY <1>2, <1>4, <1>5, <1>6 DEF Lists
<1> QED BY <1>7 DEF seq

(* The better score first. *)
BestFirst(S, score) == InOrder(S, LAMBDA p, q : score[p] > score[q])

LEMMA BestFirstLists ==
    ASSUME NEW S, S \subseteq Nat, IsFiniteSet(S), NEW score, \A p \in S : score[p] \in Int
    PROVE  Lists(BestFirst(S, score), S)
<1> DEFINE a == [p \in S |-> -score[p]]
           b == [p \in S |-> 0]
<1>1. a \in [S -> Int] /\ b \in [S -> Int]
  OBVIOUS
<1>2. \A q \in S : {p \in S : score[p] > score[q] \/ (~(score[q] > score[p]) /\ p < q)} = AheadOf(q, S, a, b)
  <2> TAKE q \in S
  <2>1. ASSUME NEW p \in S
        PROVE (score[p] > score[q] \/ (~(score[q] > score[p]) /\ p < q)) <=>
              (a[p] < a[q] \/ (a[p] = a[q] /\ (b[p] < b[q] \/ (b[p] = b[q] /\ p < q))))
    OBVIOUS
  <2> QED BY <2>1 DEF AheadOf
<1> HIDE DEF a, b
<1>3. BestFirst(S, score) = [i \in 1..Cardinality(S) |->
        CHOOSE q \in S : Cardinality({p \in S : score[p] > score[q] \/ (~(score[q] > score[p]) /\ p < q)}) = i - 1]
  BY DEF BestFirst, InOrder
<1>4. \A i \in 1..Cardinality(S) :
         (CHOOSE q \in S : Cardinality({p \in S : score[p] > score[q] \/ (~(score[q] > score[p]) /\ p < q)}) = i - 1)
       = (CHOOSE q \in S : Cardinality(AheadOf(q, S, a, b)) = i - 1)
  BY <1>2
<1>5. BestFirst(S, score) = [i \in 1..Cardinality(S) |-> CHOOSE p \in S : Cardinality(AheadOf(p, S, a, b)) = i - 1]
  BY <1>3, <1>4
<1> QED BY <1>1, <1>5, SortingLists

LEMMA AscendingLists == ASSUME NEW S, S \subseteq Nat, IsFiniteSet(S) PROVE Lists(Ascending(S), S)
BY AscendingIsSorted DEF Lists

(* Whatever lists a set has as many places as the set has members.         *)
LEMMA CountedOff ==
    ASSUME NEW n \in Nat, NEW S, NEW seq \in [1..n -> S],
           \A i, j \in 1..n : seq[i] = seq[j] => i = j,
           \A x \in S : \E i \in 1..n : seq[i] = x
    PROVE  IsFiniteSet(S) /\ Cardinality(S) = n /\ Lists(seq, S)
<1>1. seq \in Bijection(1..n, S)
  BY DEF Bijection, Injection, Surjection, IsInjective
<1>2. IsFiniteSet(1..n) /\ Cardinality(1..n) = n
  BY FS_Interval
<1>3. IsFiniteSet(S) /\ Cardinality(S) = n
  BY <1>1, <1>2, FS_Bijection DEF ExistsBijection
<1>4. Cardinality(S) = n /\ n \in Nat
  BY <1>3
<1>5. Lists(seq, S)
  BY <1>4, Zenon DEF Lists
<1> QED BY <1>3, <1>5

LEMMA ListedIsFinite == ASSUME NEW seq, NEW S, Lists(seq, S) PROVE IsFiniteSet(S) /\ Range(seq) = S /\ Len(seq) = Cardinality(S)
<1>1. IsFiniteSet(S)
  <2> DEFINE n == Cardinality(S)
  <2>1. /\ n \in Nat /\ seq \in [1..n -> S]
        /\ \A i, j \in 1..n : seq[i] = seq[j] => i = j
        /\ \A x \in S : \E i \in 1..n : seq[i] = x
    BY DEF Lists
  <2> HIDE DEF n
  <2> QED BY <2>1, CountedOff
<1>2. Range(seq) = S
  BY DEF Lists, Range
<1>3. Len(seq) = Cardinality(S)
  BY DEF Lists
<1> QED BY <1>1, <1>2, <1>3

(* Those of a list that are in T, each once.                               *)
LEMMA ThoseAreListed ==
    ASSUME NEW seq, NEW S, Lists(seq, S), NEW T
    PROVE  Lists(Those(seq, T), S \cap T)
<1> DEFINE I == {i \in DOMAIN seq : seq[i] \in T}
           at == Ascending(I)
           m == Cardinality(I)
           n == Cardinality(S)
           those == [i \in DOMAIN at |-> seq[at[i]]]
<1>1. n \in Nat /\ seq \in [1..n -> S] /\ \A i, j \in 1..n : seq[i] = seq[j] => i = j
  BY DEF Lists
<1>2. \A x \in S : \E i \in 1..n : seq[i] = x
  BY DEF Lists
<1>3. Those(seq, T) = those
  BY DEF Those, Ascending, InOrder
<1>4. I \subseteq Nat /\ IsFiniteSet(I)
  <2>1. I \in SUBSET (1..n) /\ n \in Int /\ 1 \in Int
    BY <1>1
  <2>2. IsFiniteSet(1..n)
    BY <2>1, FS_Interval
  <2> HIDE DEF I
  <2>3. IsFiniteSet(I)
    BY <2>1, <2>2, FS_Subset
  <2>4. I \subseteq Nat
    BY <1>1, <2>1
  <2> QED BY <2>3, <2>4
<1>5. /\ m \in Nat /\ at \in [1..m -> I]
      /\ \A i, j \in 1..m : at[i] = at[j] => i = j
      /\ \A x \in I : \E i \in 1..m : at[i] = x
  <2> HIDE DEF I
  <2> QED BY <1>4, AscendingIsSorted
<1>6. \A i \in I : i \in 1..n /\ seq[i] \in S \cap T
  BY <1>1
<1> HIDE DEF at, m
<1>7. those \in [1..m -> S \cap T]
  BY <1>5, <1>6
<1>8. \A i, j \in 1..m : those[i] = those[j] => i = j
  BY <1>1, <1>5, <1>6
<1>9. \A x \in S \cap T : \E i \in 1..m : those[i] = x
  <2> TAKE x \in S \cap T
  <2>1. PICK j \in 1..n : seq[j] = x
    BY <1>2
  <2>2. j \in I
    BY <1>1, <2>1
  <2> QED BY <1>5, <2>1, <2>2
<1> DEFINE U == S \cap T
<1> HIDE DEF those, U
<1>10. Lists(those, U)
  <2>1. m \in Nat /\ those \in [1..m -> U]
    BY <1>5, <1>7 DEF U
  <2>2. \A x \in U : \E i \in 1..m : those[i] = x
    BY <1>9 DEF U
  <2> QED BY ONLY <1>8, <2>1, <2>2, CountedOff
<1> QED BY <1>3, <1>10 DEF U

(* The first of a list.                                                    *)
LEMMA FirstOnesAreThere ==
    ASSUME NEW seq, NEW S, Lists(seq, S), NEW n \in Int
    PROVE  Range(FirstOf(n, seq)) \subseteq S /\ (n > 0 /\ S # {} => Range(FirstOf(n, seq)) # {})
<1>1. Len(seq) = Cardinality(S) /\ Cardinality(S) \in Nat /\ seq \in [1..Cardinality(S) -> S]
  BY DEF Lists
<1> DEFINE m == IF Len(seq) < n THEN Len(seq) ELSE n
<1>2. m \in Int /\ m <= Len(seq) /\ (n > 0 /\ Len(seq) > 0 => m > 0)
  BY <1>1
<1>3. FirstOf(n, seq) = SubSeq(seq, 1, m)
  BY DEF FirstOf
<1> HIDE DEF m
<1>4. \A i \in DOMAIN SubSeq(seq, 1, m) : i \in 1..m /\ SubSeq(seq, 1, m)[i] = seq[i]
  BY <1>1, <1>2
<1>5. S # {} => Len(seq) > 0
  BY <1>1 DEF Lists
<1>6. m > 0 => 1 \in DOMAIN SubSeq(seq, 1, m)
  BY <1>1, <1>2
<1> QED BY <1>1, <1>2, <1>3, <1>4, <1>5, <1>6 DEF Range

---------------------------------------------------------------------------
(* Trimming. *)

LEMMA SuppressingKeeps ==
    ASSUME NEW ranked, NEW S, Lists(ranked, S)
    PROVE  \E T \in SUBSET S : Lists(SuppressNearDuplicates(ranked), T)
<1>1. \E X : SuppressNearDuplicates(ranked) = Those(ranked, X)
  BY DEF SuppressNearDuplicates
<1>2. PICK X : SuppressNearDuplicates(ranked) = Those(ranked, X)
  BY <1>1
<1>3. Lists(Those(ranked, X), S \cap X) /\ S \cap X \in SUBSET S
  BY ThoseAreListed
<1> QED BY <1>2, <1>3

LEMMA CoherentOnes ==
    ASSUME NEW ranked, NEW S, Lists(ranked, S), NEW likeness, NEW n, NEW median2
    PROVE  \E T \in SUBSET S : Lists(Coherent(ranked, likeness, n, median2), T)
<1> DEFINE mad4 == TwiceMedian([p \in DOMAIN likeness |-> Abs(2 * likeness[p] - median2)])
           slack == Max({29652 * mad4, 40000 * TrimMargin * (n - 1)})
           X == {p \in Range(ranked) : p \in DOMAIN likeness => 10000 * (2 * median2 - 4 * likeness[p]) <= slack}
<1>1. Coherent(ranked, likeness, n, median2) = Those(ranked, X)
  BY DEF Coherent
<1> HIDE DEF X
<1>2. Lists(Those(ranked, X), S \cap X) /\ S \cap X \in SUBSET S
  BY ThoseAreListed
<1> QED BY <1>1, <1>2

LEMMA PairsAreFinite == ASSUME NEW x, NEW y PROVE IsFiniteSet({x, y})
<1>1. {x, y} = ({} \cup {x}) \cup {y}
  OBVIOUS
<1> QED BY <1>1, FS_EmptySet, FS_AddElement

LEMMA TrimmingKeeps ==
    ASSUME NEW ranked, NEW S, Lists(ranked, S), S # {}
    PROVE  \E T \in SUBSET S : T # {} /\ Lists(TrimIncoherent(ranked), T)
<1> DEFINE likeness == Cohesions({p \in Range(ranked) : Scene[p] # None})
           keep == Coherent(ranked, likeness, Cardinality(DOMAIN likeness), TwiceMedian(likeness))
           most == Max({MinImages, (6 * Len(ranked)) \div 10})
<1>1. TrimIncoherent(ranked) = ranked \/ (TrimIncoherent(ranked) = keep /\ ~(Len(keep) < most))
  BY DEF TrimIncoherent, UnlessTooFew
<1>2. CASE TrimIncoherent(ranked) = ranked
  BY <1>2
<1>3. CASE TrimIncoherent(ranked) = keep /\ ~(Len(keep) < most)
  <2>1. PICK T \in SUBSET S : Lists(keep, T)
    BY CoherentOnes
  <2> HIDE DEF keep
  <2>2. most \in Nat /\ most >= 1
    <3>1. Len(ranked) \in Nat
      BY DEF Lists
    <3>2. (6 * Len(ranked)) \div 10 \in Nat
      BY <3>1
    <3>3. {MinImages, (6 * Len(ranked)) \div 10} \subseteq Nat /\ IsFiniteSet({MinImages, (6 * Len(ranked)) \div 10})
      BY <3>2, StoryAssumption, PairsAreFinite
    <3>4. most \in {MinImages, (6 * Len(ranked)) \div 10} /\ MinImages <= most
      BY <3>3, MaxIsGreatest
    <3> QED BY <3>2, <3>4, StoryAssumption
  <2>3. Len(keep) = Cardinality(T) /\ Cardinality(T) \in Nat
    BY <2>1, ListedIsFinite DEF Lists
  <2>4. T # {}
    <3>1. Cardinality(T) # 0
      <4> HIDE DEF most
      <4> QED BY <1>3, <2>2, <2>3
    <3> QED BY <3>1, FS_EmptySet
  <2> QED BY <1>3, <2>1, <2>4
<1> QED BY <1>1, <1>2, <1>3

LEMMA SpreadingKeeps ==
    ASSUME NEW ranked, NEW S, Lists(ranked, S), S # {}
    PROVE  SpreadOverTime(ranked) \subseteq S /\ SpreadOverTime(ranked) # {}
<1> DEFINE timed == {p \in Range(ranked) : taken[p] # None}
           span == End(timed) - Start(timed)
           Bucket(p) == Min({(MaxImages * (taken[p] - Start(timed))) \div span, MaxImages - 1})
           Rank(p) == CHOOSE i \in DOMAIN ranked : ranked[i] = p
           best == {p \in timed : \A q \in timed : Bucket(q) = Bucket(p) => Rank(p) <= Rank(q)}
           rest == Those(ranked, Range(ranked) \ best)
<1>1. Range(ranked) = S /\ IsFiniteSet(S)
  BY ListedIsFinite
<1>2. SpreadOverTime(ranked) = IF Len(ranked) <= MaxImages THEN Range(ranked)
        ELSE IF Cardinality(timed) < MaxImages \/ span <= 0 THEN Range(FirstOf(MaxImages, ranked))
        ELSE best \cup Range(FirstOf(MaxImages - Cardinality(best), rest))
  BY DEF SpreadOverTime
<1>3. timed \subseteq S /\ IsFiniteSet(timed)
  <2>1. timed \in SUBSET S
    BY <1>1
  <2> HIDE DEF timed
  <2> QED BY <1>1, <2>1, FS_Subset
<1>4. best \subseteq timed /\ Cardinality(best) \in Nat
  <2>1. best \in SUBSET timed
    OBVIOUS
  <2> HIDE DEF best, timed
  <2>2. IsFiniteSet(best)
    BY <1>3, <2>1, FS_Subset
  <2> QED BY <2>1, <2>2, FS_CardinalityType
<1>5. ASSUME ~(Cardinality(timed) < MaxImages) PROVE best # {}
  <2>1. timed # {}
    <3>1. MaxImages \in Nat \ {0}
      BY StoryAssumption
    <3>2. Cardinality({}) = 0
      BY FS_EmptySet
    <3> HIDE DEF timed
    <3> QED BY <1>5, <3>1, <3>2
  <2> DEFINE R == {Rank(p) : p \in timed}
  <2>2. \A p \in timed : Rank(p) \in Nat
    <3>1. DOMAIN ranked \subseteq Nat
      BY DEF Lists
    <3>2. \A p \in timed : \E i \in DOMAIN ranked : ranked[i] = p
      BY <1>1, <1>3 DEF Lists
    <3> HIDE DEF timed
    <3> QED BY <3>1, <3>2
  <2> HIDE DEF Rank, timed
  <2>3. PICK m \in R : \A k \in R : m <= k
    <3>1. R \subseteq Nat /\ R # {}
      BY <2>1, <2>2
    <3> HIDE DEF R
    <3> QED BY <3>1, LeastExists
  <2>4. PICK p \in timed : \A q \in timed : Rank(p) <= Rank(q)
    BY <2>3
  <2>5. p \in best
    BY <2>4
  <2> QED BY <2>5
<1>6. Range(FirstOf(MaxImages, ranked)) \subseteq S /\ Range(FirstOf(MaxImages, ranked)) # {}
  BY FirstOnesAreThere, StoryAssumption
<1>7. Range(FirstOf(MaxImages - Cardinality(best), rest)) \subseteq S
  <2> DEFINE n == MaxImages - Cardinality(best)
             T == S \cap (Range(ranked) \ best)
  <2>1. n \in Int
    BY <1>4, StoryAssumption
  <2>2. Lists(rest, T)
    BY ThoseAreListed
  <2>3. T \subseteq S
    OBVIOUS
  <2> HIDE DEF n, T, rest
  <2>4. Range(FirstOf(n, rest)) \subseteq S
    BY <2>1, <2>2, <2>3, FirstOnesAreThere
  <2> QED BY <2>4 DEF n
<1> HIDE DEF best, timed, span, rest
<1> QED BY <1>1, <1>2, <1>3, <1>4, <1>5, <1>6, <1>7

---------------------------------------------------------------------------
(* Scores. *)

LEMMA ImageIsFinite == ASSUME NEW S, IsFiniteSet(S), NEW f PROVE IsFiniteSet({f[x] : x \in S})
<1> DEFINE T == {f[x] : x \in S}
           g == [x \in S |-> f[x]]
<1>1. g \in Surjection(S, T)
  BY DEF Surjection
<1> HIDE DEF T, g
<1>2. IsFiniteSet(T)
  BY <1>1, FS_Surjection
<1> QED BY <1>2 DEF T

LEMMA AtMost == ASSUME NEW n \in Nat, NEW S, IsFiniteSet(S) PROVE Min({n, Cardinality(S)}) \in Nat
<1>1. Cardinality(S) \in Nat
  BY FS_CardinalityType
<1>2. {n, Cardinality(S)} \subseteq Nat /\ {n, Cardinality(S)} # {}
  BY <1>1
<1> QED BY <1>2, MinIsLeast

(* A weighted sum of numbers is one. *)
LEMMA CompositeIsInt ==
    ASSUME NEW signals, IsFiniteSet(DOMAIN signals),
           \A s \in DOMAIN signals : signals[s] # None => signals[s] \in Int /\ Weights[s] \in Int
    PROVE  Composite(signals) \in Int
<1> DEFINE there == {s \in DOMAIN signals : signals[s] # None}
           weight == [s \in there |-> Weights[s]]
           sum == [s \in there |-> Weights[s] * signals[s]]
           total == SumFunction(weight)
<1>1. IsFiniteSet(there) /\ \A s \in there : Weights[s] \in Int /\ signals[s] \in Int
  <2>1. there \in SUBSET DOMAIN signals
    OBVIOUS
  <2>2. IsFiniteSet(there)
    <3> HIDE DEF there
    <3> QED BY <2>1, FS_Subset
  <2> QED BY <2>2
<1> HIDE DEF there
<1>2. DOMAIN weight = there /\ \A s \in there : weight[s] \in Int
  BY <1>1
<1>3. DOMAIN sum = there /\ \A s \in there : sum[s] \in Int
  BY <1>1
<1>4. Composite(signals) = IF total <= 0 THEN 0 ELSE SumFunction(sum) \div total
  BY DEF Composite, there
<1> HIDE DEF weight, sum
<1>5. SumFunction(weight) \in Int /\ SumFunction(sum) \in Int
  BY <1>1, <1>2, <1>3, SumIsInt DEF SumFunction
<1> QED BY <1>4, <1>5

LEMMA RowsAreFinite == IsFiniteSet(HasRow) /\ HasRow \subseteq Faces
<1>1. HasRow \in SUBSET Faces
  BY DEF HasRow
<1> QED BY <1>1, FS_Subset, FacesAssumption

(* Every photo has a score. *)
LEMMA ScoreIsInt ==
    ASSUME NEW p \in Photos, NEW home \in Int \cup {None}
    PROVE  Score(p, home) \in Int
<1> DEFINE signals == Signals(p, home)
           labels == DOMAIN Matches[p]
           best(L) == IF Scene[p] = None THEN None ELSE IF L = {} THEN 0 ELSE Max({Matches[p][l] : l \in L})
           people == NamedPeopleOn(p)
           faces == {f \in HasRow : ImageOf[f] = p}
           novelty == IF home = None \/ Place[p] = None THEN None
                      ELSE (1000 * Abs(Place[p] - home)) \div (Abs(Place[p] - home) + 50)
<1>1. signals = [favourite    |-> IF p \in Favourites THEN 1000 ELSE 0,
         in_album     |-> IF InAnAlbum(p) THEN 1000 ELSE 0,
         known_people |-> (1000 * Min({3, Cardinality(people)})) \div 3,
         face_presence |-> (1000 * Min({4, Cardinality(faces)})) \div 4,
         semantic_confidence |-> best(labels), event_strength |-> best(labels \cap Events),
         gps_novelty |-> novelty]
  BY DEF Signals
<1>2. ASSUME NEW L \in SUBSET labels, best(L) # None PROVE best(L) \in Int
  <2>1. CASE L # {} /\ best(L) = Max({Matches[p][l] : l \in L})
    <3>1. IsFiniteSet(labels)
      BY StoryAssumption
    <3>2. IsFiniteSet(L)
      BY <3>1, FS_Subset
    <3>3. IsFiniteSet({Matches[p][l] : l \in L})
      BY <3>2, ImageIsFinite
    <3>4. {Matches[p][l] : l \in L} \subseteq Int /\ {Matches[p][l] : l \in L} # {}
      BY <2>1, StoryAssumption
    <3> HIDE DEF best
    <3> QED BY <2>1, <3>3, <3>4, MaxIsGreatest
  <2> QED BY <1>2, <2>1
<1>3. Min({3, Cardinality(people)}) \in Nat
  <2> DEFINE theirs == {g \in HasRow : ImageOf[g] = p /\ NamesNow[g] # None}
  <2>1. theirs \in SUBSET HasRow
    OBVIOUS
  <2>2. people = {face[f] : f \in theirs}
    BY DEF NamedPeopleOn
  <2> HIDE DEF theirs, people
  <2>3. IsFiniteSet(people)
    BY <2>1, <2>2, RowsAreFinite, FS_Subset, ImageIsFinite
  <2> QED BY <2>3, AtMost
<1>4. Min({4, Cardinality(faces)}) \in Nat
  <2>1. faces \in SUBSET HasRow
    OBVIOUS
  <2> HIDE DEF faces
  <2>2. IsFiniteSet(faces)
    BY <2>1, RowsAreFinite, FS_Subset
  <2> QED BY <2>2, AtMost
<1>5. novelty # None => novelty \in Int
  <2>1. CASE home # None /\ Place[p] # None
    <3>1. home \in Int /\ Place[p] \in Int
      BY <2>1, StoryAssumption
    <3>2. Abs(Place[p] - home) \in Nat
      BY <3>1 DEF Abs
    <3> QED BY <2>1, <3>2
  <2> QED BY <2>1
<1>6. best(labels) # None => best(labels) \in Int
  BY <1>2
<1>7. best(labels \cap Events) # None => best(labels \cap Events) \in Int
  BY <1>2
<1> HIDE DEF best, labels, people, faces, novelty
<1>8. DOMAIN signals = SignalNames
  BY <1>1 DEF SignalNames
<1>9. ASSUME NEW s \in SignalNames, signals[s] # None PROVE signals[s] \in Int
  BY <1>1, <1>3, <1>4, <1>5, <1>6, <1>7, <1>9 DEF SignalNames
<1> HIDE DEF signals
<1>10. IsFiniteSet(SignalNames)
  <2> DEFINE A == {"favourite", "in_album"} \cup {"known_people", "face_presence"}
             B == {"semantic_confidence", "event_strength"} \cup {"gps_novelty", "gps_novelty"}
  <2>1. IsFiniteSet(A) /\ IsFiniteSet(B)
    BY PairsAreFinite, FS_Union
  <2>2. SignalNames = A \cup B
    BY DEF SignalNames
  <2> HIDE DEF A, B
  <2> QED BY <2>1, <2>2, FS_Union
<1>11. Composite(signals) \in Int
  BY <1>8, <1>9, <1>10, CompositeIsInt, StoryAssumption
<1> QED BY <1>11 DEF Score, signals

(* Home is where photos are, or nowhere. *)
LEMMA HomeIsAPlace == ASSUME alive \subseteq Photos PROVE Home \in Int \cup {None}
<1> DEFINE count == GpsHistogram
           c == CHOOSE c \in DOMAIN count : \A d \in DOMAIN count : count[c] >= count[d]
<1>1. IsFiniteSet(Located) /\ \A p \in Located : Place[p] \in Int
  <2>1. Located \in SUBSET Photos
    BY DEF Located
  <2>2. IsFiniteSet(Located)
    BY <2>1, PhotosAssumption, FS_Subset
  <2> QED BY <2>1, <2>2, StoryAssumption DEF Located
<1> DEFINE all == [b \in {Cell(p) : p \in Located} |-> Cardinality({p \in Located : Cell(p) = b})]
           D == {b \in DOMAIN all : all[b] >= MinForHome}
<1>2. count = [b \in D |-> all[b]]
  BY DEF GpsHistogram, Restrict
<1>3. \A b \in D : /\ \E p \in Located : Cell(p) = b
                   /\ all[b] \in Nat
  <2> TAKE b \in D
  <2>1. \E p \in Located : Cell(p) = b
    OBVIOUS
  <2> DEFINE inside == {p \in Located : Cell(p) = b}
  <2>2. inside \in SUBSET Located
    OBVIOUS
  <2>3. all[b] = Cardinality(inside)
    OBVIOUS
  <2> HIDE DEF inside, all
  <2>4. Cardinality(inside) \in Nat
    BY <1>1, <2>2, FS_Subset, FS_CardinalityType
  <2> QED BY <2>1, <2>3, <2>4
<1>4. IsFiniteSet(D)
  <2>1. IsFiniteSet({Cell(p) : p \in Located})
    <3> DEFINE f == [p \in Located |-> Cell(p)]
    <3>1. {Cell(p) : p \in Located} = {f[p] : p \in Located}
      OBVIOUS
    <3> HIDE DEF f
    <3> QED BY <1>1, <3>1, ImageIsFinite
  <2>2. D \in SUBSET {Cell(p) : p \in Located}
    OBVIOUS
  <2> HIDE DEF D
  <2> QED BY <2>1, <2>2, FS_Subset
<1>5. CASE count = <<>>
  BY <1>5 DEF Home, HomeAmong
<1> HIDE DEF all, D
<1>6. Home = HomeAmong(count)
  BY DEF Home
<1> HIDE DEF count
<1>7. DOMAIN count = D /\ \A b \in D : count[b] \in Int
  BY <1>2, <1>3
<1>8. CASE count # <<>>
  <2>1. D # {}
    <3>1. D = {} => count = <<>>
      BY <1>2
    <3> QED BY <1>8, <3>1
  <2>2. c \in D
    <3> DEFINE sizes == {count[b] : b \in D}
    <3>1. IsFiniteSet(sizes)
      BY <1>4, ImageIsFinite
    <3>2. sizes \subseteq Int /\ sizes # {}
      BY <1>7, <2>1
    <3>3. Max(sizes) \in sizes /\ \A y \in sizes : y <= Max(sizes)
      <4> HIDE DEF sizes
      <4> QED BY <3>1, <3>2, MaxIsGreatest
    <3>4. PICK b \in D : count[b] = Max(sizes)
      BY <3>3
    <3> DEFINE top == Max(sizes)
    <3>5. \A d \in D : top >= count[d]
      <4>1. \A y \in sizes : y \in Int
        BY <3>2
      <4>2. \A d \in D : count[d] \in sizes
        OBVIOUS
      <4> HIDE DEF sizes
      <4> QED BY <3>3, <4>1, <4>2
    <3>6. \A d \in D : count[b] >= count[d]
      BY <3>4, <3>5
    <3> QED BY <1>7, <3>6
  <2>3. Home = CellCentre(c)
    BY <1>8, <1>6 DEF HomeAmong
  <2> HIDE DEF c
  <2> DEFINE inside == {p \in Located : Cell(p) = c}
             place == [p \in inside |-> Place[p]]
  <2>4. inside # {} /\ inside \in SUBSET Located
    BY <1>3, <2>2
  <2>5. CellCentre(c) = SumFunction(place) \div Cardinality(inside)
    BY DEF CellCentre
  <2>6. DOMAIN place = inside /\ \A p \in inside : place[p] \in Int
    BY <1>1
  <2> HIDE DEF inside, place
  <2>7. IsFiniteSet(inside)
    BY <1>1, <2>4, FS_Subset
  <2>8. SumFunction(place) \in Int
    BY <2>6, <2>7, SumIsInt DEF SumFunction
  <2>9. Cardinality(inside) \in Nat /\ Cardinality(inside) # 0
    BY <2>4, <2>7, FS_CardinalityType, FS_EmptySet
  <2> QED BY <2>3, <2>5, <2>8, <2>9
<1> QED BY <1>5, <1>8

---------------------------------------------------------------------------
(* Building. *)

TakenOK == taken \in [Photos -> Int \cup {None}]

(* The photos of a memory in the order in which they were taken.           *)
AtOr0(p, chosen) == IF p \in {q \in chosen : taken[q] # None} THEN taken[p] ELSE 0
InTime(chosen, score) ==
    InOrder(chosen, LAMBDA p, q : \/ AtOr0(p, chosen) < AtOr0(q, chosen)
                                  \/ (AtOr0(p, chosen) = AtOr0(q, chosen) /\ score[p] > score[q]))
CoverOf(photos, chosen, score) ==
    photos[Min({i \in DOMAIN photos : \A q \in chosen : score[photos[i]] >= score[q]})]

LEMMA MemoryIs ==
    ASSUME NEW draft, NEW score, NEW chosen
    PROVE  LET m == MemoryOf(draft, score, chosen) IN
           /\ DOMAIN m = {"photos", "clips", "scores", "start", "end", "title", "cover", "score", "surface"}
           /\ m.photos = InTime(chosen, score)
           /\ m.scores = Restrict(score, chosen)
           /\ m.cover = CoverOf(InTime(chosen, score), chosen, score)
BY DEF MemoryOf, InTime, CoverOf, AtOr0, InOrder

LEMMA InTimeLists ==
    ASSUME TakenOK, NEW chosen, chosen \subseteq Photos, IsFiniteSet(chosen),
           NEW score, \A p \in chosen : score[p] \in Int
    PROVE  Lists(InTime(chosen, score), chosen)
<1> DEFINE a == [p \in chosen |-> AtOr0(p, chosen)]
           b == [p \in chosen |-> -score[p]]
           S == chosen
<1>1. a \in [S -> Int] /\ b \in [S -> Int] /\ S \subseteq Nat
  BY PhotosAssumption DEF TakenOK, AtOr0
<1>2. \A p \in S : a[p] = AtOr0(p, S) /\ b[p] = -score[p]
  OBVIOUS
<1> HIDE DEF a, b
<1> DEFINE Before(p, q) == AtOr0(p, S) < AtOr0(q, S) \/ (AtOr0(p, S) = AtOr0(q, S) /\ score[p] > score[q])
<1>3. \A q \in S : {p \in S : Before(p, q) \/ (~Before(q, p) /\ p < q)} = AheadOf(q, S, a, b)
  <2> TAKE q \in S
  <2>1. ASSUME NEW p \in S
        PROVE (Before(p, q) \/ (~Before(q, p) /\ p < q)) <=>
              (a[p] < a[q] \/ (a[p] = a[q] /\ (b[p] < b[q] \/ (b[p] = b[q] /\ p < q))))
    <3>1. a[p] \in Int /\ a[q] \in Int /\ score[p] \in Int /\ score[q] \in Int /\ p \in Int /\ q \in Int
      BY <1>1
    <3>2. Before(p, q) <=> (a[p] < a[q] \/ (a[p] = a[q] /\ b[p] < b[q]))
      BY <1>2, <3>1
    <3>3. Before(q, p) <=> (a[q] < a[p] \/ (a[p] = a[q] /\ b[q] < b[p]))
      BY <1>2, <3>1
    <3>4. b[p] \in Int /\ b[q] \in Int
      BY <1>1
    <3> HIDE DEF Before
    <3> QED BY <3>1, <3>2, <3>3, <3>4
  <2> HIDE DEF Before
  <2> QED BY <2>1 DEF AheadOf
<1>4. InTime(S, score) = [i \in 1..Cardinality(S) |->
        CHOOSE q \in S : Cardinality({p \in S : Before(p, q) \/ (~Before(q, p) /\ p < q)}) = i - 1]
  BY DEF InTime, InOrder
<1>5. \A i \in 1..Cardinality(S) :
         (CHOOSE q \in S : Cardinality({p \in S : Before(p, q) \/ (~Before(q, p) /\ p < q)}) = i - 1)
       = (CHOOSE q \in S : Cardinality(AheadOf(q, S, a, b)) = i - 1)
  <2> HIDE DEF Before
  <2> QED BY <1>3
<1>6. InTime(S, score) = [i \in 1..Cardinality(S) |-> CHOOSE p \in S : Cardinality(AheadOf(p, S, a, b)) = i - 1]
  <2> HIDE DEF Before
  <2> QED BY <1>4, <1>5
<1> QED BY <1>1, <1>6, SortingLists

LEMMA CoverIsShown ==
    ASSUME NEW chosen, chosen # {}, NEW score, \A p \in chosen : score[p] \in Int,
           NEW photos, Lists(photos, chosen)
    PROVE  CoverOf(photos, chosen, score) \in chosen
<1> DEFINE scores == {score[p] : p \in chosen}
           I == {i \in DOMAIN photos : \A q \in chosen : score[photos[i]] >= score[q]}
<1>1. IsFiniteSet(scores) /\ scores \subseteq Int /\ scores # {}
  <2>1. IsFiniteSet(chosen)
    BY ListedIsFinite
  <2>2. IsFiniteSet(scores)
    BY <2>1, ImageIsFinite
  <2> QED BY <2>2
<1> DEFINE top == Max(scores)
<1>2. top \in scores /\ \A y \in scores : y <= top
  <2> HIDE DEF scores
  <2> QED BY <1>1, MaxIsGreatest
<1> HIDE DEF top
<1>3. PICK p \in chosen : score[p] = top
  BY <1>2
<1>4. \A q \in chosen : score[p] >= score[q]
  BY <1>2, <1>3
<1>5. PICK i \in DOMAIN photos : photos[i] = p
  BY DEF Lists
<1>6. i \in I
  BY <1>4, <1>5
<1>7. I \subseteq Nat /\ I \subseteq DOMAIN photos
  BY DEF Lists
<1>8. Min(I) \in I
  <2> HIDE DEF I
  <2> QED BY <1>6, <1>7, MinIsLeast
<1>9. photos[Min(I)] \in chosen
  <2> HIDE DEF I
  <2> QED BY <1>7, <1>8 DEF Lists
<1> QED BY <1>9 DEF CoverOf

MadeColumns == {"photos", "clips", "scores", "start", "end", "title", "cover", "score", "surface"}

MadeOK(m) ==
    /\ DOMAIN m = MadeColumns
    /\ PhotosOf(m) \subseteq Photos /\ Lists(m.photos, PhotosOf(m)) /\ m.cover \in PhotosOf(m)

LEMMA MemoryOfIsOK ==
    ASSUME TakenOK, NEW draft, NEW chosen, chosen \subseteq Photos, chosen # {},
           NEW score, \A p \in chosen : score[p] \in Int
    PROVE  MadeOK(MemoryOf(draft, score, chosen)) /\ PhotosOf(MemoryOf(draft, score, chosen)) = chosen
<1> DEFINE m == MemoryOf(draft, score, chosen)
<1>1. IsFiniteSet(chosen)
  <2>1. chosen \in SUBSET Photos
    OBVIOUS
  <2> QED BY <2>1, PhotosAssumption, FS_Subset
<1>2. Lists(InTime(chosen, score), chosen)
  BY <1>1, InTimeLists
<1>3. CoverOf(InTime(chosen, score), chosen, score) \in chosen
  BY <1>2, CoverIsShown
<1>4. /\ DOMAIN m = MadeColumns /\ m.photos = InTime(chosen, score)
      /\ m.scores = Restrict(score, chosen) /\ m.cover = CoverOf(InTime(chosen, score), chosen, score)
  BY MemoryIs DEF MadeColumns
<1>5. DOMAIN Restrict(score, chosen) = chosen
  BY DEF Restrict
<1> HIDE DEF m
<1>6. MadeOK(m) /\ PhotosOf(m) = chosen
  BY <1>2, <1>3, <1>4, <1>5 DEF MadeOK, PhotosOf
<1> QED BY <1>6 DEF m

LEMMA ScoresAreInt ==
    ASSUME NEW draft, NEW recents, NEW home \in Int \cup {None}, NEW rows, rows \subseteq Photos
    PROVE  LET score == Scores(draft, recents, home, rows)
           IN  DOMAIN score = rows /\ \A p \in rows : score[p] \in Int
<1>1. \A p \in rows : Score(p, home) \in Int
  BY ScoreIsInt
<1>2. \A x \in Int : (x * 7) \div 20 \in Int
  OBVIOUS
<1> QED BY <1>1, <1>2 DEF Scores, Penalized

(* What _build_memory returns is a memory that shows photos. *)
LEMMA BuiltIsOK ==
    ASSUME TakenOK, alive \subseteq Photos, NEW home \in Int \cup {None}, NEW draft, NEW recents
    PROVE  \/ Built(draft, recents, home) = None
           \/ /\ MadeOK(Built(draft, recents, home))
              /\ LET rows == Candidates(draft, recents) \cap alive IN
                 \E chosen : /\ chosen # {} /\ chosen \subseteq rows
                             /\ Built(draft, recents, home)
                                   = MemoryOf(draft, Scores(draft, recents, home, rows), chosen)
<1> DEFINE rows == Candidates(draft, recents) \cap alive
           score == Scores(draft, recents, home, rows)
           distinct == SuppressNearDuplicates(BestFirst(rows, score))
           list == IF draft.key[1] = "import" THEN TrimIncoherent(distinct) ELSE distinct
           chosen == SpreadOverTime(list)
<1>1. rows \subseteq Photos /\ rows \subseteq Nat /\ IsFiniteSet(rows)
  <2>1. rows \in SUBSET Photos
    OBVIOUS
  <2> HIDE DEF rows
  <2> QED BY <2>1, PhotosAssumption, FS_Subset
<1>2. DOMAIN score = rows /\ \A p \in rows : score[p] \in Int
  <2> HIDE DEF rows
  <2> QED BY <1>1, ScoresAreInt
<1>3. Built(draft, recents, home) = None \/ (~(Len(distinct) < MinImages) /\ Built(draft, recents, home) = MemoryOf(draft, score, chosen))
  <2>1. Built(draft, recents, home) = None \/ Built(draft, recents, home) = Ranked(draft, score)
    BY DEF Built
  <2> HIDE DEF rows, score
  <2>2. Ranked(draft, score) = Trimmed(draft, score, distinct)
    BY <1>2 DEF Ranked, BestFirst, InOrder
  <2> HIDE DEF distinct
  <2>3. Trimmed(draft, score, distinct) = None \/ (~(Len(distinct) < MinImages) /\ Trimmed(draft, score, distinct) = MemoryOf(draft, score, chosen))
    BY DEF Trimmed
  <2> QED BY <2>1, <2>2, <2>3
<1> HIDE DEF score
<1>4. PICK D \in SUBSET rows : Lists(distinct, D)
  <2> HIDE DEF rows
  <2>1. Lists(BestFirst(rows, score), rows)
    BY <1>1, <1>2, BestFirstLists
  <2> QED BY <2>1, SuppressingKeeps
<1> HIDE DEF distinct
<1>5. ASSUME ~(Len(distinct) < MinImages) PROVE chosen \subseteq rows /\ chosen # {}
  <2>1. D # {}
    <3>1. Len(distinct) = Cardinality(D) /\ Cardinality(D) \in Nat
      BY <1>4, ListedIsFinite DEF Lists
    <3>2. Cardinality(D) # 0
      BY <1>5, <3>1, StoryAssumption
    <3> QED BY <3>2, FS_EmptySet
  <2>2. PICK T \in SUBSET D : T # {} /\ Lists(list, T)
    <3>1. CASE list = distinct
      BY <1>4, <2>1, <3>1
    <3>2. CASE list = TrimIncoherent(distinct)
      BY <1>4, <2>1, <3>2, TrimmingKeeps
    <3> QED BY <3>1, <3>2
  <2> HIDE DEF list, rows
  <2>3. chosen \subseteq T /\ chosen # {}
    BY <2>2, SpreadingKeeps
  <2> QED BY <1>4, <2>2, <2>3
<1> HIDE DEF chosen, list
<1>6. CASE ~(Len(distinct) < MinImages) /\ Built(draft, recents, home) = MemoryOf(draft, score, chosen)
  <2>1. chosen \subseteq rows /\ chosen # {}
    BY <1>5, <1>6
  <2>2. chosen \subseteq Photos /\ \A p \in chosen : score[p] \in Int
    BY <1>1, <1>2, <2>1
  <2>3. MadeOK(MemoryOf(draft, score, chosen))
    BY <2>1, <2>2, MemoryOfIsOK
  <2> QED BY <1>6, <2>1, <2>3 DEF score
<1> QED BY <1>3, <1>6

---------------------------------------------------------------------------
(* The inductive invariant. *)

WorkFields == {"kind", "stage", "trigger", "day", "drafts", "home", "baseline", "recents", "key", "own", "made",
               "todo", "claimed"}

Shows(m) ==
    /\ DOMAIN m = Columns
    /\ Lists(m.photos, PhotosOf(m))
    /\ m.cover # None => m.cover \in PhotosOf(m)

MemoriesOK == \A k \in DOMAIN memories : Shows(memories[k]) /\ PhotosOf(memories[k]) \subseteq alive

Writes(kind) == work.kind = kind /\ work.stage = "write"

(* A cover computed for a memory is one of its photos as long as both are  *)
(* there.                                                                  *)
CoverFits ==
    /\ work.made.cover \in Photos
    /\ work.key \in DOMAIN memories /\ work.made.cover \in alive =>
          work.made.cover \in PhotosOf(memories[work.key])

WorkOK ==
    /\ DOMAIN work = WorkFields
    /\ work.home \in Int \cup {None}
    /\ Writes("curate") => MadeOK(work.made)
    /\ Writes("rescore") => CoverFits

MemoriesInv == TakenOK /\ alive \subseteq Photos /\ MemoriesOK /\ WorkOK

LEMMA RestingIsOK == ASSUME work' = Resting PROVE WorkOK'
BY DEF WorkOK, Resting, WorkFields, Writes, CoverFits

LEMMA OnwardIsOK ==
    ASSUME NEW w, DOMAIN w = WorkFields, w.home \in Int \cup {None}, work' = Onward(w) PROVE WorkOK'
<1>1. CASE work' = Resting
  BY <1>1, RestingIsOK
<1>2. CASE work' = [w EXCEPT !.stage = "build", !.made = None]
  BY <1>2 DEF WorkOK, WorkFields, Writes
<1>3. CASE work' = [w EXCEPT !.stage = "plan", !.trigger = @ + 1, !.made = None]
  BY <1>3 DEF WorkOK, WorkFields, Writes
<1> QED BY <1>1, <1>2, <1>3 DEF Onward

LEMMA RescoreNextIsOK ==
    ASSUME NEW w, DOMAIN w = WorkFields, w.home \in Int \cup {None}, work' = RescoreNext(w) PROVE WorkOK'
<1>1. CASE work' = Resting
  BY <1>1, RestingIsOK
<1>2. CASE work' = [w EXCEPT !.stage = "read", !.made = None]
  BY <1>2 DEF WorkOK, WorkFields, Writes
<1> QED BY <1>1, <1>2 DEF RescoreNext

Steady == UNCHANGED <<alive, taken>>

LEMMA Planned == ASSUME MemoriesInv, Steady, Plan PROVE MemoriesInv'
<1> DEFINE w == [work EXCEPT !.drafts = DraftsFor(Triggers[work.trigger], work.day, work.baseline),
                             !.recents = RecentlyUsed(work.day)]
<1>1. DOMAIN w = WorkFields /\ w.home \in Int \cup {None}
  BY DEF MemoriesInv, WorkOK, WorkFields
<1>2. work' = Onward(w) /\ memories' = memories
  BY DEF Plan
<1> HIDE DEF w
<1>3. WorkOK'
  BY <1>1, <1>2, OnwardIsOK
<1> QED BY <1>2, <1>3 DEF MemoriesInv, Steady, TakenOK, MemoriesOK

LEMMA BeginsCurating == ASSUME MemoriesInv, Steady, BeginCuration PROVE MemoriesInv'
<1>1. WorkOK'
  <2>1. Home \in Int \cup {None}
    BY HomeIsAPlace DEF MemoriesInv
  <2> QED BY <2>1 DEF BeginCuration, Resting, WorkOK, WorkFields, Writes
<1>2. MemoriesOK'
  BY DEF MemoriesInv, Steady, BeginCuration, MemoriesOK
<1> QED BY <1>1, <1>2 DEF MemoriesInv, Steady, TakenOK

LEMMA Builds == ASSUME MemoriesInv, Steady, Build PROVE MemoriesInv'
<1> DEFINE draft == Head(work.drafts)
           made == Built(draft, work.recents, work.home)
           rest == [work EXCEPT !.drafts = Tail(@), !.key = draft.key, !.made = made, !.own = Own(draft.key)]
<1>1. DOMAIN rest = WorkFields /\ rest.home \in Int \cup {None} /\ rest.made = made /\ rest.kind = "curate"
  BY DEF MemoriesInv, WorkOK, WorkFields, Build
<1>2. memories' = memories /\ work' = IF made = None THEN Onward(rest) ELSE [rest EXCEPT !.stage = "write"]
  BY DEF Build
<1>3. made = None \/ MadeOK(made)
  BY BuiltIsOK DEF MemoriesInv, WorkOK
<1> HIDE DEF rest, made
<1>4. ASSUME made = None PROVE WorkOK'
  BY <1>1, <1>2, <1>4, OnwardIsOK
<1>5. ASSUME made # None PROVE WorkOK'
  <2>1. work' = [rest EXCEPT !.stage = "write"]
    BY <1>2, <1>5
  <2>2. DOMAIN work' = WorkFields /\ work'.home = rest.home /\ work'.made = made /\ work'.kind = "curate"
    BY <1>1, <2>1 DEF WorkFields
  <2>3. MadeOK(work'.made)
    BY <1>3, <1>5, <2>2
  <2> QED BY <1>1, <2>2, <2>3 DEF WorkOK, Writes
<1>6. WorkOK'
  BY <1>4, <1>5
<1> QED BY <1>2, <1>6 DEF MemoriesInv, Steady, TakenOK, MemoriesOK

LEMMA UpsertedShows ==
    ASSUME NEW made, MadeOK(made), NEW old PROVE Shows(Written(made, old)) /\ PhotosOf(Written(made, old)) = PhotosOf(made)
<1>1. /\ DOMAIN Written(made, old) = Columns /\ Written(made, old).photos = made.photos
      /\ Written(made, old).scores = made.scores /\ Written(made, old).cover = made.cover
  BY DEF Written, Columns
<1> QED BY <1>1 DEF Shows, MadeOK, PhotosOf

LEMMA Upserts == ASSUME MemoriesInv, Steady, UpsertMemory PROVE MemoriesInv'
<1> DEFINE old == IF work.key \in DOMAIN memories THEN memories[work.key]
                  ELSE [viewed |-> FALSE, dismissed |-> FALSE]
           row == Written(work.made, old)
           w == [work EXCEPT !.claimed = @ \cup {<<work.trigger, work.key>>}]
<1>1. WorkOK'
  <2>1. DOMAIN w = WorkFields /\ w.home \in Int \cup {None} /\ DOMAIN work = WorkFields /\ work.home \in Int \cup {None}
    BY DEF MemoriesInv, WorkOK, WorkFields
  <2>2. work' = Onward(w) \/ work' = Onward(work)
    BY DEF UpsertMemory
  <2> HIDE DEF w
  <2> QED BY <2>1, <2>2, OnwardIsOK
<1>2. MemoriesOK'
  <2>1. ASSUME memories' = memories PROVE MemoriesOK'
    BY <2>1 DEF MemoriesInv, Steady, MemoriesOK
  <2>2. ASSUME memories' = WithMemory(work.key, row), PhotosOf(work.made) \subseteq alive PROVE MemoriesOK'
    <3>1. Shows(row) /\ PhotosOf(row) \subseteq alive
      BY <2>2, UpsertedShows DEF MemoriesInv, WorkOK, Writes, UpsertMemory
    <3> HIDE DEF row
    <3>2. \A k \in DOMAIN memories' : memories'[k] = row \/ (k \in DOMAIN memories /\ memories'[k] = memories[k])
      BY <2>2 DEF WithMemory
    <3> QED BY <3>1, <3>2 DEF MemoriesInv, Steady, MemoriesOK
  <2> QED BY <2>1, <2>2 DEF UpsertMemory
<1> QED BY <1>1, <1>2 DEF MemoriesInv, Steady, TakenOK

LEMMA BeginsRescoring == ASSUME MemoriesInv, Steady, BeginRescore PROVE MemoriesInv'
<1>1. Home \in Int \cup {None}
  BY HomeIsAPlace DEF MemoriesInv
<1>2. PICK todo : work' = Resting \/ work' = [Resting EXCEPT !.kind = "rescore", !.stage = "read", !.todo = todo, !.home = Home]
  BY DEF BeginRescore
<1>3. ASSUME work' = [Resting EXCEPT !.kind = "rescore", !.stage = "read", !.todo = todo, !.home = Home] PROVE WorkOK'
  BY <1>1, <1>3 DEF Resting, WorkOK, WorkFields, Writes
<1>4. WorkOK'
  BY <1>2, <1>3, RestingIsOK
<1> QED BY <1>4 DEF BeginRescore, MemoriesInv, Steady, TakenOK, MemoriesOK

LEMMA ReadsScores == ASSUME MemoriesInv, Steady, NEW k, ReadScores(k) PROVE MemoriesInv'
<1> DEFINE photos == IF k \in DOMAIN memories THEN PhotosOf(memories[k]) ELSE {}
           score == [p \in photos |-> Score(p, work.home)]
           cover == BestFirst(photos, score)[1]
           made == [scores |-> score, score |-> MemoryScore(photos, score), cover |-> cover]
           rest == [work EXCEPT !.todo = @ \ {k}, !.key = k]
<1>1. DOMAIN rest = WorkFields /\ rest.home \in Int \cup {None} /\ rest.kind = "rescore" /\ rest.key = k
  BY DEF MemoriesInv, WorkOK, WorkFields, ReadScores
<1>2. work' = IF photos = {} THEN RescoreNext(rest) ELSE [rest EXCEPT !.stage = "write", !.made = made]
  BY DEF ReadScores, BestFirst, InOrder
<1>3. memories' = memories
  BY DEF ReadScores
<1>4. photos \subseteq Photos /\ photos \subseteq Nat /\ IsFiniteSet(photos)
  <2>1. photos \in SUBSET Photos
    BY DEF MemoriesInv, MemoriesOK
  <2> HIDE DEF photos
  <2> QED BY <2>1, PhotosAssumption, FS_Subset
<1>5. \A p \in photos : score[p] \in Int
  <2>1. \A p \in photos : Score(p, work.home) \in Int
    <3> HIDE DEF photos
    <3> QED BY <1>4, ScoreIsInt DEF MemoriesInv, WorkOK
  <2> QED BY <2>1
<1>6. photos # {} => cover \in photos
  <2> HIDE DEF score, photos
  <2>1. Lists(BestFirst(photos, score), photos)
    BY <1>4, <1>5, BestFirstLists
  <2>2. photos # {} => 1 \in 1..Cardinality(photos)
    BY <1>4, FS_EmptySet, FS_CardinalityType
  <2> QED BY <2>1, <2>2 DEF Lists
<1>7. made.cover = cover /\ photos \subseteq IF k \in DOMAIN memories THEN PhotosOf(memories[k]) ELSE {}
  OBVIOUS
<1> HIDE DEF rest, made, cover, score
<1>8. ASSUME photos = {} PROVE WorkOK'
  <2> HIDE DEF photos
  <2> QED BY <1>1, <1>2, <1>8, RescoreNextIsOK
<1>9. ASSUME photos # {} PROVE WorkOK'
  <2>1. /\ DOMAIN work' = WorkFields /\ work'.home = rest.home /\ work'.made = made
        /\ work'.kind = "rescore" /\ work'.key = k
    <3> HIDE DEF photos
    <3> QED BY <1>1, <1>2, <1>9 DEF WorkFields
  <2>2. CoverFits'
    BY <1>3, <1>4, <1>6, <1>7, <1>9, <2>1 DEF CoverFits
  <2> QED BY <1>1, <2>1, <2>2 DEF WorkOK, Writes
<1>10. WorkOK'
  BY <1>8, <1>9
<1> QED BY <1>3, <1>10 DEF MemoriesInv, Steady, TakenOK, MemoriesOK

LEMMA WritesScores == ASSUME MemoriesInv, Steady, WriteScores PROVE MemoriesInv'
<1>1. WorkOK'
  BY RescoreNextIsOK DEF MemoriesInv, WorkOK, WriteScores
<1>2. ASSUME memories' = memories PROVE MemoriesOK'
  BY <1>2 DEF MemoriesInv, Steady, MemoriesOK
<1>3. ASSUME work.key \in DOMAIN memories, work.made.cover \in alive,
             memories' = [memories EXCEPT ![work.key] = Rescored(@, work.made)]
      PROVE  MemoriesOK'
  <2> DEFINE m == memories[work.key]
             row == Rescored(m, work.made)
  <2>1. work.made.cover \in PhotosOf(m)
    BY <1>3 DEF MemoriesInv, WorkOK, Writes, WriteScores, CoverFits
  <2>2. Shows(m) /\ PhotosOf(m) \subseteq alive
    BY <1>3 DEF MemoriesInv, MemoriesOK
  <2>3. DOMAIN row = Columns /\ row.photos = m.photos /\ PhotosOf(row) = PhotosOf(m) /\ row.cover = work.made.cover
    BY <2>2 DEF Rescored, Shows, Columns, PhotosOf
  <2>4. Shows(row) /\ PhotosOf(row) \subseteq alive
    <3> HIDE DEF row, m
    <3> QED BY <2>1, <2>2, <2>3 DEF Shows
  <2>5. memories'[work.key] = row /\ DOMAIN memories' = DOMAIN memories
        /\ \A k \in DOMAIN memories : k # work.key => memories'[k] = memories[k]
    BY <1>3
  <2> HIDE DEF row, m
  <2> QED BY <2>4, <2>5 DEF MemoriesInv, Steady, MemoriesOK
<1> QED BY <1>1, <1>2, <1>3 DEF WriteScores, MemoriesInv, Steady, TakenOK

LEMMA PhotosGo == ASSUME MemoriesInv, NEW p, PhotoGoes(p) PROVE MemoriesInv'
<1>1. /\ alive' = alive \ {p} /\ taken' = taken /\ work' = work /\ DOMAIN memories' = DOMAIN memories
      /\ \A k \in DOMAIN memories : memories'[k] =
          [memories[k] EXCEPT !.photos = Those(@, Range(@) \ {p}),
                              !.scores = [q \in DOMAIN @ \ {p} |-> @[q]],
                              !.cover = IF @ = p THEN None ELSE @]
  BY DEF PhotoGoes, DeletePhoto, CascadeToMemories
<1>2. ASSUME NEW k \in DOMAIN memories
      PROVE  Shows(memories'[k]) /\ PhotosOf(memories'[k]) = PhotosOf(memories[k]) \ {p}
  <2> DEFINE m == memories[k]
             n == memories'[k]
             S == PhotosOf(m)
  <2>1. Shows(m)
    BY DEF MemoriesInv, MemoriesOK
  <2>2. /\ DOMAIN n = Columns /\ n.photos = Those(m.photos, Range(m.photos) \ {p}) /\ PhotosOf(n) = S \ {p}
        /\ n.cover = IF m.cover = p THEN None ELSE m.cover
    <3> HIDE DEF m
    <3>1. DOMAIN m = Columns
      BY <2>1 DEF Shows
    <3>2. n = [m EXCEPT !.photos = Those(@, Range(@) \ {p}),
                        !.scores = [q \in DOMAIN @ \ {p} |-> @[q]],
                        !.cover = IF @ = p THEN None ELSE @]
      BY <1>1 DEF m
    <3> HIDE DEF n
    <3> QED BY <3>1, <3>2 DEF Columns, PhotosOf
  <2> HIDE DEF m, n, S
  <2>3. Lists(m.photos, S) /\ (m.cover # None => m.cover \in S)
    BY <2>1 DEF Shows, S
  <2>4. S \cap (Range(m.photos) \ {p}) = S \ {p}
    BY <2>3, ListedIsFinite
  <2>5. Lists(n.photos, S \ {p})
    BY <2>2, <2>3, <2>4, ThoseAreListed
  <2>6. Shows(n)
    BY <2>2, <2>3, <2>5 DEF Shows
  <2> QED BY <2>2, <2>6 DEF m, n, S
<1>3. MemoriesOK'
  BY <1>1, <1>2 DEF MemoriesInv, MemoriesOK
<1>4. WorkOK'
  <2>1. ASSUME CoverFits PROVE CoverFits'
    BY <1>1, <1>2, <2>1 DEF CoverFits
  <2> QED BY <1>1, <2>1 DEF MemoriesInv, WorkOK, Writes
<1> QED BY <1>1, <1>3, <1>4 DEF MemoriesInv, TakenOK

LEMMA DatesMove == ASSUME MemoriesInv, NEW p \in Photos, CorrectDate(p), NoteMove PROVE MemoriesInv'
<1>1. TakenOK'
  BY PhotosAssumption DEF MemoriesInv, TakenOK, CorrectDate
<1> QED BY <1>1 DEF MemoriesInv, CorrectDate, NoteMove, MemoriesOK, WorkOK, Writes, CoverFits

LEMMA MarkedShows ==
    ASSUME MemoriesInv, Steady, NEW k, NEW viewed, NEW dismissed, Marks(k, viewed, dismissed) PROVE MemoriesInv'
<1> DEFINE With1(m) == [m EXCEPT !.viewed = viewed, !.dismissed = dismissed]
<1>1. /\ work' = work /\ DOMAIN memories' = DOMAIN memories
      /\ \A l \in DOMAIN memories : memories'[l] = memories[l] \/ memories'[l] = With1(memories[l])
  BY DEF Marks
<1>2. ASSUME NEW m, Shows(m) PROVE Shows(With1(m)) /\ PhotosOf(With1(m)) = PhotosOf(m)
  BY <1>2 DEF Shows, Columns, PhotosOf
<1> HIDE DEF With1
<1>3. \A l \in DOMAIN memories : Shows(memories'[l]) /\ PhotosOf(memories'[l]) = PhotosOf(memories[l])
  BY <1>1, <1>2 DEF MemoriesInv, MemoriesOK
<1>4. WorkOK'
  BY <1>1, <1>3 DEF MemoriesInv, Steady, WorkOK, Writes, CoverFits
<1> QED BY <1>1, <1>3, <1>4 DEF MemoriesInv, Steady, TakenOK, MemoriesOK

LEMMA DeletedShows == ASSUME MemoriesInv, Steady, NEW k, DeleteMemory(k) PROVE MemoriesInv'
BY DEF DeleteMemory, MemoriesInv, Steady, TakenOK, MemoriesOK, WorkOK, Writes, CoverFits

LEMMA OthersKeepMemories == ASSUME MemoriesInv, Steady, UNCHANGED <<memories, work>> PROVE MemoriesInv'
BY DEF MemoriesInv, Steady, TakenOK, MemoriesOK, WorkOK, Writes, CoverFits

LEMMA MemoriesInvariant == ASSUME MemoriesInv, [Next]_galleryVars PROVE MemoriesInv'
<1>1. ASSUME NEW p \in Photos, PhotoGoes(p) PROVE MemoriesInv'
  BY <1>1, PhotosGo
<1>2. ASSUME NEW p \in Photos, CorrectDate(p), NoteMove PROVE MemoriesInv'
  BY <1>2, DatesMove
<1>3. CASE Tomorrow /\ UNCHANGED memoryVars
  BY <1>3, OthersKeepMemories DEF Tomorrow, memoryVars, Steady
<1>4. CASE MemoriesStep
  <2>1. Steady
    BY <1>4 DEF MemoriesStep, Steady, libraryVars, LibraryStill
  <2>2. CASE SubmitCuration \/ \E c \in owed : SubmitRescore(c)
    BY <2>1, <2>2, OthersKeepMemories DEF SubmitCuration, SubmitRescore
  <2>3. CASE WorkerStep
    BY <2>1, <2>3, BeginsCurating, Planned, Builds, Upserts, BeginsRescoring, ReadsScores, WritesScores DEF WorkerStep
  <2>4. CASE OpenTodays \/ \E k \in DOMAIN memories : Dismiss(k) \/ DeleteMemory(k)
    BY <2>1, <2>4, MarkedShows, DeletedShows DEF OpenTodays, Dismiss
  <2> QED BY <1>4, <2>2, <2>3, <2>4 DEF MemoriesStep
<1>5. ASSUME UNCHANGED <<memories, work>>, Steady PROVE MemoriesInv'
  BY <1>5, OthersKeepMemories
<1>6. CASE PeopleStep
  BY <1>5, <1>6 DEF PeopleStep, memoryVars, libraryVars, LibraryStill, Steady
<1>7. CASE RenamePerson
  BY <1>5, <1>7 DEF RenamePerson, memoryVars, NoteRename, LibraryStill, Steady
<1>8. CASE AlbumsStep
  BY <1>5, <1>8 DEF AlbumsStep, memoryVars, libraryVars, LibraryStill, Steady
<1>9. CASE UNCHANGED galleryVars
  BY <1>5, <1>9 DEF galleryVars, libraryVars, memoryVars, Steady
<1>10. CASE ScanAndClock
  BY <1>1, <1>2, <1>3, <1>10 DEF ScanAndClock
<1> QED BY <1>4, <1>6, <1>7, <1>8, <1>9, <1>10 DEF Next

LEMMA MemoriesStart == Init => MemoriesInv
<1> SUFFICES ASSUME Init PROVE MemoriesInv
  OBVIOUS
<1>1. scope \in Scopes /\ alive = Photos /\ taken = TakenAt /\ memories = InitialMemories[scope] /\ work = Resting
  BY DEF Init, LibraryInit, MemoriesInit
<1>2. WorkOK
  BY <1>1 DEF WorkOK, Resting, WorkFields, Writes
<1>3. ASSUME NEW k \in DOMAIN memories PROVE Shows(memories[k]) /\ PhotosOf(memories[k]) \subseteq alive
  <2> DEFINE m == memories[k]
             S == PhotosOf(m)
  <2>1. DOMAIN m = Columns /\ S \subseteq Photos /\ m.photos \in SetToSeqs(S) /\ m.cover \in S \cup {None}
    BY <1>1, <1>3, MemoriesAssumption
  <2> HIDE DEF m, S
  <2>2. IsFiniteSet(S)
    <3>1. S \in SUBSET Photos
      BY <2>1
    <3> QED BY <3>1, PhotosAssumption, FS_Subset
  <2>3. Lists(m.photos, S)
    <3> DEFINE n == Cardinality(S)
    <3>1. n \in Nat
      BY <2>2, FS_CardinalityType
    <3>2. m.photos \in [1..n -> S] /\ \A i, j \in 1..n : m.photos[i] = m.photos[j] => i = j
      BY <2>1 DEF SetToSeqs
    <3>3. IsFiniteSet(1..n) /\ Cardinality(1..n) = n
      BY <3>1, FS_Interval
    <3> HIDE DEF n
    <3>4. m.photos \in Injection(1..n, S)
      BY <3>2 DEF Injection, IsInjective
    <3>5. m.photos \in Surjection(1..n, S)
      BY <2>2, <3>3, <3>4, FS_Injection DEF n
    <3> QED BY <3>1, <3>2, <3>5, CountedOff DEF Surjection
  <2> QED BY <1>1, <2>1, <2>3 DEF Shows, m, S
<1> QED BY <1>1, <1>2, <1>3, PhotosAssumption DEF MemoriesInv, TakenOK, MemoriesOK

THEOREM MemoriesDoShowPhotos == Spec => []MemoriesShowPhotos
<1>1. MemoriesInv => MemoriesShowPhotos
  <2> SUFFICES ASSUME MemoriesInv, NEW k \in DOMAIN memories
               PROVE  LET m == memories[k] IN
                        /\ PhotosOf(m) \subseteq alive /\ Range(m.photos) = PhotosOf(m)
                        /\ Len(m.photos) = Cardinality(PhotosOf(m))
                        /\ m.cover # None => m.cover \in PhotosOf(m)
    BY DEF MemoriesShowPhotos
  <2> QED BY ListedIsFinite DEF MemoriesInv, MemoriesOK, Shows
<1> QED BY <1>1, MemoriesStart, MemoriesInvariant, PTL DEF Spec

---------------------------------------------------------------------------
(* Periods, ranks and segments.                                            *)

LEMMA MinIsReached == ASSUME NEW S, S \subseteq Int, S # {}, IsFiniteSet(S) PROVE Min(S) \in S /\ \A y \in S : Min(S) <= y
<1> DEFINE f == [x \in S |-> -x]
           T == {f[x] : x \in S}
<1>1. IsFiniteSet(T) /\ T \subseteq Int /\ T # {}
  <2>1. IsFiniteSet(T)
    BY ImageIsFinite
  <2>2. T \subseteq Int
    OBVIOUS
  <2>3. T # {}
    OBVIOUS
  <2> QED BY <2>1, <2>2, <2>3
<1>2. Max(T) \in T /\ \A y \in T : y <= Max(T)
  <2> HIDE DEF T
  <2> QED BY <1>1, MaxIsGreatest
<1> DEFINE top == Max(T)
<1> HIDE DEF top
<1>3. PICK m \in S : top = -m
  BY <1>2 DEF top
<1>4. \A y \in S : -y <= top
  BY <1>2 DEF top
<1>5. \A y \in S : m <= y
  BY <1>3, <1>4
<1> QED BY <1>5 DEF Min

(* The period of photos that have dates. *)
LEMMA PeriodHolds ==
    ASSUME NEW S, S \subseteq Photos, S # {}, \A p \in S : taken[p] \in Int
    PROVE  Start(S) \in Int /\ End(S) \in Int /\ \A p \in S : taken[p] \in Start(S) .. End(S)
<1> DEFINE T == {taken[p] : p \in S}
<1>1. IsFiniteSet(S)
  <2>1. S \in SUBSET Photos
    OBVIOUS
  <2> QED BY <2>1, PhotosAssumption, FS_Subset
<1>2. IsFiniteSet(T) /\ T \subseteq Int /\ T # {}
  <2>1. IsFiniteSet(T)
    BY <1>1, ImageIsFinite
  <2> QED BY <2>1
<1>3. \A p \in S : taken[p] \in T
  OBVIOUS
<1>4. Start(S) = Min(T) /\ End(S) = Max(T)
  BY DEF Start, End
<1> HIDE DEF T
<1>5. Min(T) \in T /\ Max(T) \in T /\ \A y \in T : Min(T) <= y /\ y <= Max(T)
  BY <1>2, MinIsReached, MaxIsGreatest
<1>6. Start(S) \in Int /\ End(S) \in Int
  BY <1>2, <1>4, <1>5
<1>7. ASSUME NEW p \in S PROVE taken[p] \in Start(S) .. End(S)
  <2>1. Start(S) <= taken[p] /\ taken[p] <= End(S) /\ taken[p] \in Int
    BY <1>3, <1>4, <1>5
  <2> QED BY <1>6, <2>1
<1> QED BY <1>6, <1>7

(* By rank, the lowest first.                                              *)
ByRank(S, rank) == InOrder(S, LAMBDA i, j : rank[i] < rank[j])

LEMMA ByRankLists ==
    ASSUME NEW S, S \subseteq Nat, IsFiniteSet(S), NEW rank, \A i \in S : rank[i] \in Int
    PROVE  Lists(ByRank(S, rank), S)
<1> DEFINE a == [p \in S |-> rank[p]]
           b == [p \in S |-> 0]
<1>1. a \in [S -> Int] /\ b \in [S -> Int]
  OBVIOUS
<1>2. \A q \in S : {p \in S : rank[p] < rank[q] \/ (~(rank[q] < rank[p]) /\ p < q)} = AheadOf(q, S, a, b)
  <2> TAKE q \in S
  <2>1. ASSUME NEW p \in S
        PROVE (rank[p] < rank[q] \/ (~(rank[q] < rank[p]) /\ p < q)) <=>
              (a[p] < a[q] \/ (a[p] = a[q] /\ (b[p] < b[q] \/ (b[p] = b[q] /\ p < q))))
    OBVIOUS
  <2> QED BY <2>1 DEF AheadOf
<1> HIDE DEF a, b
<1>3. ByRank(S, rank) = [i \in 1..Cardinality(S) |->
        CHOOSE q \in S : Cardinality({p \in S : rank[p] < rank[q] \/ (~(rank[q] < rank[p]) /\ p < q)}) = i - 1]
  BY DEF ByRank, InOrder
<1>4. \A i \in 1..Cardinality(S) :
         (CHOOSE q \in S : Cardinality({p \in S : rank[p] < rank[q] \/ (~(rank[q] < rank[p]) /\ p < q)}) = i - 1)
       = (CHOOSE q \in S : Cardinality(AheadOf(q, S, a, b)) = i - 1)
  BY <1>2
<1>5. ByRank(S, rank) = [i \in 1..Cardinality(S) |-> CHOOSE p \in S : Cardinality(AheadOf(p, S, a, b)) = i - 1]
  BY <1>3, <1>4
<1> QED BY <1>1, <1>5, SortingLists

LEMMA FirstIsSeq == ASSUME NEW X, NEW seq \in Seq(X), NEW n \in Nat PROVE FirstOf(n, seq) \in Seq(X)
BY DEF FirstOf

LEMMA PlacesOfSeq == ASSUME NEW X, NEW seq \in Seq(X) PROVE DOMAIN seq \subseteq Nat /\ IsFiniteSet(DOMAIN seq)
<1>1. DOMAIN seq = 1..Len(seq) /\ Len(seq) \in Nat
  OBVIOUS
<1> QED BY <1>1, FS_Interval

(* The best of some drafts are some of them. *)
LEMMA BestAreDrafts ==
    ASSUME NEW X, NEW drafts \in Seq(X), NEW rank, \A i \in DOMAIN drafts : rank[i] \in Int, NEW n \in Nat
    PROVE  Best(n, drafts, rank) \in Seq(X)
<1> DEFINE order == ByRank(DOMAIN drafts, rank)
           sorted == [i \in DOMAIN order |-> drafts[order[i]]]
<1>1. Best(n, drafts, rank) = FirstOf(n, sorted)
  BY DEF Best, ByRank, InOrder
<1>2. Lists(order, DOMAIN drafts)
  BY PlacesOfSeq, ByRankLists
<1> HIDE DEF order
<1>3. sorted \in Seq(X)
  BY <1>2 DEF Lists
<1> HIDE DEF sorted
<1> QED BY <1>1, <1>3, FirstIsSeq

(* Those of a sequence that are in T, whatever it repeats.                 *)
LEMMA ThoseAreThose == ASSUME NEW X, NEW seq \in Seq(X), NEW T PROVE Those(seq, T) \in Seq(X \cap T)
<1> DEFINE I == {i \in DOMAIN seq : seq[i] \in T}
           at == Ascending(I)
<1>1. Those(seq, T) = [i \in DOMAIN at |-> seq[at[i]]]
  BY DEF Those, Ascending, InOrder
<1>2. I \subseteq Nat /\ IsFiniteSet(I)
  <2>1. I \in SUBSET DOMAIN seq
    OBVIOUS
  <2> HIDE DEF I
  <2> QED BY <2>1, PlacesOfSeq, FS_Subset
<1>3. Lists(at, I)
  <2> HIDE DEF I
  <2> QED BY <1>2, AscendingLists
<1>4. \A i \in I : seq[i] \in X \cap T
  OBVIOUS
<1> HIDE DEF at, I
<1> QED BY <1>1, <1>3, <1>4 DEF Lists

(* Segments, with the places where they begin.                             *)
SegmentAt(b, timed, begins) == {timed[i] : i \in {j \in DOMAIN timed : b = Max({c \in begins : c <= j})}}
SegmentsAt(timed, begins) == [k \in DOMAIN Ascending(begins) |-> SegmentAt(Ascending(begins)[k], timed, begins)]

LEMMA SegmentsAtAre ==
    ASSUME NEW S, NEW timed, Lists(timed, S), NEW begins, begins \subseteq DOMAIN timed
    PROVE  SegmentsAt(timed, begins) \in Seq((SUBSET S) \ {{}})
<1>1. begins \subseteq Nat /\ IsFiniteSet(begins) /\ DOMAIN timed \subseteq Nat
  <2>1. DOMAIN timed = 1..Cardinality(S) /\ Cardinality(S) \in Nat /\ begins \in SUBSET DOMAIN timed
    BY DEF Lists
  <2>2. IsFiniteSet(1..Cardinality(S))
    BY <2>1, FS_Interval
  <2>3. IsFiniteSet(begins)
    BY <2>1, <2>2, FS_Subset
  <2> QED BY <2>1, <2>3
<1>2. Lists(Ascending(begins), begins)
  BY <1>1, AscendingLists
<1>3. ASSUME NEW b \in begins PROVE SegmentAt(b, timed, begins) \in (SUBSET S) \ {{}}
  <2> DEFINE C == {c \in begins : c <= b}
  <2>1. C \in SUBSET begins /\ b \in C
    BY <1>1
  <2>2. \A c \in C : c <= b
    OBVIOUS
  <2> HIDE DEF C
  <2>3. IsFiniteSet(C) /\ C \subseteq Int
    BY <1>1, <2>1, FS_Subset
  <2>4. Max(C) \in C /\ b <= Max(C)
    BY <2>1, <2>3, MaxIsGreatest
  <2>5. b = Max(C)
    BY <1>1, <2>1, <2>2, <2>3, <2>4
  <2>6. timed[b] \in SegmentAt(b, timed, begins)
    BY <2>5 DEF SegmentAt, C
  <2>7. SegmentAt(b, timed, begins) \subseteq S
    <3>1. \A j \in DOMAIN timed : timed[j] \in S
      BY DEF Lists
    <3> QED BY <3>1 DEF SegmentAt
  <2> QED BY <2>6, <2>7
<1> DEFINE n == Cardinality(begins)
<1>4. n \in Nat /\ DOMAIN Ascending(begins) = 1..n /\ \A k \in 1..n : Ascending(begins)[k] \in begins
  BY <1>2 DEF Lists
<1>5. SegmentsAt(timed, begins) = [k \in 1..n |-> SegmentAt(Ascending(begins)[k], timed, begins)]
  BY <1>4 DEF SegmentsAt
<1>6. SegmentsAt(timed, begins) \in [1..n -> (SUBSET S) \ {{}}]
  BY <1>3, <1>4, <1>5
<1> HIDE DEF n
<1> QED BY <1>4, <1>6

---------------------------------------------------------------------------
(* Candidates with dates.                                                  *)

Library == TakenOK /\ alive \subseteq Photos

(* A sequence of drafts, every photo of which has a date.                  *)
DraftsOK(drafts) ==
    /\ drafts \in Seq(Range(drafts))
    /\ \A i \in DOMAIN drafts : \A p \in drafts[i].photos : taken[p] # None

LEMMA DatedPhotos ==
    ASSUME Library
    PROVE  /\ Dated \subseteq Photos /\ Dated \subseteq Nat /\ IsFiniteSet(Dated)
           /\ \A p \in Dated : taken[p] \in Int /\ taken[p] # None
<1>1. Dated \in SUBSET Photos
  BY DEF Library, Dated
<1>2. IsFiniteSet(Dated)
  BY <1>1, PhotosAssumption, FS_Subset
<1> QED BY <1>1, <1>2, PhotosAssumption DEF Library, TakenOK, Dated

LEMMA DraftsAre ==
    ASSUME NEW n \in Nat, NEW drafts, DOMAIN drafts = 1..n, drafts = [i \in 1..n |-> drafts[i]],
           \A i \in 1..n : \A p \in drafts[i].photos : taken[p] # None
    PROVE  DraftsOK(drafts)
<1>1. \A i \in 1..n : drafts[i] \in Range(drafts)
  BY DEF Range
<1>2. drafts \in [1..n -> Range(drafts)]
  BY <1>1
<1>3. drafts \in Seq(Range(drafts))
  BY <1>2
<1> QED BY <1>3 DEF DraftsOK

LEMMA AnniversariesAreDated == ASSUME Library, NEW day \in Int PROVE DraftsOK(Anniversaries(day))
<1> DEFINE size == [y \in 0..(Year(day) - 1) |-> Cardinality(AnniversaryCandidates(day, y))]
           Y == {y \in DOMAIN size : size[y] >= MinImages}
           years == InOrder(Y, LAMBDA y, z : size[y] > size[z] \/ (size[y] = size[z] /\ y > z))
           first == FirstOf(MaxAnniversaries, years)
           draft == [i \in DOMAIN first |-> Draft(<<"anniversary", DayOfYear(day), first[i]>>,
                                                  AnniversaryCandidates(day, first[i]), day, None)]
<1>1. Anniversaries(day) = draft
  BY DEF Anniversaries, Each
<1>2. IsFiniteSet(Y)
  <2>1. Year(day) \in Int
    BY StoryAssumption DEF Year
  <2>2. IsFiniteSet(0..(Year(day) - 1))
    BY <2>1, FS_Interval
  <2>3. Y \in SUBSET (0..(Year(day) - 1))
    OBVIOUS
  <2> HIDE DEF Y
  <2> QED BY <2>2, <2>3, FS_Subset
<1>3. DOMAIN years = 1..Cardinality(Y) /\ years = [i \in DOMAIN years |-> years[i]]
  <2> HIDE DEF Y, size
  <2> QED BY DEF InOrder
<1>4. years \in Seq(Range(years))
  <2> HIDE DEF years, Y
  <2>1. Cardinality(Y) \in Nat
    BY <1>2, FS_CardinalityType
  <2>2. \A i \in DOMAIN years : years[i] \in Range(years)
    BY DEF Range
  <2>3. years \in [1..Cardinality(Y) -> Range(years)]
    BY <1>3, <2>2
  <2> QED BY <2>1, <2>3
<1> HIDE DEF years
<1>5. first \in Seq(Range(years))
  BY <1>4, FirstIsSeq, StoryAssumption
<1> HIDE DEF first
<1>6. \A i \in DOMAIN first : draft[i].photos = AnniversaryCandidates(day, first[i])
  BY DEF Draft
<1>7. \A y : \A p \in AnniversaryCandidates(day, y) : taken[p] # None
  BY DatedPhotos DEF AnniversaryCandidates
<1>8. DOMAIN draft = 1..Len(first) /\ Len(first) \in Nat /\ draft = [i \in 1..Len(first) |-> draft[i]]
  BY <1>5
<1> DEFINE n == Len(first)
<1>9. n \in Nat /\ DOMAIN draft = 1..n /\ draft = [i \in 1..n |-> draft[i]]
  BY <1>8
<1> HIDE DEF draft
<1>10. \A i \in 1..n : \A p \in draft[i].photos : taken[p] # None
  BY <1>5, <1>6, <1>7
<1> HIDE DEF n
<1>11. DraftsOK(draft)
  BY <1>9, <1>10, DraftsAre
<1> QED BY <1>1, <1>11

LEMMA RecentAreDated == ASSUME Library PROVE RecentDated \subseteq Dated
<1>1. Lists(BestFirst(Dated, taken), Dated)
  BY DatedPhotos, BestFirstLists
<1>2. CandidateLimit \in Int
  BY StoryAssumption
<1>3. Range(FirstOf(CandidateLimit, BestFirst(Dated, taken))) \subseteq Dated
  BY <1>1, <1>2, FirstOnesAreThere
<1> QED BY <1>3 DEF RecentDated, BestFirst, InOrder

(* In the order in which they were taken. *)
LEMMA TimedLists ==
    ASSUME Library, NEW S, S \subseteq Dated PROVE Lists(ByRank(S, taken), S)
<1>1. S \in SUBSET Dated
  OBVIOUS
<1>2. IsFiniteSet(S) /\ S \subseteq Nat /\ \A p \in S : taken[p] \in Int
  BY <1>1, DatedPhotos, FS_Subset
<1> QED BY <1>2, ByRankLists

LEMMA TimeAndPlaceSegmentsAre ==
    ASSUME Library, NEW S, S \subseteq Dated PROVE TimeAndPlaceSegments(S) \in Seq((SUBSET S) \ {{}})
<1> DEFINE timed == ByRank(S, taken)
           Cut(p, q) == \/ taken[q] - taken[p] > GapHours
                        \/ Place[p] # None /\ Place[q] # None /\ Abs(Place[p] - Place[q]) > JumpKm
           begins == {i \in DOMAIN timed : i = 1 \/ Cut(timed[i - 1], timed[i])}
<1>1. TimeAndPlaceSegments(S) = SegmentsAt(timed, begins)
  BY DEF TimeAndPlaceSegments, Segments, SegmentsAt, SegmentAt, Ascending, ByRank, InOrder
<1>2. Lists(timed, S)
  BY TimedLists
<1>3. begins \subseteq DOMAIN timed
  OBVIOUS
<1> HIDE DEF timed, begins
<1>4. SegmentsAt(timed, begins) \in Seq((SUBSET S) \ {{}})
  BY ONLY <1>2, <1>3, SegmentsAtAre
<1> QED BY <1>1, <1>4

LEMMA ImportsAreDated == ASSUME Library, NEW day PROVE DraftsOK(Imports(day))
<1> DEFINE segments == TimeAndPlaceSegments(RecentDated)
           fit == {S \in Range(segments) : Cardinality(S) >= MinImages /\ End(S) - Start(S) <= SpanDays * DayLength}
           bursts == Those(segments, fit)
           rank == [i \in DOMAIN bursts |-> -End(bursts[i])]
           best == Best(MaxImports, bursts, rank)
           draft == [i \in DOMAIN best |-> Draft(<<"import", Day(Start(best[i])), Day(End(best[i]))>>, best[i], day, None)]
           X == (SUBSET RecentDated) \ {{}}
<1>1. Imports(day) = draft
  BY DEF Imports, Each
<1>2. segments \in Seq(X)
  BY RecentAreDated, TimeAndPlaceSegmentsAre
<1>3. bursts \in Seq(X)
  <2> HIDE DEF segments, fit, X
  <2>1. bursts \in Seq(X \cap fit)
    BY <1>2, ThoseAreThose
  <2> HIDE DEF bursts
  <2>2. X \cap fit \subseteq X
    OBVIOUS
  <2> QED BY <2>1, <2>2
<1> HIDE DEF bursts
<1>4. \A i \in DOMAIN bursts : rank[i] \in Int
  <2> TAKE i \in DOMAIN bursts
  <2>1. bursts[i] \in X
    BY <1>3
  <2>2. bursts[i] \subseteq Photos /\ bursts[i] # {} /\ \A p \in bursts[i] : taken[p] \in Int
    BY <2>1, RecentAreDated, DatedPhotos
  <2>3. End(bursts[i]) \in Int
    BY <2>2, PeriodHolds
  <2> QED BY <2>3
<1> HIDE DEF rank
<1>5. best \in Seq(X)
  <2> HIDE DEF X
  <2> QED BY <1>3, <1>4, BestAreDrafts, StoryAssumption
<1> HIDE DEF best
<1>6. \A i \in DOMAIN best : best[i] \in X /\ draft[i].photos = best[i]
  BY <1>5 DEF Draft
<1>7. \A i \in DOMAIN best : \A p \in draft[i].photos : taken[p] # None
  BY <1>6, RecentAreDated, DatedPhotos
<1>8. DOMAIN draft = 1..Len(best) /\ Len(best) \in Nat /\ draft = [i \in 1..Len(best) |-> draft[i]]
  BY <1>5
<1> DEFINE n == Len(best)
<1>9. n \in Nat /\ DOMAIN draft = 1..n /\ draft = [i \in 1..n |-> draft[i]]
  BY <1>8
<1> HIDE DEF draft
<1>10. \A i \in 1..n : \A p \in draft[i].photos : taken[p] # None
  BY <1>5, <1>7
<1> HIDE DEF n
<1>11. DraftsOK(draft)
  BY <1>9, <1>10, DraftsAre
<1> QED BY <1>1, <1>11

---------------------------------------------------------------------------
(* Occurrences that overlap.                                               *)

(* A fold over the places of a sequence, from the first to the last. *)
CanFold(D, V, base, step) == D \subseteq Nat /\ IsFiniteSet(D) /\ base \in V /\ step \in [D -> [V -> V]]
FoldsUp(h, D, V, base, step) ==
    h \in [SUBSET D -> V] /\ \A s \in SUBSET D : h[s] = IF s = {} THEN base ELSE step[Max(s)][h[s \ {Max(s)}]]

LEMMA FoldOverPlaces ==
    ASSUME NEW D, NEW V, NEW base, NEW step, CanFold(D, V, base, step)
    PROVE  \E h : FoldsUp(h, D, V, base, step)
<1> USE DEF CanFold
<1> DEFINE pick == [s \in SUBSET D |-> Max(s)]
<1>1. \A s \in SUBSET D : pick[s] = Max(s) /\ (s # {} => pick[s] \in s)
  <2> TAKE s \in SUBSET D
  <2>1. IsFiniteSet(s)
    BY FS_Subset
  <2>2. s \subseteq Int
    OBVIOUS
  <2> QED BY <2>1, <2>2, MaxIsGreatest
<1> HIDE DEF pick
<1>2. Steps(D, V, base, pick, step)
  BY <1>1 DEF Steps
<1>3. PICK h : IsFold(h, D, V, base, pick, step)
  BY <1>2, FoldExists
<1>4. h \in [SUBSET D -> V] /\ \A s \in SUBSET D : h[s] = IF s = {} THEN base ELSE step[pick[s]][h[s \ {pick[s]}]]
  BY <1>3 DEF IsFold
<1>5. ASSUME NEW s \in SUBSET D PROVE h[s] = IF s = {} THEN base ELSE step[Max(s)][h[s \ {Max(s)}]]
  <2>1. pick[s] = Max(s)
    BY <1>1
  <2>2. h[s] = IF s = {} THEN base ELSE step[pick[s]][h[s \ {pick[s]}]]
    BY <1>4
  <2> QED BY <2>1, <2>2
<1>6. \A s \in SUBSET D : h[s] = IF s = {} THEN base ELSE step[Max(s)][h[s \ {Max(s)}]]
  BY <1>5
<1> QED BY <1>4, <1>6 DEF FoldsUp

LEMMA FoldStays ==
    ASSUME NEW D, D \subseteq Nat, IsFiniteSet(D), NEW V, NEW iter, iter[{}] \in V,
           \A s \in SUBSET D : s # {} /\ iter[s \ {Max(s)}] \in V => iter[s] \in V
    PROVE  iter[D] \in V
<1> DEFINE B == {s \in SUBSET D : iter[s] \notin V}
<1>1. ASSUME B # {} PROVE FALSE
  <2>1. B \in SUBSET SUBSET D
    OBVIOUS
  <2>2. PICK T \in B : \A x \in T : T \ {x} \notin B
    <3> HIDE DEF B
    <3> QED BY <1>1, <2>1, SmallestExists
  <2>3. T # {} /\ T \in SUBSET D
    BY <2>2
  <2>4. Max(T) \in T
    <3>1. IsFiniteSet(T)
      BY <2>3, FS_Subset
    <3>2. T \subseteq Int
      BY <2>3
    <3> QED BY <2>3, <3>1, <3>2, MaxIsGreatest
  <2> QED BY <2>2, <2>3, <2>4
<1> QED BY <1>1

(* What occurrences are, over photos D. *)
Occ(D) == [photos : SUBSET D, start : Int, end : Int, label : Events, total : Int]

(* Merged, with its local definitions named. *)
OverlapOf(a, b) == Min({a.end, b.end}) - Max({a.start, b.start})
ShorterOf(a, b) == Min({a.end - a.start, b.end - b.start})
AreJoined(a, b) == OverlapOf(a, b) > 0 /\ 100 * OverlapOf(a, b) >= OverlapPercent * ShorterOf(a, b)
JoinOf(a, b) ==
    [photos |-> a.photos \cup b.photos,
     start |-> Min({a.start, b.start}), end |-> Max({a.end, b.end}),
     label |-> IF b.total > a.total THEN b.label ELSE a.label,
     total |-> Max({a.total, b.total})]
MergeOne(merged, b) ==
    LET hosts == {i \in DOMAIN merged : AreJoined(merged[i], b)}
    IN  IF hosts = {} THEN Append(merged, b) ELSE [merged EXCEPT ![Min(hosts)] = JoinOf(@, b)]
MergeSteps(iter, seq) ==
    iter = [s \in SUBSET DOMAIN seq |-> IF s = {} THEN <<>> ELSE MergeOne(iter[s \ {Max(s)}], seq[Max(s)])]
MergeAll(seq) == LET iter == CHOOSE iter : MergeSteps(iter, seq) IN iter[DOMAIN seq]

LEMMA MergedIs == ASSUME NEW seq PROVE Merged(seq) = MergeAll(seq)
BY DEF Merged, FoldLeft, MapThenFoldSet, MergeAll, MergeSteps, MergeOne, JoinOf, AreJoined, OverlapOf, ShorterOf

LEMMA JoinIsOcc == ASSUME NEW D, NEW a \in Occ(D), NEW b \in Occ(D) PROVE JoinOf(a, b) \in Occ(D)
<1>1. \A x, y \in Int : Min({x, y}) \in Int /\ Max({x, y}) \in Int
  <2> TAKE x \in Int, y \in Int
  <2>1. {x, y} \subseteq Int /\ {x, y} # {} /\ IsFiniteSet({x, y})
    BY PairsAreFinite
  <2>2. Min({x, y}) \in {x, y} /\ Max({x, y}) \in {x, y}
    BY <2>1, MinIsReached, MaxIsGreatest
  <2> QED BY <2>2
<1>2. /\ a.photos \subseteq D /\ a.start \in Int /\ a.end \in Int /\ a.label \in Events /\ a.total \in Int
      /\ b.photos \subseteq D /\ b.start \in Int /\ b.end \in Int /\ b.label \in Events /\ b.total \in Int
  BY DEF Occ
<1> QED BY <1>1, <1>2 DEF JoinOf, Occ

LEMMA MergeOneIs ==
    ASSUME NEW D, NEW merged \in Seq(Occ(D)), NEW b \in Occ(D) PROVE MergeOne(merged, b) \in Seq(Occ(D))
<1> DEFINE hosts == {i \in DOMAIN merged : AreJoined(merged[i], b)}
           X == Occ(D)
           i == Min(hosts)
           joined == JoinOf(merged[i], b)
<1>1. CASE hosts = {} /\ MergeOne(merged, b) = Append(merged, b)
  <2> HIDE DEF X
  <2>1. b \in X /\ merged \in Seq(X)
    BY DEF X
  <2>2. Append(merged, b) \in Seq(X)
    BY <2>1
  <2> QED BY <1>1, <2>2 DEF X
<1>2. CASE hosts # {} /\ MergeOne(merged, b) = [merged EXCEPT ![i] = JoinOf(@, b)]
  <2>1. hosts \subseteq Nat /\ hosts \subseteq DOMAIN merged
    OBVIOUS
  <2>2. i \in DOMAIN merged
    <3> HIDE DEF hosts
    <3> QED BY <1>2, <2>1, MinIsLeast
  <2>3. merged[i] \in X
    <3> HIDE DEF i
    <3> QED BY <2>2
  <2>4. joined \in X
    <3> HIDE DEF i
    <3> QED BY <2>3, JoinIsOcc
  <2>5. MergeOne(merged, b) = [merged EXCEPT ![i] = joined]
    BY <1>2
  <2> HIDE DEF X, joined, i
  <2>6. [merged EXCEPT ![i] = joined] \in Seq(X)
    <3>1. merged \in Seq(X)
      BY DEF X
    <3> QED BY <2>2, <2>4, <3>1
  <2> QED BY <2>5, <2>6 DEF X
<1> QED BY <1>1, <1>2 DEF MergeOne

LEMMA MergedAre == ASSUME NEW D, NEW seq \in Seq(Occ(D)) PROVE Merged(seq) \in Seq(Occ(D))
<1> DEFINE P == DOMAIN seq
           V == Seq(Occ(D))
           step == [i \in P |-> [v \in V |-> MergeOne(v, seq[i])]]
<1>1. P \subseteq Nat /\ IsFiniteSet(P)
  BY PlacesOfSeq
<1>2. \A i \in P, v \in V : step[i][v] = MergeOne(v, seq[i]) /\ MergeOne(v, seq[i]) \in V
  <2>1. \A i \in P : seq[i] \in Occ(D)
    OBVIOUS
  <2> QED BY <2>1, MergeOneIs
<1>3. step \in [P -> [V -> V]] /\ <<>> \in V
  BY <1>2
<1> HIDE DEF P, V, step
<1>4. \E h : FoldsUp(h, P, V, <<>>, step)
  <2>1. CanFold(P, V, <<>>, step)
    BY <1>1, <1>3 DEF CanFold
  <2> QED BY <2>1, FoldOverPlaces
<1>5. PICK h : FoldsUp(h, P, V, <<>>, step)
  BY <1>4
<1>6. h \in [SUBSET P -> V] /\ \A s \in SUBSET P : h[s] = IF s = {} THEN <<>> ELSE step[Max(s)][h[s \ {Max(s)}]]
  BY <1>5 DEF FoldsUp
<1>7. \A s \in SUBSET P : s # {} => Max(s) \in P
  <2> TAKE s \in SUBSET P
  <2>1. IsFiniteSet(s)
    BY <1>1, FS_Subset
  <2>2. s \subseteq Int
    BY <1>1
  <2> QED BY <2>1, <2>2, MaxIsGreatest
<1>8. MergeSteps(h, seq)
  <2>1. ASSUME NEW s \in SUBSET P, s # {} PROVE h[s] = MergeOne(h[s \ {Max(s)}], seq[Max(s)])
    <3>1. Max(s) \in P /\ h[s \ {Max(s)}] \in V
      BY <1>6, <1>7, <2>1
    <3> QED BY <1>2, <1>6, <2>1, <3>1
  <2>2. h[{}] = <<>>
    BY <1>6
  <2>3. h = [s \in SUBSET P |-> IF s = {} THEN <<>> ELSE MergeOne(h[s \ {Max(s)}], seq[Max(s)])]
    BY <1>6, <2>1, <2>2
  <2> QED BY <2>3 DEF MergeSteps, P
<1> DEFINE iter == CHOOSE iter : MergeSteps(iter, seq)
<1>9. MergeSteps(iter, seq)
  BY <1>8
<1> HIDE DEF iter
<1>10. \A s \in SUBSET P : iter[s] = IF s = {} THEN <<>> ELSE MergeOne(iter[s \ {Max(s)}], seq[Max(s)])
  BY <1>9 DEF MergeSteps, P
<1>11. iter[P] \in V
  <2>1. iter[{}] \in V
    BY <1>3, <1>10
  <2>2. \A s \in SUBSET P : s # {} /\ iter[s \ {Max(s)}] \in V => iter[s] \in V
    BY <1>2, <1>7, <1>10
  <2> QED BY <1>1, <2>1, <2>2, FoldStays
<1> QED BY <1>11, MergedIs DEF MergeAll, iter, P, V

---------------------------------------------------------------------------
(* Occurrences of a label.                                                 *)

LEMMA PercentileIsInt ==
    ASSUME Library, NEW l, NEW p \in With(l) PROVE Percentile(p, l) \in Int
<1> DEFINE W == With(l)
           below == {q \in W : Matches[q][l] < Matches[p][l]}
<1>1. Percentile(p, l) = IF W = {p} THEN 0 ELSE (100 * Cardinality(below)) \div (Cardinality(W) - 1)
  BY DEF Percentile
<1>2. IsFiniteSet(W)
  <2>1. W \in SUBSET Photos
    BY DEF With, Library
  <2> HIDE DEF W
  <2> QED BY <2>1, PhotosAssumption, FS_Subset
<1> HIDE DEF W
<1>3. p \in W
  BY DEF W
<1>4. Cardinality(below) \in Nat
  <2>1. below \in SUBSET W
    OBVIOUS
  <2> HIDE DEF below
  <2>2. IsFiniteSet(below)
    BY <1>2, <2>1, FS_Subset
  <2> QED BY <2>2, FS_CardinalityType
<1>5. W # {p} => Cardinality(W) - 1 \in Nat \ {0}
  <2>1. Cardinality(W) \in Nat /\ Cardinality(W) # 0
    BY <1>2, <1>3, FS_CardinalityType, FS_EmptySet
  <2>2. Cardinality(W) = 1 => W = {p}
    <3>1. ASSUME Cardinality(W) = 1 PROVE \E x : W = {x}
      BY <1>2, <3>1, FS_Singleton
    <3> QED BY <1>3, <3>1
  <2> QED BY <2>1, <2>2
<1> DEFINE a == 100 * Cardinality(below)
           b == Cardinality(W) - 1
<1>6. a \in Int
  <2> DEFINE c == Cardinality(below)
  <2>1. a = 100 * c /\ c \in Nat
    BY <1>4
  <2> HIDE DEF a, c
  <2> QED BY <2>1
<1>7. W # {p} => b \in Nat \ {0}
  BY <1>5
<1>8. Percentile(p, l) = IF W = {p} THEN 0 ELSE a \div b
  BY <1>1
<1> HIDE DEF a, b
<1>9. W # {p} => a \div b \in Int
  BY <1>6, <1>7
<1> QED BY <1>8, <1>9

LEMMA OccurrencesAre ==
    ASSUME Library, NEW l \in Events, NEW baseline PROVE OccurrencesOf(l, baseline) \in Seq(Occ(Dated))
<1> DEFINE hits == EventLabelHits(l)
           timed == ByRank(hits, taken)
           begins == {i \in DOMAIN timed : i = 1 \/ taken[timed[i]] - taken[timed[i - 1]] > EventGap}
           segments == Segments(hits, LAMBDA p, q : taken[q] - taken[p] > EventGap)
           X == (SUBSET hits) \ {{}}
           fit == {S \in Range(segments) : PassesCoherenceGate(S, baseline)}
           passing == Those(segments, fit)
           made == [i \in DOMAIN passing |-> Occurrence(passing[i], l)]
<1>1. OccurrencesOf(l, baseline) = made
  BY DEF OccurrencesOf, Each
<1>2. hits \subseteq Dated /\ \A p \in hits : p \in With(l)
  BY DEF EventLabelHits, Dated, With, IsAbout
<1> HIDE DEF hits
<1>3. segments \in Seq(X)
  <2>1. segments = SegmentsAt(timed, begins)
    BY DEF Segments, SegmentsAt, SegmentAt, Ascending, ByRank, InOrder
  <2>2. Lists(timed, hits)
    BY <1>2, TimedLists
  <2>3. begins \subseteq DOMAIN timed
    OBVIOUS
  <2> HIDE DEF timed, begins
  <2>4. SegmentsAt(timed, begins) \in Seq((SUBSET hits) \ {{}})
    BY ONLY <2>2, <2>3, SegmentsAtAre
  <2> QED BY <2>1, <2>4
<1>4. passing \in Seq(X)
  <2> HIDE DEF segments, fit, X
  <2>1. passing \in Seq(X \cap fit)
    BY <1>3, ThoseAreThose
  <2> HIDE DEF passing
  <2>2. X \cap fit \subseteq X
    OBVIOUS
  <2> QED BY <2>1, <2>2
<1> HIDE DEF passing
<1>5. ASSUME NEW S \in X PROVE Occurrence(S, l) \in Occ(Dated)
  <2>1. S \subseteq Photos /\ S \subseteq Dated /\ S # {} /\ \A p \in S : taken[p] \in Int
    BY <1>2, DatedPhotos
  <2>2. Start(S) \in Int /\ End(S) \in Int
    BY <2>1, PeriodHolds
  <2>3. IsFiniteSet(S)
    BY <2>1, PhotosAssumption, FS_Subset
  <2> DEFINE f == [p \in S |-> Percentile(p, l)]
  <2>4. \A p \in S : f[p] \in Int
    BY <1>2, PercentileIsInt
  <2>5. SumFunction(f) = SumFunctionOnSet(f, S)
    BY DEF SumFunction
  <2>6. SumFunctionOnSet(f, S) \in Int
    <3> HIDE DEF f
    <3> QED BY <2>3, <2>4, SumIsInt
  <2>7. Occurrence(S, l) = [photos |-> S, start |-> Start(S), end |-> End(S), label |-> l, total |-> SumFunction(f)]
    BY DEF Occurrence
  <2> HIDE DEF f
  <2> QED BY <2>1, <2>2, <2>5, <2>6, <2>7 DEF Occ
<1> DEFINE n == Len(passing)
<1>6. n \in Nat /\ DOMAIN passing = 1..n /\ \A i \in 1..n : passing[i] \in X
  BY <1>4
<1>7. made = [i \in 1..n |-> Occurrence(passing[i], l)]
  BY <1>6
<1> HIDE DEF n, X, made
<1>8. made \in [1..n -> Occ(Dated)]
  BY <1>5, <1>6, <1>7
<1>9. made \in Seq(Occ(Dated))
  BY <1>6, <1>8
<1> QED BY <1>1, <1>9

(* The sequences that f gives for the members of seq, one after the other. *)
JoinSteps(iter, seq, f) ==
    iter = [s \in SUBSET DOMAIN seq |-> IF s = {} THEN <<>> ELSE iter[s \ {Max(s)}] \o f[seq[Max(s)]]]
JoinedOf(seq, f) == LET iter == CHOOSE iter : JoinSteps(iter, seq, f) IN iter[DOMAIN seq]

LEMMA JoinedAre ==
    ASSUME NEW X, NEW A, NEW seq \in Seq(A), NEW f, \A x \in A : f[x] \in Seq(X) PROVE JoinedOf(seq, f) \in Seq(X)
<1> DEFINE P == DOMAIN seq
           V == Seq(X)
           step == [i \in P |-> [v \in V |-> v \o f[seq[i]]]]
<1>1. P \subseteq Nat /\ IsFiniteSet(P)
  BY PlacesOfSeq
<1>2. \A i \in P, v \in V : step[i][v] = v \o f[seq[i]] /\ v \o f[seq[i]] \in V
  <2>1. \A i \in P : f[seq[i]] \in Seq(X)
    OBVIOUS
  <2> QED BY <2>1
<1>3. step \in [P -> [V -> V]] /\ <<>> \in V
  BY <1>2
<1> HIDE DEF P, V, step
<1>4. \E h : FoldsUp(h, P, V, <<>>, step)
  <2>1. CanFold(P, V, <<>>, step)
    BY <1>1, <1>3 DEF CanFold
  <2> QED BY <2>1, FoldOverPlaces
<1>5. PICK h : FoldsUp(h, P, V, <<>>, step)
  BY <1>4
<1>6. h \in [SUBSET P -> V] /\ \A s \in SUBSET P : h[s] = IF s = {} THEN <<>> ELSE step[Max(s)][h[s \ {Max(s)}]]
  BY <1>5 DEF FoldsUp
<1>7. \A s \in SUBSET P : s # {} => Max(s) \in P
  <2> TAKE s \in SUBSET P
  <2>1. IsFiniteSet(s)
    BY <1>1, FS_Subset
  <2>2. s \subseteq Int
    BY <1>1
  <2> QED BY <2>1, <2>2, MaxIsGreatest
<1>8. JoinSteps(h, seq, f)
  <2>1. ASSUME NEW s \in SUBSET P, s # {} PROVE h[s] = h[s \ {Max(s)}] \o f[seq[Max(s)]]
    <3>1. Max(s) \in P /\ h[s \ {Max(s)}] \in V
      BY <1>6, <1>7, <2>1
    <3> QED BY <1>2, <1>6, <2>1, <3>1
  <2>2. h[{}] = <<>>
    BY <1>6
  <2>3. h = [s \in SUBSET P |-> IF s = {} THEN <<>> ELSE h[s \ {Max(s)}] \o f[seq[Max(s)]]]
    BY <1>6, <2>1, <2>2
  <2> QED BY <2>3 DEF JoinSteps, P
<1> DEFINE iter == CHOOSE iter : JoinSteps(iter, seq, f)
<1>9. JoinSteps(iter, seq, f)
  BY <1>8
<1> HIDE DEF iter
<1>10. \A s \in SUBSET P : iter[s] = IF s = {} THEN <<>> ELSE iter[s \ {Max(s)}] \o f[seq[Max(s)]]
  BY <1>9 DEF JoinSteps, P
<1>11. iter[P] \in V
  <2>1. iter[{}] \in V
    BY <1>3, <1>10
  <2>2. \A s \in SUBSET P : s # {} /\ iter[s \ {Max(s)}] \in V => iter[s] \in V
    BY <1>2, <1>7, <1>10
  <2> QED BY <1>1, <2>1, <2>2, FoldStays
<1> QED BY <1>11 DEF JoinedOf, iter, P, V

LEMMA SemanticsAreDated == ASSUME Library, NEW day \in Int, NEW baseline PROVE DraftsOK(Semantics(day, baseline))
<1> DEFINE X == Occ(Dated)
           f == [l \in Events |-> OccurrencesOf(l, baseline)]
           labels == Ascending(Events)
           all == FoldLeft(LAMBDA seq, l : seq \o OccurrencesOf(l, baseline), <<>>, InOrder(Events, <))
           byStart == [i \in DOMAIN all |-> all[i].start]
           inTime == Best(Len(all), all, byStart)
           found == Merged(inTime)
           bySize == [i \in DOMAIN found |-> -Cardinality(found[i].photos)]
           best == Best(MaxSemantics, found, bySize)
           Event(o) == Draft(<<"semantic", o.label, Day(o.start)>>, o.photos \cup ImagesInPeriod(o.start, o.end),
                             SurfaceDate(day, o.start), o.label)
           draft == [i \in DOMAIN best |-> Event(best[i])]
<1>1. Semantics(day, baseline) = draft
  BY DEF Semantics, Each
<1>2. \A l \in Events : f[l] = OccurrencesOf(l, baseline) /\ f[l] \in Seq(X)
  BY OccurrencesAre
<1>3. Lists(labels, Events) /\ labels \in Seq(Events)
  <2>1. Lists(labels, Events)
    BY AscendingLists, StoryAssumption
  <2> HIDE DEF labels
  <2> QED BY <2>1 DEF Lists
<1>4. all = JoinedOf(labels, f)
  <2> DEFINE I == InOrder(Events, <)
  <2>1. I = labels
    BY DEF Ascending, InOrder
  <2>2. \A k \in DOMAIN I : f[I[k]] = OccurrencesOf(I[k], baseline)
    <3> HIDE DEF I, labels, f
    <3> QED BY <1>2, <1>3, <2>1
  <2> HIDE DEF I, labels, f
  <2>3. all = LET iter == CHOOSE iter : iter = [s \in SUBSET DOMAIN I |->
                    IF s = {} THEN <<>> ELSE iter[s \ {Max(s)}] \o OccurrencesOf(I[Max(s)], baseline)] IN iter[DOMAIN I]
    BY DEF FoldLeft, MapThenFoldSet, I
  <2> HIDE DEF all
  <2>4. \A s \in SUBSET DOMAIN I : s # {} => f[I[Max(s)]] = OccurrencesOf(I[Max(s)], baseline)
    <3> TAKE s \in SUBSET DOMAIN I
    <3>1. DOMAIN I \subseteq Nat /\ IsFiniteSet(DOMAIN I)
      BY <1>3, <2>1, PlacesOfSeq
    <3>2. IsFiniteSet(s)
      BY <3>1, FS_Subset
    <3>3. s \subseteq Int
      BY <3>1
    <3>4. s # {} => Max(s) \in DOMAIN I
      BY <3>2, <3>3, MaxIsGreatest
    <3> QED BY <2>2, <3>4
  <2>5. \A iter : (iter = [s \in SUBSET DOMAIN I |->
                    IF s = {} THEN <<>> ELSE iter[s \ {Max(s)}] \o OccurrencesOf(I[Max(s)], baseline)]) <=> JoinSteps(iter, I, f)
    <3> TAKE iter
    <3> DEFINE g == [s \in SUBSET DOMAIN I |->
                    IF s = {} THEN <<>> ELSE iter[s \ {Max(s)}] \o OccurrencesOf(I[Max(s)], baseline)]
               h == [s \in SUBSET DOMAIN I |-> IF s = {} THEN <<>> ELSE iter[s \ {Max(s)}] \o f[I[Max(s)]]]
    <3>1. g = h
      BY <2>4
    <3> HIDE DEF g, h
    <3>2. (iter = g) <=> (iter = h)
      BY <3>1
    <3> QED BY <3>2 DEF g, h, JoinSteps
  <2>6. (CHOOSE iter : iter = [s \in SUBSET DOMAIN I |->
                    IF s = {} THEN <<>> ELSE iter[s \ {Max(s)}] \o OccurrencesOf(I[Max(s)], baseline)]) = CHOOSE iter : JoinSteps(iter, I, f)
    BY <2>5
  <2> QED BY <2>1, <2>3, <2>6 DEF JoinedOf
<1> HIDE DEF all
<1>5. all \in Seq(X)
  <2> HIDE DEF labels, f, X
  <2>1. JoinedOf(labels, f) \in Seq(X)
    BY <1>2, <1>3, JoinedAre
  <2> QED BY <1>4, <2>1
<1>6. \A i \in DOMAIN all : byStart[i] \in Int
  <2> TAKE i \in DOMAIN all
  <2> HIDE DEF X
  <2>1. all[i] \in X
    BY <1>5
  <2>2. all[i].start \in Int
    BY <2>1 DEF Occ, X
  <2> QED BY <2>2
<1>7. Len(all) \in Nat
  BY <1>5
<1> HIDE DEF byStart
<1>8. inTime \in Seq(X)
  <2> HIDE DEF X
  <2> QED BY <1>5, <1>6, <1>7, BestAreDrafts
<1> HIDE DEF inTime
<1>9. found \in Seq(X)
  BY ONLY <1>8, MergedAre
<1> HIDE DEF found
<1>10. \A i \in DOMAIN found : bySize[i] \in Int
  <2> TAKE i \in DOMAIN found
  <2>1. found[i] \in X
    <3> HIDE DEF X
    <3> QED BY <1>9
  <2>2. found[i].photos \in SUBSET Dated
    BY <2>1 DEF Occ
  <2>3. Cardinality(found[i].photos) \in Nat
    BY <2>2, DatedPhotos, FS_Subset, FS_CardinalityType
  <2> QED BY <2>3
<1> HIDE DEF bySize
<1>11. best \in Seq(X)
  <2> HIDE DEF X
  <2> QED BY <1>9, <1>10, BestAreDrafts, StoryAssumption
<1> HIDE DEF best
<1>12. \A i \in DOMAIN best : \A p \in draft[i].photos : taken[p] # None
  <2> TAKE i \in DOMAIN best
  <2>1. best[i] \in X
    <3> HIDE DEF X
    <3> QED BY <1>11
  <2>2. best[i].photos \subseteq Dated
    BY <2>1 DEF Occ
  <2>3. draft[i].photos = best[i].photos \cup ImagesInPeriod(best[i].start, best[i].end)
    BY DEF Draft
  <2> QED BY <2>2, <2>3, DatedPhotos DEF ImagesInPeriod
<1>13. DOMAIN draft = 1..Len(best) /\ Len(best) \in Nat /\ draft = [i \in 1..Len(best) |-> draft[i]]
  BY <1>11
<1> DEFINE n == Len(best)
<1>14. n \in Nat /\ DOMAIN draft = 1..n /\ draft = [i \in 1..n |-> draft[i]]
  BY <1>13
<1>15. DOMAIN best = 1..n
  BY <1>11
<1> HIDE DEF draft, n
<1>16. \A i \in 1..n : \A p \in draft[i].photos : taken[p] # None
  BY <1>12, <1>15
<1>17. DraftsOK(draft)
  BY <1>14, <1>16, DraftsAre
<1> QED BY <1>1, <1>17

---------------------------------------------------------------------------
(* What is stored has dates.                                               *)

(* No photo is outside the period of the memory. *)
PeriodOK(m) == m.start # None => \A p \in PhotosOf(m) : taken[p] # None /\ taken[p] \in m.start .. m.end

MemoriesFresh == ~moved => \A k \in DOMAIN memories : PeriodOK(memories[k])

(* As long as no date has moved, what the pass has read and built is dated. *)
WorkFresh ==
    work.kind = "curate" =>
        /\ work.day \in Int /\ work.trigger \in 1..3
        /\ work.stage = "build" => work.drafts # <<>>
        /\ ~moved => DraftsOK(work.drafts) /\ (work.stage = "write" => PeriodOK(work.made))

FreshInv == today \in Int /\ MemoriesFresh /\ WorkFresh

LEMMA DraftsForAreDated ==
    ASSUME Library, NEW t \in 1..3, NEW day \in Int, NEW baseline
    PROVE  DraftsOK(DraftsFor(Triggers[t], day, baseline))
<1>1. CASE t = 1
  <2>1. DraftsFor(Triggers[t], day, baseline) = Anniversaries(day)
    BY <1>1 DEF DraftsFor, Triggers
  <2> QED BY <2>1, AnniversariesAreDated
<1>2. CASE t = 2
  <2>1. DraftsFor(Triggers[t], day, baseline) = Semantics(day, baseline)
    BY <1>2 DEF DraftsFor, Triggers
  <2> QED BY <2>1, SemanticsAreDated
<1>3. CASE t = 3
  <2>1. DraftsFor(Triggers[t], day, baseline) = Imports(day)
    BY <1>3 DEF DraftsFor, Triggers
  <2> QED BY <2>1, ImportsAreDated
<1> QED BY <1>1, <1>2, <1>3

LEMMA TailIsDated == ASSUME NEW drafts, DraftsOK(drafts), drafts # <<>> PROVE DraftsOK(Tail(drafts)) /\ Head(drafts) = drafts[1] /\ 1 \in DOMAIN drafts
<1> DEFINE n == Len(drafts)
           rest == Tail(drafts)
<1>1. n \in Nat \ {0} /\ drafts \in Seq(Range(drafts)) /\ DOMAIN drafts = 1..n
  BY DEF DraftsOK
<1>2. DOMAIN rest = 1..(n - 1) /\ rest = [i \in 1..(n - 1) |-> rest[i]] /\ \A i \in 1..(n - 1) : rest[i] = drafts[i + 1]
  <2> DEFINE X == Range(drafts)
  <2>1. drafts \in Seq(X) /\ drafts # <<>>
    BY <1>1
  <2> HIDE DEF X
  <2>2. Tail(drafts) \in Seq(X) /\ Len(Tail(drafts)) = Len(drafts) - 1
    BY <2>1
  <2>3. \A i \in 1..(Len(drafts) - 1) : Tail(drafts)[i] = drafts[i + 1]
    BY <2>1
  <2> HIDE DEF rest
  <2>4. rest \in Seq(X) /\ Len(rest) = n - 1
    BY <2>2 DEF rest
  <2>5. DOMAIN rest = 1..(n - 1) /\ rest = [i \in 1..(n - 1) |-> rest[i]]
    <3> DEFINE k == n - 1
    <3>1. rest \in Seq(X) /\ Len(rest) = k
      BY <2>4
    <3> HIDE DEF k
    <3>2. DOMAIN rest = 1..k
      BY <3>1
    <3>3. rest \in [1..k -> X]
      BY <3>1, <3>2
    <3>4. rest = [i \in 1..k |-> rest[i]]
      BY <3>3
    <3> QED BY <3>2, <3>4 DEF k
  <2> QED BY <2>3, <2>5 DEF rest
<1>3. Head(drafts) = drafts[1] /\ 1 \in DOMAIN drafts
  BY <1>1
<1>4. \A i \in 1..(n - 1) : \A p \in rest[i].photos : taken[p] # None
  <2> HIDE DEF rest, n
  <2>1. \A i \in 1..(n - 1) : i + 1 \in 1..n
    BY <1>1
  <2> QED BY <1>1, <1>2, <2>1 DEF DraftsOK
<1> DEFINE k == n - 1
<1>5. k \in Nat
  BY <1>1
<1> HIDE DEF rest, n, k
<1>6. DOMAIN rest = 1..k /\ rest = [i \in 1..k |-> rest[i]]
  BY <1>2 DEF k
<1>7. DraftsOK(rest)
  BY <1>4, <1>5, <1>6, DraftsAre DEF k
<1> QED BY <1>3, <1>7 DEF rest

(* A memory of dated photos covers them all. *)
LEMMA PeriodCovers ==
    ASSUME TakenOK, NEW draft, NEW score, NEW chosen, chosen # {}, chosen \subseteq Photos,
           \A p \in chosen : taken[p] # None, PhotosOf(MemoryOf(draft, score, chosen)) = chosen
    PROVE  PeriodOK(MemoryOf(draft, score, chosen))
<1> DEFINE m == MemoryOf(draft, score, chosen)
           timed == {p \in chosen : taken[p] # None}
<1>1. timed = chosen
  OBVIOUS
<1>2. m.start = Start(chosen) /\ m.end = End(chosen)
  <2>1. timed # {}
    BY <1>1
  <2>2. m.start = Start(timed) /\ m.end = End(timed)
    BY <2>1 DEF MemoryOf
  <2> QED BY <1>1, <2>2
<1>3. \A p \in chosen : taken[p] \in Int
  BY DEF TakenOK
<1>4. \A p \in chosen : taken[p] \in Start(chosen) .. End(chosen)
  BY <1>3, PeriodHolds
<1>5. PhotosOf(m) = chosen
  OBVIOUS
<1> HIDE DEF m
<1>6. PeriodOK(m)
  BY <1>2, <1>4, <1>5 DEF PeriodOK
<1> QED BY <1>6 DEF m

LEMMA BuiltIsDated ==
    ASSUME TakenOK, alive \subseteq Photos, NEW home \in Int \cup {None}, NEW draft, NEW recents,
           \A p \in draft.photos : taken[p] # None, Built(draft, recents, home) # None
    PROVE  PeriodOK(Built(draft, recents, home))
<1> DEFINE rows == Candidates(draft, recents) \cap alive
           score == Scores(draft, recents, home, rows)
<1>1. PICK chosen :
         /\ chosen # {} /\ chosen \subseteq Candidates(draft, recents) \cap alive
         /\ Built(draft, recents, home) = MemoryOf(draft, score, chosen)
  BY BuiltIsOK
<1> HIDE DEF score
<1>2. Candidates(draft, recents) \subseteq draft.photos
  BY DEF Candidates
<1>3. \A p \in chosen : taken[p] # None
  BY <1>1, <1>2
<1>4. chosen \subseteq Photos
  BY <1>1
<1>5. PhotosOf(MemoryOf(draft, score, chosen)) = chosen
  BY DEF MemoryOf, PhotosOf, Restrict
<1>6. PeriodOK(MemoryOf(draft, score, chosen))
  BY <1>1, <1>3, <1>4, <1>5, PeriodCovers
<1> QED BY <1>1, <1>6

SteadyDates == UNCHANGED <<taken, moved, today>>

LEMMA StillDated ==
    ASSUME SteadyDates, UNCHANGED work, FreshInv PROVE WorkFresh' /\ today' \in Int
BY DEF FreshInv, SteadyDates, WorkFresh, DraftsOK, PeriodOK, PhotosOf

LEMMA OnwardIsFresh ==
    ASSUME SteadyDates, NEW w, DOMAIN w = WorkFields, w.day \in Int, w.trigger \in 1..3,
           ~moved => DraftsOK(w.drafts), work' = Onward(w)
    PROVE  WorkFresh'
<1>1. \A d : DraftsOK(d) => /\ d \in Seq(Range(d))
                            /\ \A i \in DOMAIN d : \A p \in d[i].photos : taken'[p] # None
  BY DEF SteadyDates, DraftsOK
<1>2. ASSUME work'.drafts = w.drafts PROVE ~moved' => DraftsOK(work.drafts)'
  BY <1>1, <1>2 DEF SteadyDates, DraftsOK
<1>3. CASE work' = Resting
  BY <1>3 DEF WorkFresh, Resting
<1>4. CASE w.drafts # <<>> /\ work' = [w EXCEPT !.stage = "build", !.made = None]
  <2>1. /\ work'.drafts = w.drafts /\ work'.day = w.day /\ work'.trigger = w.trigger /\ work'.stage = "build"
    BY <1>4 DEF WorkFields
  <2> QED BY <1>2, <1>4, <2>1 DEF WorkFresh
<1>5. CASE w.trigger # 3 /\ work' = [w EXCEPT !.stage = "plan", !.trigger = @ + 1, !.made = None]
  <2>1. /\ work'.drafts = w.drafts /\ work'.day = w.day /\ work'.trigger = w.trigger + 1 /\ work'.stage = "plan"
    BY <1>5 DEF WorkFields
  <2> QED BY <1>2, <1>5, <2>1 DEF WorkFresh
<1> QED BY <1>3, <1>4, <1>5 DEF Onward, Triggers

LEMMA FreshPlan == ASSUME MemoriesInv, FreshInv, Steady, SteadyDates, Plan PROVE FreshInv'
<1> DEFINE drafts == DraftsFor(Triggers[work.trigger], work.day, work.baseline)
           w == [work EXCEPT !.drafts = drafts, !.recents = RecentlyUsed(work.day)]
<1>1. work.day \in Int /\ work.trigger \in 1..3 /\ DOMAIN work = WorkFields
  BY DEF FreshInv, WorkFresh, Plan, MemoriesInv, WorkOK
<1>2. DraftsOK(drafts)
  BY <1>1, DraftsForAreDated DEF MemoriesInv, Library
<1>3. work' = Onward(w) /\ memories' = memories
  BY DEF Plan
<1> HIDE DEF drafts
<1>4. DOMAIN w = WorkFields /\ w.day = work.day /\ w.trigger = work.trigger /\ w.drafts = drafts
  BY <1>1 DEF WorkFields
<1> HIDE DEF w
<1>5. WorkFresh'
  BY <1>1, <1>2, <1>3, <1>4, OnwardIsFresh
<1>6. MemoriesFresh'
  BY <1>3 DEF FreshInv, MemoriesFresh, PeriodOK, SteadyDates
<1> QED BY <1>5, <1>6 DEF FreshInv, SteadyDates

LEMMA FreshBegin ==
    ASSUME MemoriesInv, FreshInv, UNCHANGED <<alive, taken, today>>, BeginCuration PROVE FreshInv'
<1>1. \A k \in DOMAIN memories \ Stale : PeriodOK(memories[k])
  BY DEF Stale, PeriodOK
<1>2. DOMAIN memories' = DOMAIN memories \ Stale /\ \A k \in DOMAIN memories \ Stale : memories'[k] = memories[k]
  BY DEF BeginCuration
<1>3. MemoriesFresh'
  BY <1>1, <1>2 DEF MemoriesFresh, PeriodOK
<1>4. work'.day = today /\ work'.trigger = 1 /\ work'.drafts = <<>> /\ work'.stage = "plan"
  BY DEF BeginCuration, Resting
<1>5. WorkFresh'
  <2>1. DraftsOK(work.drafts)'
    BY <1>4 DEF DraftsOK
  <2> QED BY <1>4, <2>1 DEF WorkFresh, FreshInv
<1> QED BY <1>3, <1>5 DEF FreshInv

LEMMA FreshBuild == ASSUME MemoriesInv, FreshInv, Steady, SteadyDates, Build PROVE FreshInv'
<1> DEFINE draft == Head(work.drafts)
           made == Built(draft, work.recents, work.home)
           rest == [work EXCEPT !.drafts = Tail(@), !.key = draft.key, !.made = made, !.own = Own(draft.key)]
<1>1. /\ work.day \in Int /\ work.trigger \in 1..3 /\ DOMAIN work = WorkFields /\ work.drafts # <<>>
      /\ ~moved => DraftsOK(work.drafts)
  BY DEF FreshInv, WorkFresh, Build, MemoriesInv, WorkOK
<1>2. ~moved => DraftsOK(Tail(work.drafts)) /\ \A p \in draft.photos : taken[p] # None
  <2> SUFFICES ASSUME ~moved PROVE DraftsOK(Tail(work.drafts)) /\ \A p \in draft.photos : taken[p] # None
    OBVIOUS
  <2>1. DraftsOK(Tail(work.drafts)) /\ draft = work.drafts[1] /\ 1 \in DOMAIN work.drafts
    BY <1>1, TailIsDated
  <2> QED BY <1>1, <2>1 DEF DraftsOK
<1>3. made # None /\ ~moved => PeriodOK(made)
  BY <1>2, BuiltIsDated DEF MemoriesInv, WorkOK
<1>4. memories' = memories /\ work' = IF made = None THEN Onward(rest) ELSE [rest EXCEPT !.stage = "write"]
  BY DEF Build
<1> HIDE DEF draft, made
<1>5. /\ DOMAIN rest = WorkFields /\ rest.day = work.day /\ rest.trigger = work.trigger
      /\ rest.drafts = Tail(work.drafts) /\ rest.made = made
  BY <1>1 DEF WorkFields
<1> HIDE DEF rest
<1>6. ASSUME made = None PROVE WorkFresh'
  BY <1>1, <1>2, <1>4, <1>5, <1>6, OnwardIsFresh
<1>7. ASSUME made # None PROVE WorkFresh'
  <2>1. /\ work'.day = work.day /\ work'.trigger = work.trigger /\ work'.drafts = Tail(work.drafts)
        /\ work'.made = made /\ work'.stage = "write"
    BY <1>4, <1>5, <1>7 DEF WorkFields
  <2>2. ~moved => DraftsOK(work.drafts)'
    BY <1>2, <2>1 DEF DraftsOK, SteadyDates
  <2>3. ~moved => PeriodOK(work.made)'
    BY <1>3, <1>7, <2>1 DEF PeriodOK, PhotosOf, SteadyDates
  <2> QED BY <1>1, <2>1, <2>2, <2>3 DEF WorkFresh, SteadyDates
<1>8. MemoriesFresh'
  BY <1>4 DEF FreshInv, MemoriesFresh, PeriodOK, SteadyDates
<1> QED BY <1>6, <1>7, <1>8 DEF FreshInv, SteadyDates

LEMMA FreshUpsert == ASSUME MemoriesInv, FreshInv, Steady, SteadyDates, UpsertMemory PROVE FreshInv'
<1> DEFINE old == IF work.key \in DOMAIN memories THEN memories[work.key]
                  ELSE [viewed |-> FALSE, dismissed |-> FALSE]
           row == Written(work.made, old)
           w == [work EXCEPT !.claimed = @ \cup {<<work.trigger, work.key>>}]
<1>1. /\ work.day \in Int /\ work.trigger \in 1..3 /\ DOMAIN work = WorkFields
      /\ ~moved => DraftsOK(work.drafts) /\ PeriodOK(work.made)
  BY DEF FreshInv, WorkFresh, UpsertMemory, MemoriesInv, WorkOK
<1>2. WorkFresh'
  <2>1. DOMAIN w = WorkFields /\ w.day = work.day /\ w.trigger = work.trigger /\ w.drafts = work.drafts
    BY <1>1 DEF WorkFields
  <2>2. work' = Onward(w) \/ work' = Onward(work)
    BY DEF UpsertMemory
  <2> HIDE DEF w
  <2> QED BY <1>1, <2>1, <2>2, OnwardIsFresh
<1>3. MemoriesFresh'
  <2>1. ASSUME memories' = memories PROVE MemoriesFresh'
    BY <2>1 DEF FreshInv, MemoriesFresh, PeriodOK, SteadyDates
  <2>2. ASSUME memories' = WithMemory(work.key, row) PROVE MemoriesFresh'
    <3>1. row.start = work.made.start /\ row.end = work.made.end /\ PhotosOf(row) = PhotosOf(work.made)
      BY DEF Written, PhotosOf
    <3> HIDE DEF row
    <3>2. ~moved => PeriodOK(row)
      BY <1>1, <3>1 DEF PeriodOK
    <3>3. \A k \in DOMAIN memories' : memories'[k] = row \/ (k \in DOMAIN memories /\ memories'[k] = memories[k])
      BY <2>2 DEF WithMemory
    <3> QED BY <3>2, <3>3 DEF FreshInv, MemoriesFresh, PeriodOK, SteadyDates
  <2> QED BY <2>1, <2>2 DEF UpsertMemory
<1> QED BY <1>2, <1>3 DEF FreshInv, SteadyDates

(* Whatever rescoring and users do, periods and photos stay. *)
SamePeriods ==
    /\ DOMAIN memories' \subseteq DOMAIN memories
    /\ \A k \in DOMAIN memories' : LET m == memories[k]  n == memories'[k] IN
          n.start = m.start /\ n.end = m.end /\ PhotosOf(n) \subseteq PhotosOf(m)

LEMMA SamePeriodsAreFresh ==
    ASSUME FreshInv, UNCHANGED taken, moved' = moved, SamePeriods PROVE MemoriesFresh'
<1>1. ASSUME NEW k \in DOMAIN memories', ~moved PROVE PeriodOK(memories[k])'
  <2> DEFINE m == memories[k]
             n == memories'[k]
  <2>1. n.start = m.start /\ n.end = m.end /\ PhotosOf(n) \subseteq PhotosOf(m) /\ PeriodOK(m)
    BY <1>1 DEF SamePeriods, FreshInv, MemoriesFresh
  <2> HIDE DEF m, n
  <2>2. n.start # None => \A p \in PhotosOf(n) : taken'[p] # None /\ taken'[p] \in n.start .. n.end
    BY <2>1 DEF PeriodOK
  <2> QED BY <2>2 DEF n, PeriodOK, PhotosOf
<1> QED BY <1>1 DEF MemoriesFresh

LEMMA FreshRescoring ==
    ASSUME MemoriesInv, FreshInv, Steady, SteadyDates,
           BeginRescore \/ (\E k \in work.todo : ReadScores(k)) \/ WriteScores
    PROVE  FreshInv'
<1>1. work'.kind # "curate"
  <2>1. CASE BeginRescore
    BY <2>1 DEF BeginRescore, Resting
  <2>2. ASSUME NEW w, w.kind = "rescore", DOMAIN w = WorkFields PROVE RescoreNext(w).kind # "curate"
    BY <2>2 DEF RescoreNext, Resting, WorkFields
  <2>3. ASSUME NEW k, ReadScores(k) PROVE work'.kind # "curate"
    <3> DEFINE rest == [work EXCEPT !.todo = @ \ {k}, !.key = k]
    <3>1. \/ work' = RescoreNext(rest)
          \/ \E made : work' = [rest EXCEPT !.stage = "write", !.made = made]
      BY <2>3 DEF ReadScores
    <3>2. rest.kind = "rescore" /\ DOMAIN rest = WorkFields
      BY <2>3 DEF ReadScores, MemoriesInv, WorkOK, WorkFields
    <3> HIDE DEF rest
    <3> QED BY <2>2, <3>1, <3>2 DEF WorkFields
  <2>4. CASE WriteScores
    BY <2>2, <2>4 DEF WriteScores, MemoriesInv, WorkOK
  <2> QED BY <2>1, <2>3, <2>4
<1>2. SamePeriods
  <2>1. ASSUME memories' = memories PROVE SamePeriods
    BY <2>1 DEF SamePeriods
  <2>2. ASSUME work.key \in DOMAIN memories, memories' = [memories EXCEPT ![work.key] = Rescored(@, work.made)] PROVE SamePeriods
    <3> DEFINE m == memories[work.key]
               row == Rescored(m, work.made)
    <3>1. Shows(m)
      BY <2>2 DEF MemoriesInv, MemoriesOK
    <3>2. row.start = m.start /\ row.end = m.end /\ PhotosOf(row) = PhotosOf(m)
      BY <3>1 DEF Rescored, Shows, Columns, PhotosOf
    <3>3. memories'[work.key] = row /\ DOMAIN memories' = DOMAIN memories
          /\ \A k \in DOMAIN memories : k # work.key => memories'[k] = memories[k]
      BY <2>2
    <3> HIDE DEF row, m
    <3> QED BY <3>2, <3>3 DEF SamePeriods, m
  <2> QED BY <2>1, <2>2 DEF BeginRescore, ReadScores, WriteScores
<1>3. MemoriesFresh'
  BY <1>2, SamePeriodsAreFresh DEF SteadyDates
<1> QED BY <1>1, <1>3 DEF FreshInv, WorkFresh, SteadyDates

LEMMA FreshMarks ==
    ASSUME MemoriesInv, FreshInv, SteadyDates, NEW k, NEW viewed, NEW dismissed, Marks(k, viewed, dismissed)
    PROVE FreshInv'
<1> DEFINE With1(m) == [m EXCEPT !.viewed = viewed, !.dismissed = dismissed]
<1>1. /\ DOMAIN memories' = DOMAIN memories
      /\ \A l \in DOMAIN memories : memories'[l] = memories[l] \/ memories'[l] = With1(memories[l])
  BY DEF Marks
<1>2. ASSUME NEW m, Shows(m) PROVE With1(m).start = m.start /\ With1(m).end = m.end /\ PhotosOf(With1(m)) = PhotosOf(m)
  BY <1>2 DEF Shows, Columns, PhotosOf
<1> HIDE DEF With1
<1>3. SamePeriods
  BY <1>1, <1>2 DEF MemoriesInv, MemoriesOK, SamePeriods
<1> QED BY <1>3, SamePeriodsAreFresh, StillDated DEF Marks, SteadyDates, FreshInv

LEMMA FreshDelete == ASSUME FreshInv, SteadyDates, NEW k, DeleteMemory(k) PROVE FreshInv'
<1>1. SamePeriods
  BY DEF DeleteMemory, SamePeriods
<1> QED BY <1>1, SamePeriodsAreFresh, StillDated DEF DeleteMemory, SteadyDates, FreshInv

LEMMA FreshCascade == ASSUME MemoriesInv, FreshInv, NEW p, PhotoGoes(p) PROVE FreshInv'
<1>1. /\ UNCHANGED <<taken, today, moved, work>> /\ DOMAIN memories' = DOMAIN memories
      /\ \A k \in DOMAIN memories : memories'[k] =
          [memories[k] EXCEPT !.photos = Those(@, Range(@) \ {p}),
                              !.scores = [q \in DOMAIN @ \ {p} |-> @[q]],
                              !.cover = IF @ = p THEN None ELSE @]
  BY DEF PhotoGoes, DeletePhoto, CascadeToMemories
<1>2. ASSUME NEW k \in DOMAIN memories
      PROVE  LET m == memories[k]  n == memories'[k] IN n.start = m.start /\ n.end = m.end /\ PhotosOf(n) \subseteq PhotosOf(m)
  <2> DEFINE m == memories[k]
             n == memories'[k]
  <2>1. DOMAIN m = Columns
    BY DEF MemoriesInv, MemoriesOK, Shows
  <2>2. n = [m EXCEPT !.photos = Those(@, Range(@) \ {p}),
                      !.scores = [q \in DOMAIN @ \ {p} |-> @[q]],
                      !.cover = IF @ = p THEN None ELSE @]
    BY <1>1
  <2> HIDE DEF m, n
  <2>3. n.start = m.start /\ n.end = m.end /\ PhotosOf(n) \subseteq PhotosOf(m)
    BY <2>1, <2>2 DEF Columns, PhotosOf
  <2> QED BY <2>3 DEF m, n
<1>3. SamePeriods
  BY <1>1, <1>2 DEF SamePeriods
<1> QED BY <1>1, <1>3, SamePeriodsAreFresh, StillDated DEF SteadyDates, FreshInv

LEMMA FreshOtherwise == ASSUME FreshInv, SteadyDates, UNCHANGED <<memories, work>> PROVE FreshInv'
BY StillDated DEF FreshInv, MemoriesFresh, PeriodOK, SteadyDates

LEMMA FreshInvariant == ASSUME MemoriesInv, FreshInv, [Next]_galleryVars PROVE FreshInv'
<1>1. ASSUME NEW p \in Photos, PhotoGoes(p) PROVE FreshInv'
  BY <1>1, FreshCascade
<1>2. ASSUME NEW p \in Photos, CorrectDate(p), NoteMove PROVE FreshInv'
  BY <1>2 DEF CorrectDate, NoteMove, FreshInv, MemoriesFresh, WorkFresh
<1>3. CASE Tomorrow /\ UNCHANGED memoryVars
  BY <1>3 DEF Tomorrow, memoryVars, FreshInv, MemoriesFresh, WorkFresh, DraftsOK, PeriodOK, PhotosOf
<1>4. CASE MemoriesStep
  <2>1. Steady /\ UNCHANGED <<alive, taken, today>>
    BY <1>4 DEF MemoriesStep, Steady, libraryVars, LibraryStill
  <2>2. CASE SubmitCuration \/ \E c \in owed : SubmitRescore(c)
    BY <2>1, <2>2, FreshOtherwise DEF SubmitCuration, SubmitRescore, SteadyDates
  <2>3. CASE BeginCuration
    BY <2>1, <2>3, FreshBegin
  <2>4. CASE Plan \/ Build \/ UpsertMemory
    <3>1. SteadyDates
      BY <2>1, <2>4 DEF Plan, Build, UpsertMemory, SteadyDates
    <3> QED BY <2>1, <2>4, <3>1, FreshPlan, FreshBuild, FreshUpsert
  <2>5. CASE BeginRescore \/ (\E k \in work.todo : ReadScores(k)) \/ WriteScores
    <3>1. SteadyDates
      BY <2>1, <2>5 DEF BeginRescore, ReadScores, WriteScores, SteadyDates
    <3> QED BY <2>1, <2>5, <3>1, FreshRescoring
  <2>6. CASE OpenTodays \/ \E k \in DOMAIN memories : Dismiss(k) \/ DeleteMemory(k)
    <3>1. ASSUME NEW k, NEW viewed, NEW dismissed, Marks(k, viewed, dismissed) PROVE FreshInv'
      <4>1. SteadyDates
        BY <2>1, <3>1 DEF Marks, SteadyDates
      <4> QED BY <3>1, <4>1, FreshMarks
    <3>2. ASSUME NEW k, DeleteMemory(k) PROVE FreshInv'
      <4>1. SteadyDates
        BY <2>1, <3>2 DEF DeleteMemory, SteadyDates
      <4> QED BY <3>2, <4>1, FreshDelete
    <3> QED BY <2>6, <3>1, <3>2 DEF OpenTodays, Dismiss
  <2> QED BY <1>4, <2>2, <2>3, <2>4, <2>5, <2>6 DEF MemoriesStep, WorkerStep
<1>5. ASSUME UNCHANGED <<memories, work, moved, taken, today>> PROVE FreshInv'
  BY <1>5, FreshOtherwise DEF SteadyDates
<1>6. CASE PeopleStep
  BY <1>5, <1>6 DEF PeopleStep, memoryVars, libraryVars, LibraryStill
<1>7. CASE RenamePerson
  BY <1>5, <1>7 DEF RenamePerson, memoryVars, NoteRename, LibraryStill
<1>8. CASE AlbumsStep
  BY <1>5, <1>8 DEF AlbumsStep, memoryVars, libraryVars, LibraryStill
<1>9. CASE UNCHANGED galleryVars
  BY <1>5, <1>9 DEF galleryVars, libraryVars, memoryVars
<1>10. CASE ScanAndClock
  BY <1>1, <1>2, <1>3, <1>10 DEF ScanAndClock
<1> QED BY <1>4, <1>6, <1>7, <1>8, <1>9, <1>10 DEF Next

LEMMA FreshStart == Init => FreshInv
<1> SUFFICES ASSUME Init PROVE FreshInv
  OBVIOUS
<1>1. scope \in Scopes /\ taken = TakenAt /\ memories = InitialMemories[scope] /\ work = Resting /\ today = FirstDay
  BY DEF Init, LibraryInit, MemoriesInit
<1>2. WorkFresh
  BY <1>1 DEF WorkFresh, Resting
<1>3. MemoriesFresh
  BY <1>1, MemoriesAssumption DEF MemoriesFresh, PeriodOK
<1> QED BY <1>1, <1>2, <1>3, PhotosAssumption DEF FreshInv

THEOREM NothingIsStale == Spec => []NothingStale
<1>1. FreshInv => NothingStale
  BY DEF FreshInv, MemoriesFresh, PeriodOK, NothingStale
<1>2. Init => MemoriesInv /\ FreshInv
  BY MemoriesStart, FreshStart
<1>3. MemoriesInv /\ FreshInv /\ [Next]_galleryVars => (MemoriesInv /\ FreshInv)'
  BY MemoriesInvariant, FreshInvariant
<1> QED BY <1>1, <1>2, <1>3, PTL DEF Spec

---------------------------------------------------------------------------
(* Names reach scores.                                                     *)

(* The photos of a person, and who has been renamed without a rescoring.   *)
Theirs(c) == {ImageOf[f] : f \in FacesOf(c)}
Owes(c) == c \in owed \/ \E i \in DOMAIN queue : queue[i].kind = "rescore" /\ queue[i].cluster = c
Awaited(p) == \E c \in Clusters : p \in Theirs(c) /\ Owes(c)

(* A score is what the names give now, or a rescoring is to come.          *)
Settled(p, x) == x \in {Score(p, Home), Penalized(Score(p, Home))} \/ Awaited(p)

(* The worker is still to write the scores of k in this rescoring. *)
Rescores(k) == work.kind = "rescore" /\ (k \in work.todo \/ (work.stage = "write" /\ k = work.key))

Jobs == [kind : {"curate", "rescore"}, cluster : Clusters \cup {None}]

Scored(m) == \A p \in PhotosOf(m) : Settled(p, m.scores[p])

(* Every stored score is settled or about to be written, and what is about *)
(* to be written is settled.                                               *)
AllScored ==
    /\ work.kind # "rest" => work.home = Home
    /\ \A k \in DOMAIN memories : Scored(memories[k]) \/ Rescores(k)
    /\ Writes("curate") \/ Writes("rescore") => Scored(work.made)
    /\ Writes("rescore") /\ work.key \in DOMAIN memories => PhotosOf(work.made) = PhotosOf(memories[work.key])

(* Beside memories only photos, names and dates change: no photo joins an  *)
(* album and no pass moves a face, which no rescoring follows.             *)
OnlyNames == About("memories") => ~About("people") /\ ~About("albums")

ScoredInv ==
    /\ queue \in Seq(Jobs) /\ owed \subseteq Clusters
    /\ OnlyNames
    /\ About("memories") /\ alive = Photos => AllScored

(* What a score depends on, but for the names. *)
SameData == UNCHANGED <<alive, face, albums>>

LEMMA HomeStays == ASSUME UNCHANGED alive PROVE Home' = Home
BY DEF Home, HomeAmong, GpsHistogram, CellCentre, Located, Cell

LEMMA NamedStay ==
    ASSUME UNCHANGED face, NEW p, \A f \in HasRow : ImageOf[f] = p => NamesNow'[f] = NamesNow[f]
    PROVE  NamedPeopleOn(p)' = NamedPeopleOn(p)
<1>1. HasRow' = HasRow
  BY DEF HasRow
<1>2. \A g \in HasRow : (ImageOf[g] = p /\ NamesNow'[g] # None) <=> (ImageOf[g] = p /\ NamesNow[g] # None)
  OBVIOUS
<1> QED BY <1>1, <1>2 DEF NamedPeopleOn

LEMMA NamesStayed == ASSUME UNCHANGED <<face, cluster>> PROVE NamesNow' = NamesNow
BY DEF NamesNow, HasRow

(* What is settled stays so for a photo on which nobody is renamed and no  *)
(* rescoring is withdrawn.                                                 *)
LEMMA SettledStays ==
    ASSUME SameData, NEW p, \A f \in HasRow : ImageOf[f] = p => NamesNow'[f] = NamesNow[f],
           \A c \in Clusters : p \in Theirs(c) /\ Owes(c) => Owes(c)', NEW x, Settled(p, x)
    PROVE  Settled(p, x)'
<1>1. Home' = Home
  BY HomeStays DEF SameData
<1>2. Score(p, Home)' = Score(p, Home)
  <2> DEFINE h == Home
  <2>1. h' = h
    BY <1>1
  <2> HIDE DEF h
  <2>2. Signals(p, h)' = Signals(p, h)
    <3>1. NamedPeopleOn(p)' = NamedPeopleOn(p)
      BY NamedStay DEF SameData
    <3> QED BY <2>1, <3>1 DEF Signals, SameData, InAnAlbum, HasRow
  <2>3. Score(p, h)' = Score(p, h)
    BY <2>2 DEF Score, Composite
  <2> QED BY <2>3 DEF h
<1>3. Awaited(p) => Awaited(p)'
  BY DEF Awaited, Theirs, FacesOf, SameData
<1> QED BY <1>2, <1>3 DEF Settled, Penalized

(* All that AllScored depends on besides what the worker does. *)
Same == SameData /\ UNCHANGED cluster /\ \A c \in Clusters : Owes(c) => Owes(c)'

LEMMA ScoredStays == ASSUME Same, NEW m, Scored(m) PROVE Scored(m)'
<1>1. ASSUME NEW p \in PhotosOf(m) PROVE Settled(p, m.scores[p])'
  <2> DEFINE x == m.scores[p]
  <2>1. Settled(p, x)
    BY DEF Scored
  <2> HIDE DEF x
  <2>2. Settled(p, x)'
    <3>1. NamesNow' = NamesNow
      BY NamesStayed DEF Same, SameData
    <3> QED BY <2>1, <3>1, SettledStays DEF Same
  <2> QED BY <2>2 DEF x
<1> QED BY <1>1 DEF Scored, PhotosOf

(* What the worker is about to write, and what it will not touch, stays    *)
(* settled.                                                                *)
LEMMA StoredStay ==
    ASSUME Same, NEW k \in DOMAIN memories, Scored(memories[k]), NEW l, l \in DOMAIN memories',
           memories'[l].scores = memories[k].scores
    PROVE  Scored(memories[l])'
<1>1. PICK m : m = memories[k]
  OBVIOUS
<1>2. Scored(m)'
  BY <1>1, ScoredStays
<1> QED BY <1>1, <1>2 DEF Scored, PhotosOf

LEMMA MadeStays ==
    ASSUME Same, Scored(work.made), work'.made = work.made PROVE Scored(work.made)'
<1>1. PICK m : m = work.made
  OBVIOUS
<1>2. Scored(m)'
  BY <1>1, ScoredStays
<1> QED BY <1>1, <1>2 DEF Scored, PhotosOf

(* What only users do leaves the scores; memories may go. *)
LEMMA ScoredOtherwise ==
    ASSUME Same, AllScored, UNCHANGED work, DOMAIN memories' \subseteq DOMAIN memories,
           \A k \in DOMAIN memories' : memories'[k].scores = memories[k].scores
    PROVE  AllScored'
<1>1. Home' = Home
  BY HomeStays DEF Same, SameData
<1>2. ASSUME NEW k \in DOMAIN memories' PROVE Scored(memories[k])' \/ Rescores(k)'
  <2>1. Scored(memories[k]) \/ Rescores(k)
    BY DEF AllScored
  <2>2. Rescores(k) => Rescores(k)'
    BY DEF Rescores
  <2>3. Scored(memories[k]) => Scored(memories[k])'
    BY StoredStay
  <2> QED BY <2>1, <2>2, <2>3
<1>3. Writes("curate")' \/ Writes("rescore")' => Scored(work.made)'
  BY MadeStays DEF AllScored, Writes
<1>4. Writes("rescore")' /\ work'.key \in DOMAIN memories' => PhotosOf(work.made)' = PhotosOf(memories[work.key])'
  BY DEF AllScored, Writes, PhotosOf
<1> QED BY <1>1, <1>2, <1>3, <1>4 DEF AllScored

(* While the worker curates, or rests, every stored score is settled.      *)
LEMMA ScoredWhileCurating ==
    ASSUME Same, AllScored, work.kind # "rescore", NEW k \in DOMAIN memories', k \in DOMAIN memories,
           memories'[k] = memories[k]
    PROVE  Scored(memories[k])'
BY StoredStay DEF AllScored, Rescores

LEMMA OnwardKeepsHome ==
    ASSUME NEW w, DOMAIN w = WorkFields, w.kind = "curate"
    PROVE  /\ Onward(w).kind \in {"rest", "curate"} /\ Onward(w).stage # "write"
           /\ Onward(w).kind # "rest" => Onward(w).home = w.home
<1>1. CASE Onward(w) = Resting
  BY <1>1 DEF Resting
<1>2. CASE Onward(w) = [w EXCEPT !.stage = "build", !.made = None]
  BY <1>2 DEF WorkFields
<1>3. CASE Onward(w) = [w EXCEPT !.stage = "plan", !.trigger = @ + 1, !.made = None]
  BY <1>3 DEF WorkFields
<1> QED BY <1>1, <1>2, <1>3 DEF Onward

(* A pass between two writes. *)
LEMMA ScoredByPass ==
    ASSUME Same, AllScored, work.kind # "rescore", DOMAIN memories' \subseteq DOMAIN memories,
           \A k \in DOMAIN memories' : memories'[k] = memories[k],
           work'.kind \in {"rest", "curate"}, work'.kind # "rest" => work'.home = Home,
           Writes("curate")' => Scored(work.made)'
    PROVE  AllScored'
<1>1. Home' = Home
  BY HomeStays DEF Same, SameData
<1>2. \A k \in DOMAIN memories' : Scored(memories[k])'
  BY ScoredWhileCurating
<1> QED BY <1>1, <1>2 DEF AllScored, Writes

LEMMA ScoredByBegin ==
    ASSUME MemoriesInv, Same, AllScored, BeginCuration PROVE AllScored'
<1>1. work.kind # "rescore" /\ work'.kind = "curate" /\ work'.home = Home /\ work'.stage = "plan"
  BY DEF BeginCuration, Takes, Resting
<1>2. DOMAIN memories' \subseteq DOMAIN memories /\ \A k \in DOMAIN memories' : memories'[k] = memories[k]
  BY DEF BeginCuration
<1> QED BY <1>1, <1>2, ScoredByPass DEF Writes

LEMMA ScoredByPlan ==
    ASSUME MemoriesInv, Same, AllScored, Plan PROVE AllScored'
<1> DEFINE w == [work EXCEPT !.drafts = DraftsFor(Triggers[work.trigger], work.day, work.baseline),
                             !.recents = RecentlyUsed(work.day)]
<1>1. DOMAIN w = WorkFields /\ w.home = Home /\ w.kind = "curate" /\ work.kind = "curate"
  BY DEF MemoriesInv, WorkOK, WorkFields, Plan, AllScored
<1>2. work' = Onward(w) /\ memories' = memories
  BY DEF Plan
<1> HIDE DEF w
<1>3. work'.kind \in {"rest", "curate"} /\ work'.stage # "write" /\ (work'.kind # "rest" => work'.home = Home)
  BY <1>1, <1>2, OnwardKeepsHome
<1> QED BY <1>1, <1>2, <1>3, ScoredByPass DEF Writes

LEMMA ScoredByBuild ==
    ASSUME MemoriesInv, Same, AllScored, Build PROVE AllScored'
<1> DEFINE draft == Head(work.drafts)
           made == Built(draft, work.recents, work.home)
           rest == [work EXCEPT !.drafts = Tail(@), !.key = draft.key, !.made = made, !.own = Own(draft.key)]
<1>1. DOMAIN rest = WorkFields /\ rest.home = Home /\ rest.made = made /\ rest.kind = "curate" /\ work.kind = "curate"
  BY DEF MemoriesInv, WorkOK, WorkFields, Build, AllScored
<1>2. memories' = memories /\ work' = IF made = None THEN Onward(rest) ELSE [rest EXCEPT !.stage = "write"]
  BY DEF Build
<1>3. made # None => Scored(made)
  <2> SUFFICES ASSUME made # None PROVE Scored(made)
    OBVIOUS
  <2> DEFINE rows == Candidates(draft, work.recents) \cap alive
             score == Scores(draft, work.recents, work.home, rows)
  <2>1. PICK chosen : chosen # {} /\ chosen \subseteq rows /\ made = MemoryOf(draft, score, chosen)
    BY BuiltIsOK DEF MemoriesInv, WorkOK
  <2>2. work.home = Home
    BY DEF AllScored, Build
  <2>3. \A p \in rows : score[p] \in {Score(p, Home), Penalized(Score(p, Home))}
    BY <2>2 DEF Scores
  <2>4. made.scores = Restrict(score, chosen)
    BY <2>1, MemoryIs
  <2> HIDE DEF rows, score, made
  <2>5. DOMAIN made.scores = chosen /\ \A p \in chosen : made.scores[p] = score[p]
    BY <2>4 DEF Restrict
  <2> QED BY <2>1, <2>3, <2>5 DEF Scored, Settled, PhotosOf
<1> HIDE DEF rest, made
<1>4. ASSUME made = None PROVE AllScored'
  <2>1. work'.kind \in {"rest", "curate"} /\ work'.stage # "write" /\ (work'.kind # "rest" => work'.home = Home)
    BY <1>1, <1>2, <1>4, OnwardKeepsHome
  <2> QED BY <1>1, <1>2, <2>1, ScoredByPass DEF Writes
<1>5. ASSUME made # None PROVE AllScored'
  <2>1. work'.kind = "curate" /\ work'.home = Home /\ work'.made = made
    BY <1>1, <1>2, <1>5 DEF WorkFields
  <2>2. PICK m : m = made
    OBVIOUS
  <2>3. Scored(m)'
    BY <1>3, <1>5, <2>2, ScoredStays
  <2>4. Scored(work.made)'
    BY <2>1, <2>2, <2>3 DEF Scored, PhotosOf
  <2> QED BY <1>1, <1>2, <2>1, <2>4, ScoredByPass
<1> QED BY <1>4, <1>5

LEMMA ScoredByUpsert ==
    ASSUME MemoriesInv, Same, AllScored, UpsertMemory PROVE AllScored'
<1> DEFINE old == IF work.key \in DOMAIN memories THEN memories[work.key]
                  ELSE [viewed |-> FALSE, dismissed |-> FALSE]
           row == Written(work.made, old)
           w == [work EXCEPT !.claimed = @ \cup {<<work.trigger, work.key>>}]
<1>1. work.kind = "curate" /\ work.home = Home /\ DOMAIN work = WorkFields /\ Scored(work.made)
  BY DEF MemoriesInv, WorkOK, UpsertMemory, AllScored, Writes
<1>2. work'.kind \in {"rest", "curate"} /\ work'.stage # "write" /\ (work'.kind # "rest" => work'.home = Home)
  <2>1. DOMAIN w = WorkFields /\ w.home = work.home /\ w.kind = "curate"
    BY <1>1 DEF WorkFields
  <2>2. work' = Onward(w) \/ work' = Onward(work)
    BY DEF UpsertMemory
  <2> HIDE DEF w
  <2> QED BY <1>1, <2>1, <2>2, OnwardKeepsHome
<1>3. Home' = Home
  BY HomeStays DEF Same, SameData
<1>4. ASSUME memories' = memories PROVE AllScored'
  BY <1>1, <1>2, <1>4, ScoredByPass DEF Writes
<1>5. ASSUME memories' = WithMemory(work.key, row) PROVE AllScored'
  <2>1. PICK m : m = work.made
    OBVIOUS
  <2>2. Scored(m)'
    BY <1>1, <2>1, ScoredStays
  <2>3. row.scores = m.scores
    BY <2>1 DEF Written
  <2> HIDE DEF row
  <2>4. \A k \in DOMAIN memories' : memories'[k] = row \/ (k \in DOMAIN memories /\ memories'[k] = memories[k])
    BY <1>5 DEF WithMemory
  <2>5. ASSUME NEW k \in DOMAIN memories' PROVE Scored(memories[k])'
    <3>1. CASE memories'[k] = row
      BY <2>2, <2>3, <3>1 DEF Scored, PhotosOf
    <3>2. CASE k \in DOMAIN memories /\ memories'[k] = memories[k]
      BY <1>1, <3>2, ScoredWhileCurating
    <3> QED BY <2>4, <3>1, <3>2
  <2> QED BY <1>2, <1>3, <2>5 DEF AllScored, Writes
<1> QED BY <1>4, <1>5 DEF UpsertMemory

---------------------------------------------------------------------------
(* Rescoring. *)

LEMMA TailOwes ==
    ASSUME queue \in Seq(Jobs), queue # <<>>, queue' = Tail(queue), owed' = owed, NEW c, Owes(c),
           ~(Head(queue).kind = "rescore" /\ Head(queue).cluster = c)
    PROVE  Owes(c)'
<1>1. CASE c \in owed
  BY <1>1 DEF Owes
<1>2. CASE \E i \in DOMAIN queue : queue[i].kind = "rescore" /\ queue[i].cluster = c
  <2>1. PICK i \in DOMAIN queue : queue[i].kind = "rescore" /\ queue[i].cluster = c
    BY <1>2
  <2> DEFINE J == Jobs
  <2>2. queue \in Seq(J)
    OBVIOUS
  <2> HIDE DEF J
  <2>3. Head(queue) = queue[1] /\ i \in 1..Len(queue) /\ Len(queue) \in Nat
    BY <2>2
  <2>4. i - 1 \in 1..(Len(queue) - 1)
    BY <2>1, <2>3
  <2>5. Len(Tail(queue)) = Len(queue) - 1 /\ Tail(queue) \in Seq(J)
    BY <2>2
  <2>6. i - 1 \in DOMAIN Tail(queue)
    BY <2>4, <2>5
  <2>7. Tail(queue)[i - 1] = queue[i]
    BY <2>2, <2>3, <2>4
  <2> QED BY <2>1, <2>6, <2>7 DEF Owes
<1> QED BY <1>1, <1>2 DEF Owes

LEMMA ScoredByBeginRescore ==
    ASSUME MemoriesInv, queue \in Seq(Jobs), SameData, UNCHANGED cluster, AllScored, BeginRescore PROVE AllScored'
<1> DEFINE c0 == Head(queue).cluster
           todo == {k \in DOMAIN memories : PhotosOf(memories[k]) \cap Theirs(c0) # {}}
<1>1. /\ work.kind = "rest" /\ memories' = memories /\ owed' = owed /\ queue' = Tail(queue) /\ queue # <<>>
      /\ work' = IF todo = {} THEN Resting
                 ELSE [Resting EXCEPT !.kind = "rescore", !.stage = "read", !.todo = todo, !.home = Home]
  BY DEF BeginRescore, Takes, Theirs
<1> HIDE DEF todo
<1>2. /\ \A k \in todo : Rescores(k)'
      /\ ~Writes("rescore")' /\ ~Writes("curate")' /\ (work'.kind # "rest" => work'.home = Home)
  BY <1>1 DEF Resting, Rescores, Writes
<1>3. ASSUME NEW k \in DOMAIN memories, k \notin todo PROVE Scored(memories[k])'
  <2>1. PICK m : m = memories[k]
    OBVIOUS
  <2>2. Scored(m) /\ PhotosOf(m) \cap Theirs(c0) = {}
    BY <1>1, <1>3, <2>1 DEF AllScored, Rescores, todo
  <2>3. ASSUME NEW p \in PhotosOf(m) PROVE Settled(p, m.scores[p])'
    <3>1. PICK x : x = m.scores[p] /\ Settled(p, x)
      BY <2>2 DEF Scored
    <3>2. \A c \in Clusters : p \in Theirs(c) /\ Owes(c) => Owes(c)'
      <4> TAKE c \in Clusters
      <4>1. p \in Theirs(c) => c # c0
        BY <2>2
      <4> HIDE DEF c0
      <4>2. c # c0 /\ Owes(c) => Owes(c)'
        BY <1>1, TailOwes DEF c0
      <4> QED BY <4>1, <4>2
    <3>3. NamesNow' = NamesNow
      BY NamesStayed DEF SameData
    <3>4. Settled(p, x)'
      BY <3>1, <3>2, <3>3, SettledStays
    <3> QED BY <3>1, <3>4
  <2>4. Scored(m)'
    BY <2>3 DEF Scored, PhotosOf
  <2> QED BY <1>1, <2>1, <2>4 DEF Scored, PhotosOf
<1>4. Home' = Home
  BY HomeStays DEF SameData
<1> QED BY <1>1, <1>2, <1>3, <1>4 DEF AllScored

LEMMA RescoreNextIs ==
    ASSUME NEW w, DOMAIN w = WorkFields, w.kind = "rescore"
    PROVE  LET n == RescoreNext(w) IN
           /\ n.stage # "write" /\ (n.kind # "rest" => n.home = w.home)
           /\ w.todo # {} => n.kind = "rescore" /\ n.todo = w.todo
<1>1. CASE w.todo = {} /\ RescoreNext(w) = Resting
  BY <1>1 DEF Resting
<1>2. CASE w.todo # {} /\ RescoreNext(w) = [w EXCEPT !.stage = "read", !.made = None]
  BY <1>2 DEF WorkFields
<1> QED BY <1>1, <1>2 DEF RescoreNext

LEMMA ScoredByReading ==
    ASSUME MemoriesInv, Same, AllScored, NEW k, ReadScores(k) PROVE AllScored'
<1> DEFINE photos == IF k \in DOMAIN memories THEN PhotosOf(memories[k]) ELSE {}
           score == [p \in photos |-> Score(p, work.home)]
           made == [scores |-> score, score |-> MemoryScore(photos, score),
                    cover |-> InOrder(photos, LAMBDA p, q : score[p] > score[q])[1]]
           rest == [work EXCEPT !.todo = @ \ {k}, !.key = k]
<1>1. /\ DOMAIN rest = WorkFields /\ rest.home = Home /\ rest.kind = "rescore" /\ rest.key = k
      /\ rest.todo = work.todo \ {k} /\ work.kind = "rescore" /\ work.stage = "read" /\ work.home = Home
  BY DEF MemoriesInv, WorkOK, WorkFields, ReadScores, AllScored
<1>2. memories' = memories /\ work' = IF photos = {} THEN RescoreNext(rest) ELSE [rest EXCEPT !.stage = "write", !.made = made]
  BY DEF ReadScores
<1>3. made.scores = score
  OBVIOUS
<1>4. Home' = Home
  BY HomeStays DEF Same, SameData
<1>5. ASSUME NEW l \in DOMAIN memories PROVE Scored(memories[l])' \/ l \in work.todo
  <2>1. Scored(memories[l]) \/ l \in work.todo
    BY <1>1 DEF AllScored, Rescores
  <2>2. Scored(memories[l]) => Scored(memories[l])'
    BY <1>2, StoredStay
  <2> QED BY <2>1, <2>2
<1>6. Scored(made)
  <2> HIDE DEF photos, made
  <2> QED BY <1>1, <1>3 DEF Scored, Settled, PhotosOf
<1> HIDE DEF rest, made, score
<1>7. CASE photos = {}
  <2>1. /\ work'.stage # "write" /\ (work'.kind # "rest" => work'.home = Home)
        /\ rest.todo # {} => work'.kind = "rescore" /\ work'.todo = rest.todo
    <3> HIDE DEF photos
    <3> QED BY <1>1, <1>2, <1>7, RescoreNextIs
  <2>2. ASSUME NEW l \in DOMAIN memories PROVE Scored(memories[l])' \/ Rescores(l)'
    <3>1. CASE l = k
      <4>1. PhotosOf(memories[l])' = {}
        BY <1>2, <1>7, <3>1 DEF PhotosOf
      <4> QED BY <4>1 DEF Scored
    <3>2. CASE l # k
      BY <1>1, <1>5, <2>1, <3>2 DEF Rescores
    <3> QED BY <3>1, <3>2
  <2> QED BY <1>2, <1>4, <2>1, <2>2 DEF AllScored, Writes
<1>8. ASSUME photos # {} PROVE AllScored'
  <2>1. /\ work'.kind = "rescore" /\ work'.home = Home /\ work'.stage = "write" /\ work'.key = k
        /\ work'.made = made /\ work'.todo = work.todo \ {k}
    <3> HIDE DEF photos
    <3> QED BY <1>1, <1>2, <1>8 DEF WorkFields
  <2>2. \A l \in DOMAIN memories : Scored(memories[l])' \/ Rescores(l)'
    BY <1>5, <2>1 DEF Rescores
  <2>3. Scored(work.made)'
    <3>1. PICK m : m = made
      OBVIOUS
    <3>2. Scored(m)'
      BY <1>6, <3>1, ScoredStays
    <3> QED BY <2>1, <3>1, <3>2 DEF Scored, PhotosOf
  <2>4. work'.key \in DOMAIN memories' => PhotosOf(work.made)' = PhotosOf(memories[work.key])'
    <3>1. DOMAIN made.scores = photos
      BY <1>3 DEF score
    <3> QED BY <1>2, <2>1, <3>1 DEF PhotosOf
  <2> QED BY <1>2, <1>4, <2>1, <2>2, <2>3, <2>4 DEF AllScored, Writes
<1> QED BY <1>7, <1>8

LEMMA ScoredByWriting ==
    ASSUME MemoriesInv, Same, AllScored, alive = Photos, WriteScores PROVE AllScored'
<1>1. /\ work.kind = "rescore" /\ work.stage = "write" /\ work.home = Home /\ DOMAIN work = WorkFields
      /\ Scored(work.made) /\ work.made.cover \in alive /\ work' = RescoreNext(work)
  BY DEF MemoriesInv, WorkOK, Writes, CoverFits, WriteScores, AllScored
<1>2. /\ work'.stage # "write" /\ (work'.kind # "rest" => work'.home = Home)
      /\ work.todo # {} => work'.kind = "rescore" /\ work'.todo = work.todo
  BY <1>1, RescoreNextIs
<1>3. Home' = Home
  BY HomeStays DEF Same, SameData
<1>4. /\ DOMAIN memories' = DOMAIN memories
      /\ \A l \in DOMAIN memories : l # work.key => memories'[l] = memories[l]
      /\ work.key \in DOMAIN memories => memories'[work.key] = Rescored(memories[work.key], work.made)
  BY <1>1 DEF WriteScores
<1>5. ASSUME NEW l \in DOMAIN memories, l # work.key PROVE Scored(memories[l])' \/ Rescores(l)'
  <2>1. Scored(memories[l]) \/ l \in work.todo
    BY <1>1, <1>5 DEF AllScored, Rescores
  <2>2. Scored(memories[l]) => Scored(memories[l])'
    BY <1>4, <1>5, StoredStay
  <2>3. l \in work.todo => Rescores(l)'
    BY <1>2 DEF Rescores
  <2> QED BY <2>1, <2>2, <2>3
<1>6. ASSUME NEW k \in DOMAIN memories, k = work.key PROVE Scored(memories[k])'
  <2>1. PICK m, n : m = work.made /\ n = memories[k]
    OBVIOUS
  <2>2. Scored(m)'
    BY <1>1, <2>1, ScoredStays
  <2>3. PhotosOf(m) = PhotosOf(n) /\ DOMAIN n = Columns
    BY <1>1, <1>6, <2>1 DEF AllScored, Writes, MemoriesInv, MemoriesOK, Shows
  <2>4. Rescored(n, m).scores = [p \in PhotosOf(n) |-> m.scores[p]]
    BY <2>3 DEF Rescored, PhotosOf, Columns
  <2>5. memories'[k] = Rescored(n, m)
    BY <1>4, <1>6, <2>1
  <2>6. Scored(memories[k])'
    BY <2>2, <2>3, <2>4, <2>5 DEF Scored, PhotosOf
  <2> QED BY <2>6
<1> QED BY <1>2, <1>3, <1>4, <1>5, <1>6 DEF AllScored, Writes

---------------------------------------------------------------------------
(* Renames. *)

LEMMA ScoredByRename ==
    ASSUME SameData, AllScored, NEW c0 \in Clusters, NEW name, Rename(c0, name), NoteRename(c0) PROVE AllScored'
<1>1. /\ owed' = owed \cup {c0} /\ UNCHANGED <<memories, queue, work>>
      /\ \A c : c # c0 => cluster'[c] = cluster[c]
  BY DEF NoteRename, Rename
<1>2. \A c : Owes(c) => Owes(c)'
  BY <1>1 DEF Owes
<1>3. ASSUME NEW p, NEW x, Settled(p, x) PROVE Settled(p, x)'
  <2>1. CASE p \in Theirs(c0)
    <3>1. Awaited(p)'
      BY <1>1, <2>1 DEF Awaited, Theirs, FacesOf, SameData, Owes
    <3> QED BY <3>1 DEF Settled
  <2>2. CASE p \notin Theirs(c0)
    <3>1. \A f \in HasRow : ImageOf[f] = p => NamesNow'[f] = NamesNow[f]
      <4> TAKE f \in HasRow
      <4>1. ImageOf[f] = p => face[f] # c0
        BY <2>2 DEF Theirs, FacesOf, HasRow
      <4> QED BY <1>1, <4>1 DEF NamesNow, HasRow, SameData
    <3> QED BY <1>2, <1>3, <3>1, SettledStays
  <2> QED BY <2>1, <2>2
<1>4. ASSUME NEW m, Scored(m) PROVE Scored(m)'
  <2>1. ASSUME NEW p \in PhotosOf(m) PROVE Settled(p, m.scores[p])'
    <3>1. PICK x : x = m.scores[p] /\ Settled(p, x)
      BY <1>4 DEF Scored
    <3>2. Settled(p, x)'
      BY <1>3, <3>1
    <3> QED BY <3>1, <3>2
  <2> QED BY <2>1 DEF Scored, PhotosOf
<1>5. ASSUME NEW k \in DOMAIN memories PROVE Scored(memories[k])' \/ Rescores(k)'
  <2>1. PICK m : m = memories[k]
    OBVIOUS
  <2>2. Scored(m)' \/ Rescores(k)
    BY <1>4, <2>1 DEF AllScored
  <2> QED BY <1>1, <2>1, <2>2 DEF Scored, PhotosOf, Rescores
<1>6. Writes("curate") \/ Writes("rescore") => Scored(work.made)'
  <2>1. PICK m : m = work.made
    OBVIOUS
  <2>2. Writes("curate") \/ Writes("rescore") => Scored(m)'
    BY <1>4, <2>1 DEF AllScored
  <2> QED BY <1>1, <2>1, <2>2 DEF Scored, PhotosOf
<1>7. Home' = Home
  BY HomeStays DEF SameData
<1> QED BY <1>1, <1>5, <1>6, <1>7 DEF AllScored, Writes, PhotosOf

---------------------------------------------------------------------------
(* The invariant. *)

LEMMA QueueStays ==
    ASSUME queue \in Seq(Jobs), owed \subseteq Clusters, MemoriesStep
    PROVE  queue' \in Seq(Jobs) /\ owed' \subseteq Clusters
<1> DEFINE J == Jobs
<1>1. ASSUME NEW job \in J, queue' = Append(queue, job) PROVE queue' \in Seq(J)
  <2> HIDE DEF J
  <2>1. queue \in Seq(J)
    BY DEF J
  <2> QED BY <1>1, <2>1
<1>2. ASSUME queue # <<>>, queue' = Tail(queue) PROVE queue' \in Seq(J)
  <2> HIDE DEF J
  <2>1. queue \in Seq(J)
    BY DEF J
  <2> QED BY <1>2, <2>1
<1>3. [kind |-> "curate", cluster |-> None] \in J /\ \A c \in Clusters : [kind |-> "rescore", cluster |-> c] \in J
  BY DEF Jobs
<1> HIDE DEF J
<1>4. queue' \in Seq(J) \/ queue' = queue
  <2>1. CASE SubmitCuration \/ \E c \in owed : SubmitRescore(c)
    BY <1>1, <1>3, <2>1 DEF SubmitCuration, SubmitRescore, Submit
  <2>2. CASE BeginCuration \/ BeginRescore
    BY <1>2, <2>2 DEF BeginCuration, BeginRescore, Takes
  <2>3. CASE \/ Plan \/ Build \/ UpsertMemory \/ (\E k \in work.todo : ReadScores(k)) \/ WriteScores
             \/ OpenTodays \/ \E k \in DOMAIN memories : Dismiss(k) \/ DeleteMemory(k)
    BY <2>3 DEF Plan, Build, UpsertMemory, ReadScores, WriteScores, OpenTodays, Dismiss, DeleteMemory, Marks
  <2> QED BY <2>1, <2>2, <2>3 DEF MemoriesStep, WorkerStep
<1>5. owed' \subseteq owed
  BY DEF MemoriesStep, WorkerStep, SubmitCuration, SubmitRescore, BeginCuration, BeginRescore,
         Plan, Build, UpsertMemory, ReadScores, WriteScores, OpenTodays, Dismiss, DeleteMemory, Marks
<1> QED BY <1>4, <1>5 DEF J

LEMMA SubmittedOwes ==
    ASSUME queue \in Seq(Jobs), NEW job, queue' = Append(queue, job), NEW c,
           Owes(c), c \in owed' \/ c \notin owed \/ (job.kind = "rescore" /\ job.cluster = c)
    PROVE  Owes(c)'
<1> DEFINE J == Jobs
           n == Len(queue)
<1>1. queue \in Seq(J)
  OBVIOUS
<1> HIDE DEF J
<1>2. /\ n \in Nat /\ DOMAIN queue = 1..n /\ DOMAIN queue' = 1..(n + 1)
      /\ \A i \in 1..n : queue'[i] = queue[i]
  BY <1>1
<1>3. queue'[n + 1] = job
  BY <1>1
<1> HIDE DEF n
<1>4. CASE \E i \in DOMAIN queue : queue[i].kind = "rescore" /\ queue[i].cluster = c
  BY <1>2, <1>4 DEF Owes
<1>5. CASE job.kind = "rescore" /\ job.cluster = c
  <2>1. n + 1 \in DOMAIN queue'
    BY <1>2
  <2> QED BY <1>3, <1>5, <2>1 DEF Owes
<1>6. CASE c \in owed'
  BY <1>6 DEF Owes
<1> QED BY <1>4, <1>5, <1>6 DEF Owes

LEMMA ScoredByStep ==
    ASSUME MemoriesInv, ScoredInv, About("memories"), alive = Photos, alive' = alive, MemoriesStep, SameData, UNCHANGED cluster
    PROVE  AllScored'
<1>1. AllScored /\ queue \in Seq(Jobs)
  BY DEF ScoredInv
<1>2. CASE SubmitCuration
  <2>1. \A c \in Clusters : Owes(c) => Owes(c)'
    BY <1>1, <1>2, SubmittedOwes DEF SubmitCuration, Submit
  <2> QED BY <1>1, <1>2, <2>1, ScoredOtherwise DEF Same, SubmitCuration
<1>3. ASSUME NEW c0 \in owed, SubmitRescore(c0) PROVE AllScored'
  <2>1. \A c \in Clusters : Owes(c) => Owes(c)'
    <3> DEFINE job == [kind |-> "rescore", cluster |-> c0]
    <3>1. job.kind = "rescore" /\ job.cluster = c0 /\ queue' = Append(queue, job) /\ owed' = owed \ {c0}
      BY <1>3 DEF SubmitRescore, Submit
    <3> HIDE DEF job
    <3> QED BY <1>1, <3>1, SubmittedOwes
  <2> QED BY <1>1, <1>3, <2>1, ScoredOtherwise DEF Same, SubmitRescore
<1>4. CASE BeginCuration
  <2>1. \A c \in Clusters : Owes(c) => Owes(c)'
    BY <1>1, <1>4, TailOwes DEF BeginCuration, Takes
  <2> QED BY <1>1, <1>4, <2>1, ScoredByBegin DEF Same
<1>5. CASE BeginRescore
  BY <1>1, <1>5, ScoredByBeginRescore
<1>6. ASSUME UNCHANGED <<queue, owed>> PROVE Same
  BY <1>6 DEF Same, Owes
<1>7. CASE Plan \/ Build \/ UpsertMemory \/ (\E k \in work.todo : ReadScores(k)) \/ WriteScores
  <2>1. Same
    BY <1>6, <1>7 DEF Plan, Build, UpsertMemory, ReadScores, WriteScores
  <2> QED BY <1>1, <1>7, <2>1, ScoredByPlan, ScoredByBuild, ScoredByUpsert, ScoredByReading, ScoredByWriting
<1>8. ASSUME NEW k, NEW viewed, NEW dismissed, Marks(k, viewed, dismissed) PROVE AllScored'
  <2>1. Same
    BY <1>6, <1>8 DEF Marks
  <2> DEFINE With1(m) == [m EXCEPT !.viewed = viewed, !.dismissed = dismissed]
  <2>2. /\ DOMAIN memories' = DOMAIN memories
        /\ \A l \in DOMAIN memories : memories'[l] = memories[l] \/ memories'[l] = With1(memories[l])
    BY <1>8 DEF Marks
  <2>3. ASSUME NEW m, Shows(m) PROVE With1(m).scores = m.scores
    BY <2>3 DEF Shows, Columns
  <2> HIDE DEF With1
  <2>4. \A l \in DOMAIN memories' : memories'[l].scores = memories[l].scores
    BY <2>2, <2>3 DEF MemoriesInv, MemoriesOK
  <2> QED BY <1>1, <1>8, <2>1, <2>2, <2>4, ScoredOtherwise DEF Marks
<1>9. ASSUME NEW k, DeleteMemory(k) PROVE AllScored'
  <2>1. Same
    BY <1>6, <1>9 DEF DeleteMemory
  <2> QED BY <1>1, <1>9, <2>1, ScoredOtherwise DEF DeleteMemory
<1>10. CASE OpenTodays \/ \E k \in DOMAIN memories : Dismiss(k) \/ DeleteMemory(k)
  BY <1>8, <1>9, <1>10 DEF OpenTodays, Dismiss
<1> QED BY <1>2, <1>3, <1>4, <1>5, <1>7, <1>10 DEF MemoriesStep, WorkerStep

LEMMA ScoredInvariant == ASSUME MemoriesInv, ScoredInv, [Next]_galleryVars PROVE ScoredInv'
<1>1. ASSUME UNCHANGED <<scope, queue, owed>>, About("memories") /\ alive' = Photos => AllScored' PROVE ScoredInv'
  BY <1>1 DEF ScoredInv, OnlyNames, About
<1>2. ASSUME UNCHANGED <<memories, queue, work, owed, scope>>, UNCHANGED <<alive, face, cluster, albums>> PROVE ScoredInv'
  <2>1. Same
    BY <1>2 DEF Same, SameData, Owes
  <2>2. AllScored => AllScored'
    BY <1>2, <2>1, ScoredOtherwise
  <2> QED BY <1>1, <1>2, <2>2 DEF ScoredInv
<1>3. ASSUME NEW p, PhotoGoes(p) PROVE ScoredInv'
  <2>1. alive' # Photos
    BY <1>3 DEF PhotoGoes, DeletePhoto, MemoriesInv
  <2> QED BY <1>1, <1>3, <2>1 DEF PhotoGoes, DeletePhoto, CascadeToMemories
<1>4. CASE ScanAndClock
  <2>1. CASE About("memories") /\ ((\E p \in Photos : CorrectDate(p) /\ NoteMove) \/ (Tomorrow /\ UNCHANGED memoryVars))
             /\ UNCHANGED <<peopleVars, albumVars>>
    BY <1>2, <2>1 DEF CorrectDate, NoteMove, Tomorrow, memoryVars, peopleVars, albumVars
  <2> QED BY <1>3, <1>4, <2>1 DEF ScanAndClock
<1>5. CASE PeopleStep
  <2>1. ~About("memories") /\ UNCHANGED <<scope, queue, owed>>
    BY <1>5 DEF PeopleStep, ScoredInv, OnlyNames, memoryVars, libraryVars, LibraryStill
  <2> QED BY <1>1, <2>1
<1>6. CASE AlbumsStep
  <2>1. ~About("memories") /\ UNCHANGED <<scope, queue, owed>>
    BY <1>6 DEF AlbumsStep, ScoredInv, OnlyNames, memoryVars, libraryVars, LibraryStill
  <2> QED BY <1>1, <2>1
<1>7. CASE RenamePerson
  <2>1. UNCHANGED <<scope, alive, albums, face>>
    BY <1>7 DEF RenamePerson, LibraryStill, albumVars, Rename
  <2>2. CASE About("memories")
    <3>1. PICK c \in Clusters, name \in Names : Rename(c, name) /\ NoteRename(c)
      BY <1>7, <2>2 DEF RenamePerson
    <3>2. AllScored => AllScored'
      BY <2>1, <3>1, ScoredByRename DEF SameData
    <3>3. queue' = queue /\ owed' \subseteq Clusters
      BY <3>1 DEF NoteRename, ScoredInv
    <3> QED BY <2>1, <3>2, <3>3 DEF ScoredInv, OnlyNames, About
  <2>3. CASE ~About("memories")
    <3>1. UNCHANGED memoryVars
      BY <1>7, <2>3 DEF RenamePerson
    <3> QED BY <1>1, <2>1, <2>3, <3>1 DEF memoryVars
  <2> QED BY <2>2, <2>3
<1>8. CASE MemoriesStep
  <2>1. UNCHANGED <<scope, alive, albums, face, cluster>>
    BY <1>8 DEF MemoriesStep, libraryVars, LibraryStill, albumVars, peopleVars
  <2>2. queue' \in Seq(Jobs) /\ owed' \subseteq Clusters
    BY <1>8, QueueStays DEF ScoredInv
  <2>3. About("memories") /\ alive = Photos => AllScored'
    BY <1>8, <2>1, ScoredByStep DEF SameData
  <2> QED BY <2>1, <2>2, <2>3 DEF ScoredInv, OnlyNames, About
<1>9. CASE UNCHANGED galleryVars
  BY <1>2, <1>9 DEF galleryVars, libraryVars, memoryVars, peopleVars, albumVars
<1> QED BY <1>4, <1>5, <1>6, <1>7, <1>8, <1>9 DEF Next

(* Where only photos, names and dates change, and the memories at the      *)
(* start have the scores that their people give them, naming a person      *)
(* reaches every score: once the worker has nothing left to do, each is    *)
(* the one that today's names give.                                        *)
THEOREM NamesDoReachMemories == OnlyNames /\ NamesReachMemories /\ Spec => []NamesReachMemories
<1>1. ScoredInv => NamesReachMemories
  <2> SUFFICES ASSUME ScoredInv, About("memories"), work.kind = "rest", queue = <<>>, owed = {}, alive = Photos,
                      NEW k \in DOMAIN memories, NEW p \in PhotosOf(memories[k])
               PROVE  memories[k].scores[p] \in {Score(p, Home), Penalized(Score(p, Home))}
    BY DEF NamesReachMemories
  <2>1. Settled(p, memories[k].scores[p])
    BY DEF ScoredInv, AllScored, Rescores, Scored
  <2>2. ~Awaited(p)
    BY DEF Awaited, Owes
  <2> QED BY <2>1, <2>2 DEF Settled
<1>2. Init /\ OnlyNames /\ NamesReachMemories => ScoredInv
  <2> SUFFICES ASSUME Init, OnlyNames, NamesReachMemories PROVE ScoredInv
    OBVIOUS
  <2>1. work = Resting /\ queue = <<>> /\ owed = {} /\ alive = Photos
    BY DEF Init, MemoriesInit, LibraryInit
  <2>2. work.kind = "rest"
    BY <2>1 DEF Resting
  <2>3. About("memories") => \A k \in DOMAIN memories : Scored(memories[k])
    BY <2>1, <2>2 DEF NamesReachMemories, Scored, Settled
  <2>4. About("memories") => AllScored
    BY <2>2, <2>3 DEF AllScored, Writes
  <2>5. queue \in Seq(Jobs)
    BY <2>1
  <2> QED BY <2>1, <2>4, <2>5 DEF ScoredInv
<1>3. MemoriesInv /\ ScoredInv /\ [Next]_galleryVars => (MemoriesInv /\ ScoredInv)'
  BY MemoriesInvariant, ScoredInvariant
<1> QED BY <1>1, <1>2, <1>3, MemoriesStart, PTL DEF Spec

---------------------------------------------------------------------------
(* What users say of memories stays.                                       *)

(* Every stored memory has a place for what the user says of it, and each  *)
(* thing that users and scans do is counted.                               *)
StateIsKept ==
    /\ events \in Nat
    /\ \A k \in DOMAIN memories : {"viewed", "dismissed"} \subseteq DOMAIN memories[k]

(* The same memory in the next state, as the user left it. *)
Survives(k) == memories'[k].viewed = memories[k].viewed /\ memories'[k].dismissed = memories[k].dismissed

Undisturbed ==
    \A k \in DOMAIN memories' :
        /\ {"viewed", "dismissed"} \subseteq DOMAIN memories'[k]
        /\ k \in DOMAIN memories => Survives(k)

---------------------------------------------------------------------------
(* The worker's three ways to write a memory. *)

LEMMA DroppingStale == ASSUME StateIsKept, BeginCuration PROVE Undisturbed
BY DEF BeginCuration, StateIsKept, Undisturbed, Survives

LEMMA Upserting == ASSUME StateIsKept, UpsertMemory PROVE Undisturbed
<1> DEFINE old == IF work.key \in DOMAIN memories THEN memories[work.key]
                  ELSE [viewed |-> FALSE, dismissed |-> FALSE]
           row == Written(work.made, old)
<1>1. CASE memories' = memories
  BY <1>1 DEF StateIsKept, Undisturbed, Survives
<1>2. CASE memories' = WithMemory(work.key, row)
  <2>1. {"viewed", "dismissed"} \subseteq DOMAIN row /\ row.viewed = old.viewed /\ row.dismissed = old.dismissed
    BY DEF Written
  <2> HIDE DEF row
  <2>2. /\ DOMAIN memories' = DOMAIN memories \cup {work.key}
        /\ memories'[work.key] = row
        /\ \A k \in DOMAIN memories : k # work.key => memories'[k] = memories[k]
    BY <1>2 DEF WithMemory
  <2> QED BY <2>1, <2>2 DEF StateIsKept, Undisturbed, Survives
<1> QED BY <1>1, <1>2 DEF UpsertMemory

LEMMA Rescoring == ASSUME StateIsKept, WriteScores PROVE Undisturbed
<1>1. CASE memories' = memories
  BY <1>1 DEF StateIsKept, Undisturbed, Survives
<1>2. CASE /\ work.key \in DOMAIN memories
           /\ memories' = [memories EXCEPT ![work.key] = Rescored(@, work.made)]
  <2> DEFINE m == memories[work.key]
             row == Rescored(m, work.made)
  <2>1. {"viewed", "dismissed"} \subseteq DOMAIN m
    BY <1>2 DEF StateIsKept
  <2>2. {"viewed", "dismissed"} \subseteq DOMAIN row /\ row.viewed = m.viewed /\ row.dismissed = m.dismissed
    BY <2>1 DEF Rescored
  <2> HIDE DEF row
  <2>3. /\ DOMAIN memories' = DOMAIN memories
        /\ memories'[work.key] = row
        /\ \A k \in DOMAIN memories : k # work.key => memories'[k] = memories[k]
    BY <1>2 DEF row
  <2> QED BY <2>2, <2>3 DEF StateIsKept, Undisturbed, Survives
<1> QED BY <1>1, <1>2 DEF WriteScores

LEMMA Working == ASSUME StateIsKept, WorkerStep PROVE Undisturbed
<1>1. CASE UNCHANGED memories
  BY <1>1 DEF StateIsKept, Undisturbed, Survives
<1>2. CASE BeginCuration \/ UpsertMemory \/ WriteScores
  BY <1>2, DroppingStale, Upserting, Rescoring
<1>3. CASE Plan \/ Build \/ BeginRescore \/ \E k \in work.todo : ReadScores(k)
  BY <1>1, <1>3 DEF Plan, Build, BeginRescore, ReadScores
<1> QED BY <1>2, <1>3 DEF WorkerStep

---------------------------------------------------------------------------
(* Users and scans. *)

(* A step is counted, or leaves memories as the user left them; either way *)
(* the rows keep the columns.                                              *)
Harmless == StateIsKept' /\ (events' = events => Undisturbed)

LEMMA StillHarmless == ASSUME StateIsKept, UNCHANGED <<memories, events>> PROVE Harmless
BY DEF StateIsKept, Harmless, Undisturbed, Survives

LEMMA Uncounted == ASSUME StateIsKept, Undisturbed, UNCHANGED events PROVE Harmless
BY DEF StateIsKept, Harmless, Undisturbed

LEMMA Counted ==
    ASSUME StateIsKept, Happens, \A k \in DOMAIN memories' : {"viewed", "dismissed"} \subseteq DOMAIN memories'[k]
    PROVE  Harmless
BY DEF StateIsKept, Harmless, Happens

LEMMA Marking ==
    ASSUME StateIsKept, NEW k, NEW viewed, NEW dismissed, Marks(k, viewed, dismissed)
    PROVE  \A l \in DOMAIN memories' : {"viewed", "dismissed"} \subseteq DOMAIN memories'[l]
BY DEF StateIsKept, Marks

LEMMA UsersAreHarmless ==
    ASSUME StateIsKept, OpenTodays \/ \E k \in DOMAIN memories : Dismiss(k) \/ DeleteMemory(k)
    PROVE  Harmless
<1>1. CASE OpenTodays
  BY <1>1, Marking, Counted DEF OpenTodays
<1>2. ASSUME NEW k, Dismiss(k) PROVE Harmless
  BY <1>2, Marking, Counted DEF Dismiss
<1>3. ASSUME NEW k, DeleteMemory(k) PROVE Harmless
  BY <1>3, Counted DEF DeleteMemory, StateIsKept
<1> QED BY <1>1, <1>2, <1>3

LEMMA CascadesAreHarmless ==
    ASSUME StateIsKept, NEW p, Happens, CascadeToMemories(p) PROVE Harmless
<1>1. DOMAIN memories' = DOMAIN memories
  BY DEF CascadeToMemories
<1>2. ASSUME NEW k \in DOMAIN memories PROVE {"viewed", "dismissed"} \subseteq DOMAIN memories'[k]
  BY DEF CascadeToMemories, StateIsKept
<1> QED BY <1>1, <1>2, Counted

LEMMA StepsAreHarmless == ASSUME StateIsKept, [Next]_galleryVars PROVE Harmless
<1>1. ASSUME NEW p \in Photos, PhotoGoes(p) PROVE Harmless
  BY <1>1, CascadesAreHarmless DEF PhotoGoes, DeletePhoto
<1>2. ASSUME NEW p \in Photos, CorrectDate(p), NoteMove PROVE Harmless
  BY <1>2, Counted DEF CorrectDate, NoteMove, StateIsKept
<1>3. CASE Tomorrow /\ UNCHANGED memoryVars
  BY <1>3, Counted DEF Tomorrow, memoryVars, StateIsKept
<1>4. CASE MemoriesStep
  <2>1. CASE SubmitCuration /\ UNCHANGED libraryVars
    BY <2>1, StillHarmless DEF SubmitCuration, libraryVars
  <2>2. CASE WorkerStep /\ UNCHANGED libraryVars
    BY <2>2, Working, Uncounted DEF libraryVars
  <2>3. ASSUME NEW c \in owed, SubmitRescore(c), UNCHANGED libraryVars PROVE Harmless
    BY <2>3, StillHarmless DEF SubmitRescore, libraryVars
  <2> QED BY <1>4, <2>1, <2>2, <2>3, UsersAreHarmless DEF MemoriesStep
<1>5. CASE UNCHANGED memories /\ (UNCHANGED events \/ Happens)
  BY <1>5, StillHarmless, Counted DEF StateIsKept
<1>6. CASE PeopleStep
  <2>1. UNCHANGED memories
    BY <1>6 DEF PeopleStep, memoryVars
  <2>2. UNCHANGED events \/ Happens
    BY <1>6 DEF PeopleStep, libraryVars, ReadUntagged, ReadPreferences, TimePasses
  <2> QED BY <1>5, <2>1, <2>2
<1>7. CASE RenamePerson
  <2>1. UNCHANGED memories
    BY <1>7 DEF RenamePerson, memoryVars, NoteRename
  <2>2. Happens
    BY <1>7 DEF RenamePerson, Rename
  <2> QED BY <1>5, <2>1, <2>2
<1>8. CASE AlbumsStep
  <2>1. UNCHANGED memories
    BY <1>8 DEF AlbumsStep, memoryVars
  <2>2. UNCHANGED events \/ Happens
    BY <1>8 DEF AlbumsStep, libraryVars, Ask, AskCreate, AskUpdate, AskOpen, AskOther, AskFromMemory
  <2> QED BY <1>5, <2>1, <2>2
<1>9. CASE UNCHANGED galleryVars
  BY <1>9, StillHarmless DEF galleryVars, libraryVars, memoryVars
<1>10. CASE ScanAndClock
  BY <1>1, <1>2, <1>3, <1>10 DEF ScanAndClock
<1> QED BY <1>4, <1>6, <1>7, <1>8, <1>9, <1>10 DEF Next

LEMMA Initially == Init => StateIsKept
BY MemoriesAssumption DEF Columns, Init, LibraryInit, MemoriesInit, StateIsKept

(* "viewed" and "dismissed" are the user's: no pass, rescoring or clean-up *)
(* of the worker changes them on a memory that stays.                      *)
THEOREM UserStateIsSafe == Spec => UserStateSurvives
<1>1. StateIsKept /\ [Next]_galleryVars => StateIsKept'
  BY StepsAreHarmless DEF Harmless
<1>2. StateIsKept /\ [Next]_galleryVars =>
        [\A k \in DOMAIN memories \cap DOMAIN memories' : events' = events =>
          /\ memories'[k].viewed = memories[k].viewed
          /\ memories'[k].dismissed = memories[k].dismissed]_memoryVars
  BY StepsAreHarmless DEF Harmless, Undisturbed, Survives
<1> QED BY <1>1, <1>2, Initially, PTL DEF Spec, UserStateSurvives
=============================================================================
