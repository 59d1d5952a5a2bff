------------------------------ MODULE FaceGroups ------------------------------
(***************************************************************************)
(* The grouping of faces into people, as functions of what was read from   *)
(* the database (utils/face_clusters.py).  An embedding is a point on a    *)
(* line: two faces are the more alike the closer they are, and the mean of *)
(* a set lies between its members, which is all that the algorithms use.   *)
(***************************************************************************)
EXTENDS PhotoLibrary

CONSTANTS
    Faces,              \* face ids, in the order of their insertion
    ImageOf,            \* the image of each face
    Look,               \* the embedding
    Usable,             \* the faces whose embedding passes _validate_embedding
    MinSamples,         \* PICTO_CLUSTERING_MIN_SAMPLES
    MaxDistance,        \* 1 - PICTO_CLUSTERING_SIMILARITY_THRESHOLD
    MergeDistance,      \* 1 - PICTO_CLUSTERING_MERGE_THRESHOLD
    AssignDistance      \* 1 - the similarity_threshold of the assignment

ASSUME FacesAssumption ==
    /\ IsFiniteSet(Faces) /\ Faces \subseteq Nat /\ Usable \subseteq Faces
    /\ ImageOf \in [Faces -> Photos] /\ Look \in [Faces -> Int]
    /\ MinSamples = 2       \* the default; the components below rest on it

(* How far the means of F and G are apart, times Card(F) * Card(G). *)
Apart(F, G) ==
    LET Sum(H) == SumFunctionOnSet(Look, H)
    IN  Abs(Sum(F) * Cardinality(G) - Sum(G) * Cardinality(F))

Within(d, F, G) == Apart(F, G) <= d * Cardinality(F) * Cardinality(G)

---------------------------------------------------------------------------
(* DBSCAN.                                                                 *)

(* How far the MinSamples-nearest other face is. *)
KthDistance(f, S) ==
    LET nearest == InOrder(S \ {f}, LAMBDA g, h : Apart({f}, {g}) < Apart({f}, {h}))
    IN  Apart({f}, {nearest[MinSamples]})

(* Ten times the 90th percentile of what f maps to, interpolated. *)
NinetiethTenths(f) ==
    LET sorted == InOrder(DOMAIN f, LAMBDA x, y : f[x] < f[y])
        at == 9 * (Cardinality(DOMAIN f) - 1)
        part == at % 10
        low == f[sorted[at \div 10 + 1]]
    IN  IF part = 0 THEN 10 * low ELSE low * (10 - part) + f[sorted[at \div 10 + 2]] * part

(* estimate_eps and its clamping, in tenths: the 90th percentile of those  *)
(* distances, and at most MaxDistance.                                     *)
EpsTenths(S) ==
    IF Cardinality(S) <= MinSamples THEN 10 * MaxDistance
    ELSE Min({10 * MaxDistance, NinetiethTenths([f \in S |-> KthDistance(f, S)])})

(* With two samples every face that has a neighbour is a core point, so a  *)
(* group is a chain of neighbours and everybody else is noise.             *)
ChainOf(f, S, eps) ==
    {g \in S : \A h \in S :
        Look[h] >= Min({Look[f], Look[g]}) /\ Look[h] < Max({Look[f], Look[g]}) =>
            \E k \in S : Look[k] > Look[h] /\ 10 * (Look[k] - Look[h]) <= eps}

(* The groups, in the order in which their first faces come.               *)
Groups(S) ==
    LET Chain(f) == ChainOf(f, S, EpsTenths(S))
        first == InOrder({f \in S : Cardinality(Chain(f)) >= MinSamples /\ f = Min(Chain(f))}, <)
    IN  [i \in DOMAIN first |-> Chain(first[i])]

---------------------------------------------------------------------------
(* Names.                                                                  *)

(* Mutant: faces without a name vote as well. *)
MostCommonOfAll(F, nameOf) ==
    LET votes(n) == {f \in F : nameOf[f] = n}
    IN  CHOOSE n \in {nameOf[f] : f \in F} :
            \A m \in {nameOf[f] : f \in F} :
                \/ Cardinality(votes(n)) > Cardinality(votes(m))
                \/ /\ Cardinality(votes(n)) = Cardinality(votes(m))
                   /\ Min(votes(n)) <= Min(votes(m))

(* _determine_cluster_name: the most common name that is not null; of two  *)
(* that are equally common, the one met first (Counter.most_common).       *)
MostCommon(F, nameOf) ==
    LET named == {f \in F : nameOf[f] # None}
        votes(n) == {f \in named : nameOf[f] = n}
        Beats(n, m) ==
            \/ Cardinality(votes(n)) > Cardinality(votes(m))
            \/ /\ Cardinality(votes(n)) = Cardinality(votes(m))
               /\ Min(votes(n)) <= Min(votes(m))
    IN  IF named = {} THEN None
        ELSE CHOOSE n \in {nameOf[f] : f \in named} :
                \A m \in {nameOf[f] : f \in named} : Beats(n, m)

---------------------------------------------------------------------------
(* Merging and the one-face-per-image rule.                                *)

(* _merge_similar_clusters: every group goes to the first earlier group    *)
(* that is alike and was not itself merged, or stays what it is.           *)
HeadOf(groups) ==
    LET Into[i \in 1..Len(groups)] ==
            LET heads == {h \in 1..(i - 1) :
                            Into[h] = h /\ Within(MergeDistance, groups[h], groups[i])}
            IN  IF heads = {} THEN i ELSE Min(heads)
    IN  Into

(* Mutant: the rule is applied to the groups before they are merged. *)
OnePerImageOfEach(M, groupOf) ==
    {f \in M : \A g \in groupOf[f] :
        g # f /\ ImageOf[g] = ImageOf[f] => Apart({f}, groupOf[f]) <= Apart({g}, groupOf[f])}

(* _enforce_one_face_per_image: of the faces of one image only the closest *)
(* to the mean of M stays; of two as close, the one that comes first.      *)
OnePerImage(M, groupOf) ==
    LET Earlier(f, g) ==
            \/ Min(groupOf[f]) < Min(groupOf[g])
            \/ Min(groupOf[f]) = Min(groupOf[g]) /\ f < g
        Beats(f, g) ==
            \/ Apart({f}, M) < Apart({g}, M)
            \/ Apart({f}, M) = Apart({g}, M) /\ Earlier(f, g)
    IN  {f \in M : \A g \in M : g # f /\ ImageOf[g] = ImageOf[f] => Beats(f, g)}

(* The people that groups make, head being HeadOf of them. *)
PeopleFrom(groups, head, nameOf) ==
    LET groupOf == [f \in UNION Range(groups) |-> CHOOSE F \in Range(groups) : f \in F]
        voted == [f \in DOMAIN groupOf |-> MostCommon(groupOf[f], nameOf)]
        Merged(h) == UNION {groups[i] : i \in {j \in DOMAIN groups : head[j] = h}}
    IN  {[faces |-> OnePerImage(Merged(h), groupOf), name |-> MostCommon(Merged(h), voted)] :
            h \in {i \in DOMAIN groups : head[i] = i}}

MergedPeople(groups, nameOf) == PeopleFrom(groups, HeadOf(groups), nameOf)

(* cluster_util_cluster_all_face_embeddings: the people among the faces S  *)
(* when nameOf is the name that each face's cluster had.                   *)
PeopleAmong(S, nameOf) == MergedPeople(Groups(S \cap Usable), nameOf)

---------------------------------------------------------------------------
(* The assignment of new faces to the people there are.                    *)

(* cluster_util_assign_cluster_to_faces_without_clusterId, after its three *)
(* reads: each face goes to the nearest mean if that is near enough and    *)
(* has no face of the same image yet, counting those just assigned.        *)
Assign(F, means, occupied) ==
    LET Nearest(f) == CHOOSE c \in DOMAIN means : \A d \in DOMAIN means :
            Apart({f}, means[c]) * Cardinality(means[d]) <= Apart({f}, means[d]) * Cardinality(means[c])
        Free(f, to) == /\ <<Nearest(f), ImageOf[f]>> \notin occupied
                       /\ \A g \in DOMAIN to : to[g] = Nearest(f) => ImageOf[g] # ImageOf[f]
        Step(to, f) == IF Within(AssignDistance, {f}, means[Nearest(f)]) /\ Free(f, to)
                       THEN [g \in DOMAIN to \cup {f} |-> IF g = f THEN Nearest(f) ELSE to[g]]
                       ELSE to
    IN  FoldLeft(Step, <<>>, InOrder(F \cap Usable, <))
=============================================================================
