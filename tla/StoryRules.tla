------------------------------ MODULE StoryRules ------------------------------
(***************************************************************************)
(* What makes a memory out of photos: the signals and their weighted sum,  *)
(* the trimming of a candidate set, and the three ways to find candidates  *)
(* (utils/memory_scoring.py, utils/memory_curator.py and the queries they  *)
(* rest on).  Everything is a function of the tables as they stand.        *)
(*                                                                         *)
(* Times are hours, so "within DUP_WINDOW_SECONDS" is "in the same hour".  *)
(* A place is a point on a line, in km; an embedding a point such that the *)
(* cosine of two, in hundredths, is 100 less their distance.  Scores are   *)
(* in thousandths, rounded down.                                           *)
(***************************************************************************)
EXTENDS Albums

CONSTANTS
    Place,              \* latitude and longitude, or None
    Scene,              \* the embedding, or None before there is one
    Favourites,         \* isFavourite
    Matches,            \* image_classes: for each photo a function from labels to scores
    Events, Titles,     \* the active labels of category event; of event or scene
    Clips,              \* the ids of videos
    ClipTakenAt, ClipLength, ClipSignals,
    Weights,            \* for each signal; not normalized, the sum divides them out
    DayLength, YearLength,
    MinImages, MaxImages, MinForHome, CandidateLimit,
    GapHours, JumpKm, SpanDays, MaxImports,
    EventGap, EventMin, EventMargin, OverlapPercent, MaxSemantics, Lookahead,
    DayWindow, MaxAnniversaries,
    LabelTopN, TitleMinImages,
    ClipSeconds, StorySeconds, PhotosPerClip, MaxClips,
    TrimMargin          \* COHESION_MIN_MARGIN, in hundredths

(* The signals of a photo, each with its weight. *)
SignalNames == {"favourite", "in_album", "known_people", "face_presence",
                "semantic_confidence", "event_strength", "gps_novelty"}

ASSUME StoryAssumption ==
    /\ {MinImages, MaxImages, EventMin, DayLength, YearLength} \subseteq Nat \ {0}
    /\ {CandidateLimit, MaxAnniversaries, MaxImports, MaxSemantics} \subseteq Nat
    /\ Events \subseteq Nat /\ IsFiniteSet(Events)
    /\ Place \in [Photos -> Int \cup {None}]
    /\ \A p \in Photos : IsFiniteSet(DOMAIN Matches[p]) /\ \A l \in DOMAIN Matches[p] : Matches[p][l] \in Int
    /\ \A s \in SignalNames : Weights[s] \in Int

Day(t) == t \div DayLength
DayOfYear(day) == day % YearLength
Year(day) == day \div YearLength

Dated == {p \in alive : taken[p] # None}
Start(S) == Min({taken[p] : p \in S})
End(S)   == Max({taken[p] : p \in S})

---------------------------------------------------------------------------
(* Scores.                                                                 *)

(* db_get_gps_histogram: how many photos each cell of 11 km holds, of the  *)
(* cells that hold enough.                                                 *)
Cell(p) == Place[p] \div 11
Located == {p \in alive : Place[p] # None}
GpsHistogram ==
    LET count == [c \in {Cell(p) : p \in Located} |-> Cardinality({p \in Located : Cell(p) = c})]
    IN  Restrict(count, {c \in DOMAIN count : count[c] >= MinForHome})

(* db_get_gps_cell_centre *)
CellCentre(c) ==
    LET inside == {p \in Located : Cell(p) = c}
    IN  SumFunction([p \in inside |-> Place[p]]) \div Cardinality(inside)

(* detect_home_location: the middle of the densest cell. *)
HomeAmong(count) ==
    IF count = <<>> THEN None
    ELSE CellCentre(CHOOSE c \in DOMAIN count : \A d \in DOMAIN count : count[c] >= count[d])
Home == HomeAmong(GpsHistogram)

(* db_get_scoring_signals counts them. *)
NamedPeopleOn(p) ==
    {face[f] : f \in {g \in HasRow : ImageOf[g] = p /\ NamesNow[g] # None}}

(* compute_signals, on the row that db_get_scoring_signals reads: None for *)
(* a signal without data behind it.  The novelty of a place grows with its *)
(* distance from home and saturates.                                       *)
Signals(p, home) ==
    LET labels == DOMAIN Matches[p]
        best(L) == IF Scene[p] = None THEN None
                   ELSE IF L = {} THEN 0 ELSE Max({Matches[p][l] : l \in L})
        Novelty(d) == (1000 * d) \div (d + 50)
    IN  [favourite    |-> IF p \in Favourites THEN 1000 ELSE 0,
         in_album     |-> IF InAnAlbum(p) THEN 1000 ELSE 0,
         known_people |-> (1000 * Min({3, Cardinality(NamedPeopleOn(p))})) \div 3,
         face_presence |-> (1000 * Min({4, Cardinality({f \in HasRow : ImageOf[f] = p})})) \div 4,
         semantic_confidence |-> best(labels), event_strength |-> best(labels \cap Events),
         gps_novelty |-> IF home = None \/ Place[p] = None THEN None ELSE Novelty(Abs(Place[p] - home))]

(* composite_score: renormalized over the signals there are. *)
Composite(signals) ==
    LET there == {s \in DOMAIN signals : signals[s] # None}
        total == SumFunction([s \in there |-> Weights[s]])
    IN  IF total <= 0 THEN 0
        ELSE SumFunction([s \in there |-> Weights[s] * signals[s]]) \div total

Score(p, home) == Composite(Signals(p, home))

(* RECENT_USE_PENALTY. *)
Penalized(score) == (score * 7) \div 20

(* aggregate_memory_score, its logarithm read off a table. *)
Log1p == <<693, 1099, 1386, 1609, 1792, 1946, 2079, 2197>>
MemoryScore(chosen, score) ==
    LET top == FirstOf(5, InOrder(chosen, LAMBDA p, q : score[p] > score[q]))
        base == FoldLeft(LAMBDA sum, p : sum + score[p], 0, top) \div Len(top)
        size == 1000 + (150 * Log1p[Min({8, Cardinality(chosen)})]) \div 3434
        classes == SumFunction([p \in chosen |-> Cardinality(DOMAIN Matches[p])])
        variety == 1000 + Min({100, (10 * classes) \div Cardinality(chosen)})
    IN  (base * size * variety) \div 1000000

---------------------------------------------------------------------------
(* Trimming.                                                               *)

Cosine(p, q) == 100 - Abs(Scene[p] - Scene[q])

(* suppress_near_duplicates: of two that look the same and were taken      *)
(* together, the better stays.                                             *)
SuppressNearDuplicates(ranked) ==
    LET Same(p, q) ==
            /\ Scene[p] # None /\ Scene[q] # None
            /\ taken[p] # None /\ taken[p] = taken[q]
            /\ Cosine(p, q) >= 90
        Stays[i \in DOMAIN ranked] == \A j \in 1..(i - 1) : Stays[j] => ~Same(ranked[i], ranked[j])
    IN  Those(ranked, {ranked[i] : i \in {j \in DOMAIN ranked : Stays[j]}})

(* Twice the median of what f maps to. *)
TwiceMedian(f) ==
    LET sorted == InOrder(DOMAIN f, LAMBDA p, q : f[p] < f[q])
        n == Cardinality(DOMAIN f)
    IN  f[sorted[(n + 1) \div 2]] + f[sorted[n \div 2 + 1]]

(* The others' likeness of each embedded photo in S, times n - 1. *)
Cohesions(S) == [p \in S |-> SumFunction([q \in S \ {p} |-> Cosine(p, q)])]

(* The ranked photos that are less than two deviations, and the margin,    *)
(* below the median, when likeness is that of the n embedded ones.         *)
Coherent(ranked, likeness, n, median2) ==
    LET mad4 == TwiceMedian([p \in DOMAIN likeness |-> Abs(2 * likeness[p] - median2)])
        slack == Max({29652 * mad4, 40000 * TrimMargin * (n - 1)})  \* of 10000ths, times 4
    IN  Those(ranked, {p \in Range(ranked) :
            p \in DOMAIN likeness => 10000 * (2 * median2 - 4 * likeness[p]) <= slack})

UnlessTooFew(keep, ranked) ==
    IF Len(keep) < Max({MinImages, (6 * Len(ranked)) \div 10}) THEN ranked ELSE keep

(* trim_incoherent: who looks less like the others than the rest do does   *)
(* not belong, unless that were too many.                                  *)
TrimIncoherent(ranked) ==
    LET likeness == Cohesions({p \in Range(ranked) : Scene[p] # None})
        n == Cardinality(DOMAIN likeness)
    IN  IF Len(ranked) <= MinImages \/ n < Max({MinImages, 3}) THEN ranked
        ELSE UnlessTooFew(Coherent(ranked, likeness, n, TwiceMedian(likeness)), ranked)

(* spread_over_time: the best of each stretch of the span, filled up with  *)
(* the best of the rest.                                                   *)
SpreadOverTime(ranked) ==
    LET timed == {p \in Range(ranked) : taken[p] # None}
        span == End(timed) - Start(timed)
        Bucket(p) == Min({(MaxImages * (taken[p] - Start(timed))) \div span, MaxImages - 1})
        Rank(p) == CHOOSE i \in DOMAIN ranked : ranked[i] = p
        best == {p \in timed : \A q \in timed : Bucket(q) = Bucket(p) => Rank(p) <= Rank(q)}
        rest == Those(ranked, Range(ranked) \ best)
    IN  IF Len(ranked) <= MaxImages THEN Range(ranked)
        ELSE IF Cardinality(timed) < MaxImages \/ span <= 0 THEN Range(FirstOf(MaxImages, ranked))
        ELSE best \cup Range(FirstOf(MaxImages - Cardinality(best), rest))

---------------------------------------------------------------------------
(* Clips.                                                                  *)

Rounded(a, b) == LET q == a \div b  r == 2 * (a % b)
                 IN  IF r > b \/ (r = b /\ q % 2 = 1) THEN q + 1 ELSE q

(* video_quota *)
ClipQuota(photos) == Min({MaxClips, Max({1, Rounded(photos, PhotosPerClip)})})

(* db_get_video_candidates_in_period: neither too long nor of unknown      *)
(* length.                                                                 *)
ClipsBetween(start, end) ==
    {v \in Clips : /\ ClipTakenAt[v] # None /\ ClipTakenAt[v] \in start..end
                   /\ ClipLength[v] \in 1..ClipSeconds}

(* select_videos_within_budget: the best that fit, the shorter of two that *)
(* are as good.                                                            *)
WithinBudget(clips, quota) ==
    LET score == [v \in clips |-> Composite(ClipSignals[v])]
        Before(v, w) == score[v] > score[w] \/ (score[v] = score[w] /\ ClipLength[v] < ClipLength[w])
        Fits(got, v) == /\ Cardinality(got) < quota
                        /\ SumFunction([w \in got \cup {v} |-> ClipLength[w]]) <= StorySeconds
    IN  FoldLeft(LAMBDA got, v : IF Fits(got, v) THEN got \cup {v} ELSE got, {}, InOrder(clips, Before))

(* _select_videos *)
ClipsFor(S) == WithinBudget(ClipsBetween(Start(S), End(S)), ClipQuota(Cardinality(S)))

---------------------------------------------------------------------------
(* Labels.  Two ranks stand for the score of a label: its place among the  *)
(* labels of the photo, and the photo's place among those of the label.    *)

With(l) == {p \in alive : l \in DOMAIN Matches[p]}
Percentile(p, l) ==
    LET below == Cardinality({q \in With(l) : Matches[q][l] < Matches[p][l]})
    IN  IF With(l) = {p} THEN 0 ELSE (100 * below) \div (Cardinality(With(l)) - 1)
IsAbout(p, l) ==
    /\ l \in DOMAIN Matches[p]
    /\ Cardinality({m \in DOMAIN Matches[p] : Matches[p][m] > Matches[p][l]}) < LabelTopN
    /\ Percentile(p, l) >= 50

(* db_get_top_memory_label, with TITLE_MIN_SHARE of 15 in a hundred. *)
TopLabel(S) ==
    LET Matched(l) == {p \in S : IsAbout(p, l)}
        Sum(l) == SumFunction([p \in Matched(l) |-> Percentile(p, l)])
        fit == {l \in Titles : /\ Cardinality(Matched(l)) >= TitleMinImages
                               /\ 100 * Cardinality(Matched(l)) >= 15 * Cardinality(S)}
    IN  IF fit = {} THEN None
        ELSE CHOOSE l \in fit : \A m \in fit : Sum(l) > Sum(m) \/ (Sum(l) = Sum(m) /\ l <= m)

---------------------------------------------------------------------------
(* Candidates.  A draft is what a trigger hands to _build_memory.          *)

Draft(key, photos, surface, title) ==
    [key |-> key, photos |-> photos, surface |-> surface, title |-> title]

(* S cut wherever Cut(p, q) holds of two that follow one another in time. *)
Segments(S, Cut(_, _)) ==
    LET timed == InOrder(S, LAMBDA p, q : taken[p] < taken[q])
        begins == {i \in DOMAIN timed : i = 1 \/ Cut(timed[i - 1], timed[i])}
        first == InOrder(begins, <)
        Of(b) == {timed[i] : i \in {j \in DOMAIN timed : b = Max({c \in begins : c <= j})}}
    IN  [k \in DOMAIN first |-> Of(first[k])]

(* The sequence of what f makes of each element. *)
Each(seq, f(_)) == [i \in DOMAIN seq |-> f(seq[i])]

(* The n of the drafts that rank lowest. *)
Best(n, drafts, rank) ==
    LET order == InOrder(DOMAIN drafts, LAMBDA i, j : rank[i] < rank[j])
    IN  FirstOf(n, [i \in DOMAIN order |-> drafts[order[i]]])

(* db_get_anniversary_candidates, of one year. *)
AnniversaryCandidates(day, year) ==
    LET window == {DayOfYear(day + o) : o \in -DayWindow..DayWindow}
    IN  {p \in Dated : Year(Day(taken[p])) = year /\ DayOfYear(Day(taken[p])) \in window}

(* _curate_anniversaries, on a day: the years with the most to show. *)
Anniversaries(day) ==
    LET size == [y \in 0..(Year(day) - 1) |-> Cardinality(AnniversaryCandidates(day, y))]
        years == InOrder({y \in DOMAIN size : size[y] >= MinImages},
                         LAMBDA y, z : size[y] > size[z] \/ (size[y] = size[z] /\ y > z))
    IN  Each(FirstOf(MaxAnniversaries, years),
             LAMBDA y : Draft(<<"anniversary", DayOfYear(day), y>>, AnniversaryCandidates(day, y), day, None))

(* db_get_recent_dated_images, whatever is curated already. *)
RecentDated == Range(FirstOf(CandidateLimit, InOrder(Dated, LAMBDA p, q : taken[p] > taken[q])))

(* segment_by_time_and_place: after a pause, or far away, a new one begins. *)
TimeAndPlaceSegments(S) ==
    Segments(S, LAMBDA p, q :
        \/ taken[q] - taken[p] > GapHours
        \/ Place[p] # None /\ Place[q] # None /\ Abs(Place[p] - Place[q]) > JumpKm)

(* _curate_import_events *)
Imports(day) ==
    LET segments == TimeAndPlaceSegments(RecentDated)
        bursts == Those(segments, {S \in Range(segments) :
                      Cardinality(S) >= MinImages /\ End(S) - Start(S) <= SpanDays * DayLength})
        Import(S) == Draft(<<"import", Day(Start(S)), Day(End(S))>>, S, day, None)
    IN  Each(Best(MaxImports, bursts, [i \in DOMAIN bursts |-> -End(bursts[i])]), Import)

(* mean_pairwise_cohesion: the cosines of every two in S added up, and how *)
(* many there are; each pair counts twice.                                 *)
Cohesion(S) ==
    LET seen == {p \in S : Scene[p] # None}
    IN  [sum |-> SumFunction([p \in seen |-> SumFunction([q \in seen \ {p} |-> Cosine(p, q)])]),
         pairs |-> Cardinality(seen) * (Cardinality(seen) - 1)]

(* cohesion_baseline, of a library smaller than the sample. *)
Baseline == Cohesion(alive)

(* passes_coherence_gate: a margin above what the library itself is. *)
AboveBaseline(c, baseline) ==
    \/ c.pairs = 0 \/ baseline.pairs = 0
    \/ c.sum * baseline.pairs >= (baseline.sum + EventMargin * baseline.pairs) * c.pairs
PassesCoherenceGate(S, baseline) == Cardinality(S) >= EventMin /\ AboveBaseline(Cohesion(S), baseline)

(* merge_overlapping_occurrences: each joins the first that it overlaps.   *)
Merged(occurrences) ==
    LET Overlap(a, b) == Min({a.end, b.end}) - Max({a.start, b.start})
        Shorter(a, b) == Min({a.end - a.start, b.end - b.start})
        Joins(a, b) == Overlap(a, b) > 0 /\ 100 * Overlap(a, b) >= OverlapPercent * Shorter(a, b)
        Join(a, b) == [photos |-> a.photos \cup b.photos,
                       start |-> Min({a.start, b.start}), end |-> Max({a.end, b.end}),
                       label |-> IF b.total > a.total THEN b.label ELSE a.label,
                       total |-> Max({a.total, b.total})]
        Add(merged, b) ==
            LET hosts == {i \in DOMAIN merged : Joins(merged[i], b)}
            IN  IF hosts = {} THEN Append(merged, b)
                ELSE [merged EXCEPT ![Min(hosts)] = Join(@, b)]
    IN  FoldLeft(Add, <<>>, occurrences)

(* _semantic_surface_date: the coming anniversary if it is near. *)
SurfaceDate(day, start) ==
    LET ahead == DayOfYear(Day(start)) - DayOfYear(day)
    IN  IF ahead \in 0..Lookahead THEN day + ahead ELSE day

(* _make_occurrence *)
Occurrence(S, l) ==
    [photos |-> S, start |-> Start(S), end |-> End(S), label |-> l,
     total |-> SumFunction([p \in S |-> Percentile(p, l)])]

(* db_get_event_label_hits, of one label. *)
EventLabelHits(l) == {p \in Dated : IsAbout(p, l)}

(* group_event_occurrences, of one label, and the gate. *)
OccurrencesOf(l, baseline) ==
    LET segments == Segments(EventLabelHits(l), LAMBDA p, q : taken[q] - taken[p] > EventGap)
        passing == Those(segments, {S \in Range(segments) : PassesCoherenceGate(S, baseline)})
    IN  Each(passing, LAMBDA S : Occurrence(S, l))

(* db_get_images_in_period: the unlabelled shots in between. *)
ImagesInPeriod(start, end) == {p \in Dated : taken[p] \in start..end}

(* _curate_semantic_events *)
Semantics(day, baseline) ==
    LET all == FoldLeft(LAMBDA seq, l : seq \o OccurrencesOf(l, baseline), <<>>, InOrder(Events, <))
        found == Merged(Best(Len(all), all, [i \in DOMAIN all |-> all[i].start]))
        Event(o) == Draft(<<"semantic", o.label, Day(o.start)>>, o.photos \cup ImagesInPeriod(o.start, o.end),
                          SurfaceDate(day, o.start), o.label)
    IN  Each(Best(MaxSemantics, found, [i \in DOMAIN found |-> -Cardinality(found[i].photos)]), Event)
=============================================================================
