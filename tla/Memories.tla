------------------------------- MODULE Memories -------------------------------
(***************************************************************************)
(* The contents of memories (utils/memory_curator.py, database/memories.py *)
(* and routes/memories.py).  The one worker process takes curation passes  *)
(* and rescorings off its queue; users look at memories, dismiss and       *)
(* delete them, and photos come and go, between any two of its database    *)
(* calls.  Who may start a pass, and when, is MemoryRuns.                   *)
(***************************************************************************)
EXTENDS StoryRules

CONSTANTS
    RecentDays,         \* RECENT_USE_WINDOW_DAYS
    InitialMemories,    \* in each scope, the memories at the start
    MaxPassesQueued     \* bound on curation passes

(* The columns of memories, and what is linked to the row. *)
Columns == {"viewed", "dismissed", "photos", "clips", "scores", "title", "start", "end",
            "cover", "score", "surface"}

PhotosOf(m) == DOMAIN m.scores

(* The memories at the start are as a pass leaves them. *)
ASSUME MemoriesAssumption ==
    \A s \in Scopes : \A k \in DOMAIN InitialMemories[s] : LET m == InitialMemories[s][k] IN
        /\ DOMAIN m = Columns
        /\ PhotosOf(m) \subseteq Photos /\ m.photos \in SetToSeqs(PhotosOf(m))
        /\ m.cover \in PhotosOf(m) \cup {None}
        /\ m.start # None => \A p \in PhotosOf(m) : TakenAt[p] # None /\ TakenAt[p] \in m.start .. m.end

VARIABLES
    memories,   \* memories, memory_images and memory_videos, by dedupe_key
    queue,      \* the executor's queue
    work,       \* what the worker is doing
    owed,       \* clusters just renamed whose rescoring is not queued yet
    curations,  \* how many passes have been submitted
    moved       \* history: a capture date changed since stale memories were dropped

memoryVars == <<memories, queue, work, owed, curations, moved>>

Triggers == <<"anniversary", "semantic", "import">>

Resting == [kind |-> "rest", stage |-> "none", trigger |-> 1, day |-> 0, drafts |-> <<>>,
            home |-> None, baseline |-> None, recents |-> {}, key |-> None, own |-> {}, made |-> None, todo |-> {},
            claimed |-> {}]

MemoriesInit ==
    /\ memories = InitialMemories[scope] /\ queue = <<>> /\ work = Resting /\ owed = {}
    /\ curations = 0 /\ moved = FALSE

---------------------------------------------------------------------------
(* Reading.                                                                *)

(* db_get_recently_used_image_ids *)
RecentlyUsed(day) ==
    UNION {PhotosOf(memories[k]) : k \in {l \in DOMAIN memories : memories[l].surface >= day - RecentDays}}

(* Mutant: a photo whose date was withdrawn is no reason to drop a memory. *)
StaleIfOutside ==
    {k \in DOMAIN memories : memories[k].start # None /\
        \E p \in PhotosOf(memories[k]) :
            taken[p] # None /\ taken[p] \notin memories[k].start .. memories[k].end}

(* db_delete_stale_memories *)
Stale ==
    {k \in DOMAIN memories : memories[k].start # None /\
        \E p \in PhotosOf(memories[k]) :
            taken[p] = None \/ taken[p] \notin memories[k].start .. memories[k].end}

(* db_get_surfaceable_memory: the best that is due and not yet seen. *)
Surfaceable ==
    {k \in DOMAIN memories : ~memories[k].viewed /\ ~memories[k].dismissed /\ memories[k].surface <= today}
Todays ==
    {k \in Surfaceable : \A l \in Surfaceable :
        \/ memories[k].surface > memories[l].surface
        \/ memories[k].surface = memories[l].surface /\ memories[k].score >= memories[l].score}

---------------------------------------------------------------------------
(* Building one memory.                                                    *)

(* The candidates of a draft.  A small pool is penalized for photos that   *)
(* were used lately; a large one does without them, its own excepted.      *)
Own(key) == IF key \in DOMAIN memories THEN PhotosOf(memories[key]) ELSE {}
Candidates(draft, recents) ==
    IF draft.key[1] = "anniversary" THEN draft.photos ELSE draft.photos \ (recents \ Own(draft.key))

(* score_candidates, with the penalty of a small pool. *)
Scores(draft, recents, home, rows) ==
    [p \in rows |-> IF draft.key[1] = "anniversary" /\ p \in recents
                    THEN Penalized(Score(p, home)) ELSE Score(p, home)]

(* The row, the ordered images and the clips of a memory of chosen. *)
MemoryOf(draft, score, chosen) ==
    LET timed == {p \in chosen : taken[p] # None}
        At(p) == IF p \in timed THEN taken[p] ELSE 0
        photos == InOrder(chosen, LAMBDA p, q : At(p) < At(q) \/ (At(p) = At(q) /\ score[p] > score[q]))
        best == Min({i \in DOMAIN photos : \A q \in chosen : score[photos[i]] >= score[q]})
        period == IF timed = {} THEN <<None, None>> ELSE <<Start(timed), End(timed)>>
    IN  [photos |-> photos, clips |-> IF timed = {} THEN {} ELSE ClipsFor(timed),
         scores |-> Restrict(score, chosen), start |-> period[1], end |-> period[2],
         title |-> IF draft.key[1] = "import" THEN TopLabel(chosen) ELSE draft.title,
         cover |-> photos[best], score |-> MemoryScore(chosen, score), surface |-> draft.surface]

(* Near-duplicates go, strangers to an import too, and of the rest some    *)
(* photos of every stretch of time are shown.                              *)
Trimmed(draft, score, distinct) ==
    IF Len(distinct) < MinImages THEN None
    ELSE MemoryOf(draft, score, SpreadOverTime(
             IF draft.key[1] = "import" THEN TrimIncoherent(distinct) ELSE distinct))

Ranked(draft, score) ==
    Trimmed(draft, score,
            SuppressNearDuplicates(InOrder(DOMAIN score, LAMBDA p, q : score[p] > score[q])))

(* What _build_memory makes of a draft, or None. *)
Built(draft, recents, home) ==
    LET rows == Candidates(draft, recents) \cap alive
    IN  IF Cardinality(rows) < MinImages THEN None ELSE Ranked(draft, Scores(draft, recents, home, rows))

---------------------------------------------------------------------------
(* A curation pass.                                                        *)

Submit(job) == queue' = Append(queue, job)

SubmitCuration ==
    /\ curations < MaxPassesQueued
    /\ curations' = curations + 1
    /\ Submit([kind |-> "curate", cluster |-> None])
    /\ UNCHANGED <<memories, work, owed, moved>>

Takes(kind) == work.kind = "rest" /\ queue # <<>> /\ Head(queue).kind = kind /\ queue' = Tail(queue)

(* Before anything is built the stale memories go; then the context of the *)
(* pass is read.                                                           *)
BeginCuration ==
    /\ Takes("curate")
    /\ memories' = [k \in DOMAIN memories \ Stale |-> memories[k]]
    /\ work' = [Resting EXCEPT !.kind = "curate", !.stage = "plan", !.day = today,
                               !.home = Home, !.baseline = Baseline]
    /\ moved' = FALSE
    /\ UNCHANGED <<owed, curations>>

(* The next draft, or the next trigger, or the end. *)
Onward(w) ==
    IF w.drafts # <<>> THEN [w EXCEPT !.stage = "build", !.made = None]
    ELSE IF w.trigger = Len(Triggers) THEN Resting
    ELSE [w EXCEPT !.stage = "plan", !.trigger = @ + 1, !.made = None]

DraftsFor(trigger, day, baseline) ==
    CASE trigger = "anniversary" -> Anniversaries(day)
      [] trigger = "semantic"    -> Semantics(day, baseline)
      [] trigger = "import"      -> Imports(day)

(* Mutant: what was used lately is read once, for all triggers. *)
PlanWithFirstRecents ==
    /\ work.kind = "curate" /\ work.stage = "plan"
    /\ work' = Onward([work EXCEPT !.drafts = DraftsFor(Triggers[work.trigger], work.day, work.baseline),
                          !.recents = IF work.trigger = 1 THEN RecentlyUsed(work.day) ELSE @])
    /\ UNCHANGED <<memories, queue, owed, curations, moved>>

(* A trigger begins with the photos used lately, the ones that an earlier  *)
(* trigger of this pass has just claimed included.                         *)
Plan ==
    /\ work.kind = "curate" /\ work.stage = "plan"
    /\ work' = Onward([work EXCEPT !.drafts = DraftsFor(Triggers[work.trigger], work.day, work.baseline),
                                   !.recents = RecentlyUsed(work.day)])
    /\ UNCHANGED <<memories, queue, owed, curations, moved>>

(* The reads of _build_memory. *)
Build ==
    /\ work.kind = "curate" /\ work.stage = "build"
    /\ LET draft == Head(work.drafts)
           made == Built(draft, work.recents, work.home)
           rest == [work EXCEPT !.drafts = Tail(@), !.key = draft.key, !.made = made, !.own = Own(draft.key)]
       IN  work' = IF made = None THEN Onward(rest) ELSE [rest EXCEPT !.stage = "write"]
    /\ UNCHANGED <<memories, queue, owed, curations, moved>>

Written(made, old) ==
    [viewed |-> old.viewed, dismissed |-> old.dismissed, photos |-> made.photos, clips |-> made.clips,
     scores |-> made.scores, title |-> made.title, start |-> made.start, end |-> made.end,
     cover |-> made.cover, score |-> made.score, surface |-> made.surface]

WithMemory(key, row) == [k \in DOMAIN memories \cup {key} |-> IF k = key THEN row ELSE memories[k]]

(* Mutant: the old row is replaced, not updated. *)
ReplaceMemory ==
    /\ work.kind = "curate" /\ work.stage = "write"
    /\ LET new == [viewed |-> FALSE, dismissed |-> FALSE]
       IN  IF PhotosOf(work.made) \subseteq alive
           THEN /\ memories' = WithMemory(work.key, Written(work.made, new))
                /\ work' = Onward([work EXCEPT !.claimed = @ \cup {<<work.trigger, work.key>>}])
           ELSE memories' = memories /\ work' = Onward(work)
    /\ UNCHANGED <<queue, owed, curations, moved>>

(* db_upsert_memory: one transaction, which a photo that is gone undoes;   *)
(* what the user has said of the memory stays.                             *)
UpsertMemory ==
    /\ work.kind = "curate" /\ work.stage = "write"
    /\ LET old == IF work.key \in DOMAIN memories THEN memories[work.key]
                  ELSE [viewed |-> FALSE, dismissed |-> FALSE]
       IN  IF PhotosOf(work.made) \subseteq alive
           THEN /\ memories' = WithMemory(work.key, Written(work.made, old))
                /\ work' = Onward([work EXCEPT !.claimed = @ \cup {<<work.trigger, work.key>>}])
           ELSE memories' = memories /\ work' = Onward(work)
    /\ UNCHANGED <<queue, owed, curations, moved>>

---------------------------------------------------------------------------
(* Rescoring, after a person was named.                                    *)

SubmitRescore(c) ==
    /\ c \in owed
    /\ owed' = owed \ {c}
    /\ Submit([kind |-> "rescore", cluster |-> c])
    /\ UNCHANGED <<memories, work, curations, moved>>

(* db_get_memory_ids_for_cluster *)
BeginRescore ==
    /\ Takes("rescore")
    /\ LET theirs == {ImageOf[f] : f \in FacesOf(Head(queue).cluster)}
           todo == {k \in DOMAIN memories : PhotosOf(memories[k]) \cap theirs # {}}
       IN  work' = IF todo = {} THEN Resting
                   ELSE [Resting EXCEPT !.kind = "rescore", !.stage = "read", !.todo = todo, !.home = Home]
    /\ UNCHANGED <<memories, owed, curations, moved>>

RescoreNext(w) == IF w.todo = {} THEN Resting ELSE [w EXCEPT !.stage = "read", !.made = None]

ReadScores(k) ==
    /\ work.kind = "rescore" /\ work.stage = "read" /\ k \in work.todo
    /\ LET photos == IF k \in DOMAIN memories THEN PhotosOf(memories[k]) ELSE {}
           score == [p \in photos |-> Score(p, work.home)]
           rest == [work EXCEPT !.todo = @ \ {k}, !.key = k]
       IN  work' = IF photos = {} THEN RescoreNext(rest)
                   ELSE [rest EXCEPT !.stage = "write",
                            !.made = [scores |-> score, score |-> MemoryScore(photos, score),
                                      cover |-> InOrder(photos, LAMBDA p, q : score[p] > score[q])[1]]]
    /\ UNCHANGED <<memories, queue, owed, curations, moved>>

(* Mutant: only what the memory's own row holds is written. *)
RescoredRow(m, made) == [m EXCEPT !.cover = made.cover, !.score = made.score]

Rescored(m, made) ==
    [m EXCEPT !.scores = [p \in PhotosOf(m) |-> IF p \in DOMAIN made.scores THEN made.scores[p] ELSE @[p]],
              !.cover = made.cover, !.score = made.score]

(* Mutant: the connection does not enforce foreign keys. *)
WriteScoresUnchecked ==
    /\ work.kind = "rescore" /\ work.stage = "write"
    /\ memories' = IF work.key \in DOMAIN memories
                   THEN [memories EXCEPT ![work.key] = Rescored(@, work.made)] ELSE memories
    /\ work' = RescoreNext(work)
    /\ UNCHANGED <<queue, owed, curations, moved>>

(* db_update_memory_scores: a cover that is gone undoes all of it. *)
WriteScores ==
    /\ work.kind = "rescore" /\ work.stage = "write"
    /\ memories' = IF work.key \in DOMAIN memories /\ work.made.cover \in alive
                   THEN [memories EXCEPT ![work.key] = Rescored(@, work.made)] ELSE memories
    /\ work' = RescoreNext(work)
    /\ UNCHANGED <<queue, owed, curations, moved>>

WorkerStep ==
    \/ BeginCuration \/ Plan \/ Build \/ UpsertMemory
    \/ BeginRescore \/ (\E k \in work.todo : ReadScores(k)) \/ WriteScores

---------------------------------------------------------------------------
(* Users and scans.                                                        *)

Marks(k, viewed, dismissed) ==
    /\ memories' = [memories EXCEPT ![k].viewed = viewed, ![k].dismissed = dismissed]
    /\ UNCHANGED <<queue, work, owed, curations, moved>>

OpenTodays == Happens /\ \E k \in Todays : Marks(k, TRUE, FALSE)

(* update_memory, of a memory that exists when the UPDATE runs. *)
Dismiss(k) == Happens /\ k \in DOMAIN memories /\ Marks(k, memories[k].viewed, ~memories[k].dismissed)

DeleteMemory(k) ==
    /\ Happens /\ k \in DOMAIN memories
    /\ memories' = [l \in DOMAIN memories \ {k} |-> memories[l]]
    /\ UNCHANGED <<queue, work, owed, curations, moved>>

(* memory_images cascades, the cover is set to NULL. *)
CascadeToMemories(p) ==
    /\ memories' = [k \in DOMAIN memories |->
          [memories[k] EXCEPT !.photos = Those(@, Range(@) \ {p}),
                              !.scores = [q \in DOMAIN @ \ {p} |-> @[q]],
                              !.cover = IF @ = p THEN None ELSE @]]
    /\ UNCHANGED <<queue, work, owed, curations, moved>>

NoteMove == moved' = TRUE /\ UNCHANGED <<memories, queue, work, owed, curations>>
NoteRename(c) == owed' = owed \cup {c} /\ UNCHANGED <<memories, queue, work, curations, moved>>

---------------------------------------------------------------------------
(* A memory shows photos that exist, in one order, and its cover is one of *)
(* them, although covers are computed from what was read before.           *)
MemoriesShowPhotos ==
    \A k \in DOMAIN memories : LET m == memories[k] IN
        /\ PhotosOf(m) \subseteq alive /\ Range(m.photos) = PhotosOf(m)
        /\ Len(m.photos) = Cardinality(PhotosOf(m))
        /\ m.cover # None => m.cover \in PhotosOf(m)

(* As long as no date has moved since stale memories were last dropped, no *)
(* memory claims a photo from outside its period or without a date         *)
(* (database/memories.py:420-427).                                         *)
NothingStale ==
    ~moved => \A k \in DOMAIN memories : LET m == memories[k] IN
        m.start # None => \A p \in PhotosOf(m) : taken[p] # None /\ taken[p] \in m.start .. m.end

(* "Later triggers must not reuse what an earlier one just claimed"        *)
(* (memory_curator.py:1022): what a memory takes beyond its own is in none *)
(* that an earlier trigger of the same pass has written.                   *)
LaterTriggersSpareClaims ==
    [][work.stage = "write" /\ work.kind = "curate" /\ work.key[1] # "anniversary" =>
          LET earlier == {c[2] : c \in {d \in work.claimed : d[1] < work.trigger}} \cap DOMAIN memories
          IN  \A k \in earlier \ {work.key} : memories' # memories /\ events' = events =>
                  (PhotosOf(work.made) \ work.own) \cap PhotosOf(memories[k]) = {}]_memoryVars

(* What a user has said of a memory survives whatever the worker does to   *)
(* it, as long as the memory is there.                                     *)
UserStateSurvives ==
    [][\A k \in DOMAIN memories \cap DOMAIN memories' : events' = events =>
          /\ memories'[k].viewed = memories[k].viewed
          /\ memories'[k].dismissed = memories[k].dismissed]_memoryVars

(* "Naming a person raises the known_people signal for every photo they    *)
(* appear in" (routes/face_clusters.py:123-125): once the worker rests and *)
(* no photo was deleted under it, every stored score is the one the names  *)
(* give, or that with the penalty for recent use.                          *)
NamesReachMemories ==
    About("memories") /\ work.kind = "rest" /\ queue = <<>> /\ owed = {} /\ alive = Photos =>
        LET home == Home
        IN  \A k \in DOMAIN memories : \A p \in PhotosOf(memories[k]) :
                LET score == Score(p, home)
                IN  memories[k].scores[p] \in {score, Penalized(score)}
=============================================================================
