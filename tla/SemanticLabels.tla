--------------------------- MODULE SemanticLabels ---------------------------
(***************************************************************************)
(* The vocabulary of semantic labels and the scoring of stored vectors     *)
(* against it (utils/semantic_labels.py, database/semantic_labels.py).     *)
(* What a score depends on is fingerprinted; a vector whose stamp is not   *)
(* the current fingerprint is scored again.                                *)
(***************************************************************************)
EXTENDS PhotoIndex, VideoIndex

CONSTANTS
    Labels,         \* the names labels can have
    Owned,          \* names that a YOLO class already has
    Seeds,          \* the vocabularies that releases ship: [desc, threshold] by label
    PhotoScores,    \* PhotoScores[c][l]: how well content c matches label l
    FrameScores,    \* FrameScores[c][i][l]: the same of keyframe i
    TopK            \* SEMANTIC_SCORE_TOP_K and VIDEO_TAG_TOP_K

VARIABLES label, installed      \* rows of semantic_labels; the models on disk

labelVars == <<label, installed>>

---------------------------------------------------------------------------
(* db_upsert_semantic_vocabulary.                                          *)

Updated(row, seed) ==
    IF row = None \/ row.desc # seed.desc
    THEN [active |-> TRUE, desc |-> seed.desc, threshold |-> seed.threshold, vector |-> None]
    ELSE [row EXCEPT !.active = TRUE, !.threshold = seed.threshold]

Retired(row) == IF row = None THEN None ELSE [row EXCEPT !.active = FALSE]

Synced(rows, seed) ==
    [l \in Labels |-> IF l \in DOMAIN seed \ Owned THEN Updated(rows[l], seed[l]) ELSE Retired(rows[l])]

LabelInit ==
    /\ \E seed \in Seeds : label = Synced([l \in Labels |-> None], seed)
    /\ installed \in {{}, {"vision", "text"}}

(* semantic_util_build_label_embeddings encodes the labels that have no    *)
(* vector, if the text model is there.                                     *)
BuildLabelEmbeddings ==
    /\ Starts("buildLabels")
    /\ EndPass
    /\ \/ /\ Works
          /\ label' = [l \in Labels |->
                IF "text" \in installed /\ label[l] # None /\ label[l].active
                THEN [label[l] EXCEPT !.vector = label[l].desc] ELSE label[l]]
       \/ Fails /\ UNCHANGED label
    /\ UNCHANGED <<library, file, folder, thumbs, uuids, photoVars, videoVars, installed>>

---------------------------------------------------------------------------
(* The scoring passes.                                                     *)

Usable == {l \in Labels : label[l] # None /\ label[l].active /\ label[l].vector # None}

(* _scoring_signature: the label vectors and thresholds it goes with. *)
Signature == [l \in Usable |-> <<label[l].vector, label[l].threshold>>]

(* _load_label_scoring_context: without a label there is nothing to do. *)
LoadContext(pass, pc) ==
    /\ Starts(pass)
    /\ IF Usable = {} THEN EndPass ELSE Goes([task EXCEPT !.pc = pc, !.ctx = Signature])
    /\ UNCHANGED <<library, file, folder, thumbs, uuids, count, photoVars, videoVars, labelVars>>

(* The K best of a set of tuples whose second component is the score. *)
Best(S) ==
    CHOOSE T \in kSubset(IF Cardinality(S) < TopK THEN Cardinality(S) ELSE TopK, S) :
        \A x \in T, y \in S \ T : x[2] >= y[2]

PhotoTags(c, sig) == Best({<<l, PhotoScores[c][l]>> : l \in {k \in DOMAIN sig : PhotoScores[c][k] >= sig[k][2]}})

(* A label's frames, its best score among them, and whether enough agree. *)
VideoTags(shown, sig) ==
    LET hits(l)  == {k \in DOMAIN shown : FrameScores[shown[k][1]][shown[k][2]][l] >= sig[l][2]}
        best(l)  == Max({FrameScores[shown[k][1]][shown[k][2]][l] : k \in hits(l)})
        count_(l) == Cardinality(hits(l))
    IN  Best({<<l, best(l), count_(l)>> :
                 l \in {m \in DOMAIN sig : count_(m) >= Required(Cardinality(DOMAIN shown))}})

(* db_get_embeddings_needing_scoring; the loop ends when there are none. *)
ReadUnscoredImages ==
    /\ At("scorePhotos", "score")
    /\ LET need == {p \in PhotoRows : photo[p].vector # None /\ photo[p].stamp # task.ctx}
       IN  IF need = {} THEN EndPass
           ELSE Goes([task EXCEPT !.pc = "write",
                                  !.got = [p \in need |-> PhotoTags(photo[p].vector, task.ctx)]])
    /\ UNCHANGED <<library, file, folder, thumbs, uuids, count, photoVars, videoVars, labelVars>>

(* db_write_image_semantic_scores: one transaction for all of them, which  *)
(* a tag for a photo that is gone undoes.                                  *)
WriteImageScores ==
    /\ At("scorePhotos", "write")
    /\ LET dead == {p \in DOMAIN task.got : p \notin PhotoRows /\ task.got[p] # {}}
       IN  \/ /\ Works
              /\ dead = {}
              /\ photo' = [p \in Photos |-> IF p \in DOMAIN task.got \cap PhotoRows
                              THEN [photo[p] EXCEPT !.tags = task.got[p], !.stamp = task.ctx] ELSE photo[p]]
              /\ Goes([task EXCEPT !.pc = "score", !.got = None])
           \/ Works /\ dead # {} /\ EndPass /\ UNCHANGED photo
           \/ Fails /\ EndPass /\ UNCHANGED photo
    /\ UNCHANGED <<library, file, folder, thumbs, uuids, faces, videoVars, labelVars>>

Embedded(v) == {k \in DOMAIN video[v].frames : video[v].frames[k].vector # None}

(* The vectors of a video, by what they show. *)
Shown(v) == [k \in Embedded(v) |-> <<video[v].frames[k].vector, video[v].frames[k].idx>>]

ReadUnscoredVideos ==
    /\ At("scoreVideos", "score")
    /\ LET need == {v \in VideoRows : \E k \in Embedded(v) : video[v].frames[k].stamp # task.ctx}
       IN  IF need = {} THEN EndPass ELSE Goes([task EXCEPT !.pc = "frames", !.todo = need])
    /\ UNCHANGED <<library, file, folder, thumbs, uuids, count, photoVars, videoVars, labelVars>>

ScoreFrames ==
    /\ At("scoreVideos", "frames")
    /\ IF task.todo = {} THEN Goto("score")
       ELSE \E v \in task.todo :
               Goes([task EXCEPT !.pc = "write", !.cur = v, !.todo = @ \ {v},
                        !.got = IF v \in VideoRows THEN VideoTags(Shown(v), task.ctx) ELSE {}])
    /\ UNCHANGED <<library, file, folder, thumbs, uuids, count, photoVars, videoVars, labelVars>>

(* Mutant: the tags of the last vocabulary are not deleted. *)
ScoredOver(row, tags, sig) ==
    [row EXCEPT !.tags = {t \in @ : \A u \in tags : u[1] # t[1]} \cup tags,
                !.frames = [k \in DOMAIN @ |-> IF @[k].vector = None THEN @[k] ELSE [@[k] EXCEPT !.stamp = sig]]]

(* Mutant: a video without a tag is not stamped. *)
ScoredIfTagged(row, tags, sig) ==
    IF tags = {} THEN [row EXCEPT !.tags = {}]
    ELSE [row EXCEPT !.tags = tags,
                     !.frames = [k \in DOMAIN @ |-> IF @[k].vector = None THEN @[k] ELSE [@[k] EXCEPT !.stamp = sig]]]

(* db_write_video_semantic_scores stamps every frame of the video. *)
Scored(row, tags, sig) ==
    [row EXCEPT !.tags = tags,
                !.frames = [k \in DOMAIN @ |-> IF @[k].vector = None THEN @[k] ELSE [@[k] EXCEPT !.stamp = sig]]]

WriteVideoScores ==
    /\ At("scoreVideos", "write")
    /\ \/ /\ Works
          /\ task.cur \in VideoRows \/ task.got = {}
          /\ video' = IF task.cur \in VideoRows
                      THEN [video EXCEPT ![task.cur] = Scored(@, task.got, task.ctx)] ELSE video
          /\ Goes([task EXCEPT !.pc = "frames", !.cur = None, !.got = None])
       \/ Works /\ task.cur \notin VideoRows /\ task.got # {} /\ EndPass /\ UNCHANGED video
       \/ Fails /\ EndPass /\ UNCHANGED video
    /\ UNCHANGED <<library, file, folder, thumbs, uuids, photoVars, jpegs, interval, purge, labelVars>>

LabelStep ==
    \/ BuildLabelEmbeddings
    \/ LoadContext("scorePhotos", "score") \/ ReadUnscoredImages \/ WriteImageScores
    \/ LoadContext("scoreVideos", "score") \/ ReadUnscoredVideos \/ ScoreFrames \/ WriteVideoScores
=============================================================================
