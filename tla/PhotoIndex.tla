----------------------------- MODULE PhotoIndex -----------------------------
(***************************************************************************)
(* Photos through the pipeline (utils/images.py over database/images.py):  *)
(* the scan of a folder, tagging by objects and faces, embedding.  Every   *)
(* database function is one transaction on a connection of its own and one *)
(* step here, so a pass can lose the photo it works on between two of its  *)
(* steps, fail at any of them, or die.                                     *)
(***************************************************************************)
EXTENDS Media

CONSTANTS
    ObjectsIn,      \* the YOLO classes of each content
    Person,         \* class 0
    FacesIn         \* the faces of each content that pass the quality gate

ASSUME PhotoAssumption ==
    Contents # {} /\ IsFiniteSet(Contents) /\ FacesIn \in [Contents -> Nat]

VARIABLES
    photo,          \* the row of images at each path, or None
    faces           \* how many rows of faces name the photo last indexed there

photoVars == <<photo, faces>>

PhotoInit == photo = [p \in Photos |-> None] /\ faces = [p \in Photos |-> 0]

PhotoRows == {p \in Photos : photo[p] # None}

(* A row as it is inserted; vector, stamp and tags are the rows of         *)
(* image_embeddings and image_classes that belong to it.                   *)
NewPhoto(thumb) ==
    [thumb |-> thumb, tagged |-> FALSE, embedded |-> FALSE, favourite |-> FALSE,
     objects |-> {}, vector |-> None, stamp |-> None, tags |-> {}]

Delete(ps) ==
    /\ photo' = [p \in Photos |-> IF p \in ps THEN None ELSE photo[p]]
    /\ faces' = [p \in Photos |-> IF p \in ps /\ photo[p] # None THEN 0 ELSE faces[p]]

---------------------------------------------------------------------------
(* image_util_process_folder_images.                                       *)

(* Every photo PIL can verify gets a new uuid and a new thumbnail, also    *)
(* when its row exists.                                                    *)
PrepareImages ==
    /\ Starts("scanPhotos")
    /\ LET found == {p \in Photos : PilReads(file[p])}
           fresh == (uuids + 1)..(uuids + Cardinality(found))
       IN  /\ uuids + Cardinality(found) <= MaxUuids
           /\ \E recs \in [found -> fresh] :
                 /\ {recs[p] : p \in found} = fresh
                 /\ Goes([task EXCEPT !.pc = "obsolete", !.recs = recs])
           /\ thumbs' = thumbs \cup fresh
           /\ uuids' = uuids + Cardinality(found)
    /\ UNCHANGED <<library, file, folder, count, photoVars>>

(* image_util_remove_obsolete_images: the thumbnail goes before the row. *)
RemoveObsoleteImages ==
    /\ At("scanPhotos", "obsolete")
    /\ LET gone == {p \in PhotoRows : file[p] = NoFile}
       IN  /\ thumbs' = thumbs \ {photo[p].thumb : p \in gone}
           /\ Goes([task EXCEPT !.pc = "delete", !.todo = gone])
    /\ UNCHANGED <<library, file, folder, uuids, count, photoVars>>

DeleteImages ==
    /\ At("scanPhotos", "delete")
    /\ Goto("insert")
    /\ \/ Works /\ Delete(task.todo)
       \/ Fails /\ UNCHANGED photoVars
    /\ UNCHANGED <<library, file, folder, thumbs, uuids>>

(* Mutant: the upsert takes isTagged from the record. *)
UpsertedUntagged(row, thumb) ==
    IF row = None THEN NewPhoto(thumb) ELSE [row EXCEPT !.thumb = thumb, !.tagged = FALSE]

(* The upsert by path: an existing row keeps its id, and with it           *)
(* everything but the thumbnail.                                           *)
Upserted(row, thumb) == IF row = None THEN NewPhoto(thumb) ELSE [row EXCEPT !.thumb = thumb]

(* db_bulk_insert_images: one transaction, which the foreign key on the    *)
(* folder undoes when the folder is gone.                                  *)
BulkInsertImages ==
    /\ At("scanPhotos", "insert")
    /\ EndPass
    /\ \/ /\ Works
          /\ photo' = [p \in Photos |-> IF folder # "gone" /\ p \in DOMAIN task.recs
                                           THEN Upserted(photo[p], task.recs[p]) ELSE photo[p]]
       \/ Fails /\ UNCHANGED photo
    /\ UNCHANGED <<library, file, folder, thumbs, uuids, faces>>

---------------------------------------------------------------------------
(* image_util_process_untagged_images.                                     *)

GetUntaggedImages ==
    /\ Starts("tagPhotos")
    /\ NextOf({p \in PhotoRows : folder = "ai" /\ ~photo[p].tagged}, "classify")
    /\ UNCHANGED <<library, file, folder, thumbs, uuids, count, photoVars>>

(* get_classes returns None for a file cv2 cannot read; len(None) raises,  *)
(* and the pass is over for all the photos it has read.                    *)
ClassifyFails ==
    /\ At("tagPhotos", "classify")
    /\ \E p \in task.todo : ~CvReads(file[p])
    /\ EndPass
    /\ UNCHANGED <<library, file, folder, thumbs, uuids, count, photoVars>>

(* The classes are stored, unless the photo has been deleted or the        *)
(* statement fails: either is logged and the pass goes on.                 *)
Classify ==
    /\ At("tagPhotos", "classify")
    /\ \E p \in task.todo :
          /\ CvReads(file[p])
          /\ Goes([task EXCEPT !.cur = p,
                               !.pc = IF Person \in ObjectsIn[file[p]] THEN "detect" ELSE "flag"])
          /\ \/ Works /\ photo' = IF p \in PhotoRows
                                  THEN [photo EXCEPT ![p].objects = @ \cup ObjectsIn[file[p]]]
                                  ELSE photo
             \/ Fails /\ UNCHANGED photo
    /\ UNCHANGED <<library, file, folder, thumbs, uuids, faces>>

(* FaceDetector.detect_faces reads the file again. *)
DetectFaces ==
    /\ At("tagPhotos", "detect")
    /\ LET c == file[task.cur]
       IN  IF CvReads(c) /\ FacesIn[c] > 0 THEN Goes([task EXCEPT !.pc = "face", !.got = FacesIn[c]])
                                           ELSE Goto("flag")
    /\ UNCHANGED <<library, file, folder, thumbs, uuids, count, photoVars>>

(* One row per face, each in a transaction of its own that checks no       *)
(* foreign key; an error ends the pass.                                    *)
InsertFace ==
    /\ At("tagPhotos", "face")
    /\ \/ /\ Works
          /\ faces' = [faces EXCEPT ![task.cur] = @ + 1]
          /\ Goes([task EXCEPT !.got = @ - 1, !.pc = IF task.got = 1 THEN "flag" ELSE "face"])
       \/ Fails /\ EndPass /\ UNCHANGED faces
    /\ UNCHANGED <<library, file, folder, thumbs, uuids, photo>>

(* Mutant: the flag is not stored. *)
NotFlagged(row) == row

Flagged(row) == IF row = None THEN None ELSE [row EXCEPT !.tagged = TRUE]

UpdateImageTagged ==
    /\ At("tagPhotos", "flag")
    /\ NextOf(task.todo \ {task.cur}, "classify")
    /\ \/ Works /\ photo' = [photo EXCEPT ![task.cur] = Flagged(@)]
       \/ Fails /\ UNCHANGED photo
    /\ UNCHANGED <<library, file, folder, thumbs, uuids, faces>>

---------------------------------------------------------------------------
(* image_util_process_unembedded_images.                                   *)

GetUnembeddedImages(installed) ==
    /\ Starts("embedPhotos")
    /\ NextOf({p \in PhotoRows : "vision" \in installed /\ folder = "ai" /\ ~photo[p].embedded}, "embed")
    /\ UNCHANGED <<library, file, folder, thumbs, uuids, count, photoVars>>

(* db_upsert_image_embeddings.  The signature the old vector was scored    *)
(* against stays.                                                          *)
WithVector(row, c) == [row EXCEPT !.vector = c]

(* Mutant: photos are marked in a step before the one that stores their    *)
(* vectors.                                                                *)
MarkFirst ==
    /\ At("embedPhotos", "embed")
    /\ Works
    /\ photo' = [p \in Photos |-> IF p \in task.todo \cap PhotoRows
                                     THEN [photo[p] EXCEPT !.embedded = TRUE] ELSE photo[p]]
    /\ EndPass
    /\ UNCHANGED <<library, file, folder, thumbs, uuids, faces>>

(* One batch: the photos PIL reads get a vector; the foreign key of a      *)
(* photo deleted meanwhile ends the pass, as any other error does.         *)
EmbedImages ==
    /\ At("embedPhotos", "embed")
    /\ \E batch \in BatchesOf(task.todo) :
          LET good == {p \in batch : PilReads(file[p])}
              rest == task.todo \ batch
          IN  IF good = {} THEN NextOf(rest, "embed") /\ UNCHANGED <<photo, count>>
              ELSE \/ /\ Works
                      /\ good \subseteq PhotoRows
                      /\ photo' = [p \in Photos |-> IF p \in good THEN WithVector(photo[p], file[p])
                                                                  ELSE photo[p]]
                      /\ Goes([task EXCEPT !.pc = "mark", !.todo = rest, !.got = good])
                   \/ /\ Works /\ ~(good \subseteq PhotoRows) /\ EndPass /\ UNCHANGED photo
                   \/ Fails /\ EndPass /\ UNCHANGED photo
    /\ UNCHANGED <<library, file, folder, thumbs, uuids, faces>>

MarkImagesEmbedded ==
    /\ At("embedPhotos", "mark")
    /\ NextOf(task.todo, "embed")
    /\ \/ Works /\ photo' = [p \in Photos |-> IF p \in task.got \cap PhotoRows
                                THEN [photo[p] EXCEPT !.embedded = TRUE] ELSE photo[p]]
       \/ Fails /\ UNCHANGED photo
    /\ UNCHANGED <<library, file, folder, thumbs, uuids, faces>>

PhotoStep(installed) ==
    \/ PrepareImages \/ RemoveObsoleteImages \/ DeleteImages \/ BulkInsertImages
    \/ GetUntaggedImages \/ ClassifyFails \/ Classify \/ DetectFaces \/ InsertFace \/ UpdateImageTagged
    \/ GetUnembeddedImages(installed) \/ EmbedImages \/ MarkImagesEmbedded

---------------------------------------------------------------------------
(* Requests.                                                               *)

(* POST /images/toggle-favourite. *)
ToggleImageFavourite ==
    /\ Happens
    /\ \E p \in PhotoRows : photo' = [photo EXCEPT ![p].favourite = ~@]
    /\ UNCHANGED <<library, file, folder, thumbs, uuids, plan, task, faces>>
=============================================================================
