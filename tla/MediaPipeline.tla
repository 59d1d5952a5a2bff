---------------------------- MODULE MediaPipeline ----------------------------
(***************************************************************************)
(* The worker's passes over photos, videos and labels, one at a time in    *)
(* the sequences that the application submits, beside the requests of the  *)
(* other process and changes on disk; and the crash of the application,    *)
(* which loses what the worker had in memory and in its queue.             *)
(***************************************************************************)
EXTENDS SemanticLabels

vars == <<mediaVars, photoVars, videoVars, labelVars>>

(* A pass over a kind of which this library has nothing finds nothing to   *)
(* do and is left out.                                                     *)
PhotoPass(pass) == IF library \cap Photos # {} THEN <<pass>> ELSE <<>>
VideoPass(pass) == IF library \cap Videos # {} THEN <<pass>> ELSE <<>>

(* The sequences: routes and folders.py, the download of a model, startup. *)
TagSequence ==
    PhotoPass("tagPhotos") \o PhotoPass("embedPhotos") \o PhotoPass("scorePhotos")
       \o VideoPass("tagVideos") \o VideoPass("embedFrames") \o VideoPass("scoreVideos")
SyncSequence  == PhotoPass("scanPhotos") \o VideoPass("scanVideos") \o TagSequence
StartSequence == <<"buildLabels">> \o PhotoPass("scorePhotos") \o VideoPass("scoreVideos")
ModelSequence == <<"buildLabels">> \o PhotoPass("embedPhotos") \o PhotoPass("scorePhotos")

Init ==
    /\ MediaInit /\ PhotoInit /\ VideoInit /\ LabelInit

Submit(seq) == plan = <<>> /\ plan' = seq

(* A sync, or AI tagging enabled; later requests queue behind this one. *)
FolderSequence ==
    /\ folder # "gone"
    /\ \/ Submit(SyncSequence) /\ uuids + Cardinality(library) <= MaxUuids
       \/ Submit(TagSequence)
    /\ UNCHANGED <<library, file, folder, thumbs, uuids, task, count, photoVars, videoVars, labelVars>>

ModelsInstalled ==
    /\ Happens
    /\ installed = {} /\ installed' = {"vision", "text"}
    /\ Submit(ModelSequence)
    /\ UNCHANGED <<library, file, folder, thumbs, uuids, task, photoVars, videoVars, label>>

(* Deleting the folder deletes its rows and, by cascade, all that hangs on *)
(* them; no thumbnail and no keyframe.                                     *)
FolderDeleted ==
    /\ Happens
    /\ folder # "gone"
    /\ folder' = "gone"
    /\ Delete(PhotoRows)
    /\ video' = [v \in Videos |-> None]
    /\ UNCHANGED <<library, file, thumbs, uuids, plan, task, jpegs, interval, purge, labelVars>>

(* The application goes down and comes up again, perhaps in a release that *)
(* ships another vocabulary.                                               *)
Crash ==
    /\ Bounded /\ count.crashes < MaxCrashes
    /\ count' = [count EXCEPT !.crashes = @ + 1]
    /\ \E seed \in Seeds : label' = Synced(label, seed)
    /\ plan' = StartSequence
    /\ task' = Idle
    /\ purge' = "idle"
    /\ UNCHANGED <<library, file, folder, thumbs, uuids, photoVars, video, jpegs, interval, installed>>

Worker ==
    \/ PhotoStep(installed) /\ UNCHANGED <<videoVars, labelVars>>
    \/ VideoStep(installed) /\ UNCHANGED <<photoVars, labelVars>>
    \/ LabelStep

Requests ==
    \/ FolderSequence \/ ModelsInstalled \/ FolderDeleted
    \/ (FileChanges \/ FolderToggles) /\ UNCHANGED <<photoVars, videoVars, labelVars>>
    \/ ToggleImageFavourite /\ UNCHANGED <<videoVars, labelVars>>
    \/ (ToggleVideoFavourite \/ IntervalChanges \/ PurgeFiles \/ ClearFramePaths)
          /\ UNCHANGED <<photoVars, labelVars>>

Next == Worker \/ Requests \/ Crash

Spec == Init /\ [][Next]_vars

(* The worker process keeps taking steps. *)
FairSpec == Spec /\ WF_vars(Worker)

---------------------------------------------------------------------------
(* Type correctness.                                                       *)

Frame(f) ==
    /\ f.idx \in 1..MaxFrames /\ {f.path, f.embedded} \subseteq BOOLEAN
    /\ f.vector \in Contents \cup {None}

PhotoOK(row) ==
    /\ row.thumb \in 1..uuids /\ {row.tagged, row.embedded, row.favourite} \subseteq BOOLEAN
    /\ row.vector \in Contents \cup {Opaque, None}

VideoOK(row) ==
    /\ row.thumb \in 1..uuids \cup {None} /\ {row.tagged, row.favourite} \subseteq BOOLEAN
    /\ \A k \in DOMAIN row.frames : Frame(row.frames[k])

(* The rows, the files and the worker's place are of their types; a frame  *)
(* index never exceeds the cap on frames per video.                        *)
TypeOK ==
    /\ uuids \in 0..MaxUuids /\ thumbs \subseteq 1..uuids
    /\ plan \in Seq(Passes) /\ folder \in {"plain", "ai", "gone"}
    /\ \A p \in PhotoRows : PhotoOK(photo[p])
    /\ \A v \in VideoRows : VideoOK(video[v])

---------------------------------------------------------------------------
(* Safety.                                                                 *)

(* What is marked as done has its effect in the database, across crashes,  *)
(* failed statements and deletions: an embedded photo or frame has a       *)
(* vector, and while nobody touches the files or the cache and no          *)
(* statement fails, a tagged photo has the objects its file shows.         *)
FlagsFollowEffects ==
    /\ \A p \in PhotoRows :
          /\ photo[p].embedded => photo[p].vector # None
          /\ photo[p].tagged /\ count.events = 0 /\ count.faults = 0 =>
                photo[p].objects = ObjectsIn[file[p]]
    /\ \A v \in VideoRows :
          /\ \A k \in DOMAIN video[v].frames :
                video[v].frames[k].embedded => video[v].frames[k].vector # None
          /\ video[v].tagged /\ CvReads(file[v]) /\ count.events = 0 /\ count.faults = 0 =>
                video[v].objects = AggregateClasses([i \in 1..Len(video[v].frames) |-> FrameObjects[file[v]][i]])

(* Only a crash or a failed statement between its steps makes the worker   *)
(* detect the faces of a photo again and store them a second time.         *)
FacesRepeatOnlyAfterAFault ==
    \A p \in Photos :
        faces[p] <= (1 + count.faults + count.crashes) * Max({FacesIn[c] : c \in Contents})

(* When all vectors of a video carry the current fingerprint, its tags are *)
(* what these vectors earn it under the current labels.                    *)
VideoTagsFollowFrames ==
    \A v \in VideoRows :
        Embedded(v) # {} /\ (\A k \in Embedded(v) : video[v].frames[k].stamp = Signature) =>
            video[v].tags = VideoTags(Shown(v), Signature)

(* The keyframe rows of a video are one sample: none is there twice, even  *)
(* when a purge has taken the paths that tell rows apart.                  *)
FramesAreOneSample ==
    \A v \in VideoRows : count.faults = 0 =>
        \A j, k \in DOMAIN video[v].frames :
            video[v].frames[j].idx = video[v].frames[k].idx => j = k

---------------------------------------------------------------------------
(* Action and temporal properties.                                         *)

(* The clean-up after a scan takes no poster that a row still shows:       *)
(* neither when the new posters replaced the old ones nor when the         *)
(* transaction failed and the old ones stayed.                             *)
PostersInUseStay ==
    [][At("scanVideos", "posters") =>
          \A v \in VideoRows : video[v].thumb \in thumbs => video[v].thumb \in thumbs']_vars

(* Whatever the worker was asked to do comes to its end; no scoring loop   *)
(* goes round for ever on a row it does not stamp.                         *)
SequencesEnd == (plan # <<>>) ~> (plan = <<>>)

(* A tagging pass that meets no fault tags every photo it has read that    *)
(* can be read: "Process all untagged images".                             *)
TaggingReachesEveryPhoto ==
    [][Head(plan \o <<None>>) = "tagPhotos" /\ plan' = Tail(plan) /\ UNCHANGED count =>
          \A p \in task.todo : CvReads(file[p]) /\ p \in PhotoRows => photo'[p].tagged]_vars

---------------------------------------------------------------------------
(* Refinement: what the listings show (db_get_all_images and the video     *)
(* counterpart, with their tags).                                          *)

ListedPhoto(row) ==
    [tagged |-> row.tagged, searchable |-> row.vector # None, favourite |-> row.favourite,
     objects |-> row.objects, tags |-> row.tags]

ListedVideo(row) ==
    [tagged |-> row.tagged, searchable |-> \E k \in DOMAIN row.frames : row.frames[k].vector # None,
     favourite |-> row.favourite, objects |-> row.objects, tags |-> row.tags]

Listing ==
    [m \in Photos \cup Videos |->
        IF m \in PhotoRows THEN ListedPhoto(photo[m])
        ELSE IF m \in VideoRows THEN ListedVideo(video[m]) ELSE None]

Items == INSTANCE MediaItems WITH Paths <- Photos \cup Videos, NotListed <- None, item <- Listing

(* The pipeline implements MediaItems: rescans keep what a medium has, a   *)
(* tagged one is never tagged or sampled again, labels come after vectors. *)
ImplementsItems == Items!Spec
=============================================================================
