----------------------------- MODULE VideoIndex -----------------------------
(***************************************************************************)
(* Videos through the pipeline (utils/videos.py over database/videos.py    *)
(* and database/video_frames.py): the scan, which leaves unchanged files   *)
(* alone; tagging by keyframes sampled to disk; the embedding of those     *)
(* keyframes; and the purge of the keyframe cache, which a request runs    *)
(* beside the worker.                                                      *)
(***************************************************************************)
EXTENDS Media

CONSTANTS
    Duration,       \* the length of each content
    FrameObjects,   \* FrameObjects[c][i]: the YOLO classes in keyframe i of content c
    Intervals,      \* the values of the preference Video_Frame_Interval
    DefaultInterval,
    MaxFrames,      \* VIDEO_MAX_FRAMES_PER_VIDEO
    MinSupport      \* VIDEO_TAG_MIN_FRAME_SUPPORT

ASSUME VideoAssumption ==
    MaxFrames \in Nat \ {0} /\ MinSupport \in Nat \ {0} /\ DefaultInterval \in Intervals /\ Intervals \subseteq Nat \ {0}

VARIABLES
    video,          \* the row of videos at each path, or None
    jpegs,          \* the keyframes on disk: <<index, content they show>>
    interval,       \* the preference
    purge           \* where a purge request is

videoVars == <<video, jpegs, interval, purge>>

VideoInit ==
    /\ video = [v \in Videos |-> None]
    /\ jpegs = [v \in Videos |-> {}]
    /\ interval = DefaultInterval
    /\ purge = "idle"

VideoRows == {v \in Videos : video[v] # None}

(* print is the size and modification time that the scan recorded. *)
NewVideo(thumb, print) ==
    [thumb |-> thumb, print |-> print, tagged |-> FALSE, favourite |-> FALSE,
     objects |-> {}, frames |-> <<>>, tags |-> {}]

(* A row of video_frames and the row of video_frame_embeddings it owns. *)
NewFrame(i) == [idx |-> i, path |-> TRUE, embedded |-> FALSE, vector |-> None, stamp |-> None]

---------------------------------------------------------------------------
(* Sampling.                                                               *)

(* Mutant: the interval is not stretched. *)
UnstretchedTimestamps(duration, every) ==
    {t \in {(2 * k + 1) * every * MaxFrames : k \in 0..duration} : t < 2 * MaxFrames * duration}

(* video_util_sample_frame_timestamps, in units of 1/(2*MaxFrames) of a    *)
(* second: midpoints of chunks whose length is stretched until MaxFrames   *)
(* of them cover the video.                                                *)
SampleTimestamps(duration, every) ==
    LET chunk == 2 * Max({every * MaxFrames, duration})
        whole == 2 * MaxFrames * duration
    IN  IF duration <= 0 THEN {0}
        ELSE IF whole <= chunk THEN {whole \div 2}
        ELSE {t \in {(chunk \div 2) + k * chunk : k \in 0..(MaxFrames - 1)} : t < whole}

(* video_util_aggregate_frame_classes: <<class, number of frames>>, kept   *)
(* when enough frames agree.                                               *)
Required(n) == IF n >= MinSupport + 1 THEN MinSupport ELSE 1

AggregateClasses(seen) ==
    LET Count(o) == Cardinality({i \in DOMAIN seen : o \in seen[i]})
    IN  {<<o, Count(o)>> : o \in {x \in UNION {seen[i] : i \in DOMAIN seen} :
                                     Count(x) >= Required(Cardinality(DOMAIN seen))}}

---------------------------------------------------------------------------
(* video_util_process_folder_videos.                                       *)

(* Only a file that is new, that differs from its fingerprint or that has  *)
(* lost its poster gets a record; one that does not decode gets no poster. *)
Unchanged(v) ==
    v \in VideoRows /\ video[v].thumb \in thumbs /\ video[v].print = file[v]

PrepareVideos ==
    /\ Starts("scanVideos")
    /\ LET redo   == {v \in Videos : file[v] # NoFile /\ ~Unchanged(v)}
           posed  == {v \in redo : CvReads(file[v])}
           fresh  == (uuids + 1)..(uuids + Cardinality(posed))
       IN  /\ uuids + Cardinality(posed) <= MaxUuids
           /\ \E name \in [posed -> fresh] :
                 /\ {name[v] : v \in posed} = fresh
                 /\ Goes([task EXCEPT !.pc = "obsolete",
                            !.recs = [v \in redo |-> [thumb |-> IF v \in posed THEN name[v] ELSE None,
                                                      print |-> file[v]]],
                            !.old  = {video[v].thumb : v \in posed \cap VideoRows} \ {None}])
           /\ thumbs' = thumbs \cup fresh
           /\ uuids' = uuids + Cardinality(posed)
    /\ UNCHANGED <<library, file, folder, count, videoVars>>

(* video_util_remove_obsolete_videos: the rows first, and the files after  *)
(* that, whether or not the rows are gone.                                 *)
RemoveObsoleteVideos ==
    /\ At("scanVideos", "obsolete")
    /\ LET gone == {v \in VideoRows : file[v] = NoFile}
       IN  /\ Goes([task EXCEPT !.pc = IF gone = {} THEN "insert" ELSE "files", !.todo = gone,
                                !.got = {video[v].thumb : v \in gone}])
           /\ \/ Works /\ video' = [v \in Videos |-> IF v \in gone THEN None ELSE video[v]]
              \/ Fails /\ gone # {} /\ UNCHANGED video
    /\ UNCHANGED <<library, file, folder, thumbs, uuids, jpegs, interval, purge>>

RemoveObsoleteFiles ==
    /\ At("scanVideos", "files")
    /\ thumbs' = thumbs \ task.got
    /\ jpegs' = [v \in Videos |-> IF v \in task.todo THEN {} ELSE jpegs[v]]
    /\ Goes([task EXCEPT !.pc = "insert", !.todo = {}, !.got = None])
    /\ UNCHANGED <<library, file, folder, uuids, count, video, interval, purge>>

UpsertedVideo(row, rec) ==
    IF row = None THEN NewVideo(rec.thumb, rec.print)
    ELSE [row EXCEPT !.print = rec.print, !.thumb = IF rec.thumb = None THEN @ ELSE rec.thumb]

(* Mutant: the replaced posters are removed in either case. *)
StaleAlways(inserted) == task.old

(* db_bulk_insert_videos, and what is to be removed after it: the posters  *)
(* replaced if it went well, the posters just made if it did not.          *)
Stale(inserted) ==
    IF inserted THEN task.old ELSE {task.recs[v].thumb : v \in DOMAIN task.recs} \ {None}

BulkInsertVideos ==
    /\ At("scanVideos", "insert")
    /\ \/ /\ Works
          /\ DOMAIN task.recs = {} \/ folder # "gone"
          /\ video' = [v \in Videos |-> IF v \in DOMAIN task.recs
                                           THEN UpsertedVideo(video[v], task.recs[v]) ELSE video[v]]
          /\ Goes([task EXCEPT !.pc = "posters", !.got = Stale(TRUE)])
       \/ /\ DOMAIN task.recs # {}
          /\ Fails \/ (folder = "gone" /\ Works)
          /\ UNCHANGED video
          /\ Goes([task EXCEPT !.pc = "posters", !.got = Stale(FALSE)])
    /\ UNCHANGED <<library, file, folder, thumbs, uuids, jpegs, interval, purge>>

RemovePosters ==
    /\ At("scanVideos", "posters")
    /\ thumbs' = thumbs \ task.got
    /\ EndPass
    /\ UNCHANGED <<library, file, folder, uuids, count, videoVars>>

---------------------------------------------------------------------------
(* video_util_process_untagged_videos.                                     *)

(* The interval is read once, for the whole pass. *)
GetUntaggedVideos ==
    /\ Starts("tagVideos")
    /\ LET untagged == {v \in VideoRows : folder = "ai" /\ ~video[v].tagged}
       IN  IF untagged = {} THEN EndPass
           ELSE Goes([task EXCEPT !.pc = "extract", !.todo = untagged, !.ctx = interval])
    /\ UNCHANGED <<library, file, folder, thumbs, uuids, count, videoVars>>

(* video_util_extract_video_frames empties the video's directory even when *)
(* the file does not open; then there is nothing to store but the flag.    *)
ExtractFrames ==
    /\ At("tagVideos", "extract")
    /\ \E v \in task.todo :
          LET n == Cardinality(SampleTimestamps(Duration[file[v]], task.ctx))
          IN  IF CvReads(file[v])
              THEN /\ jpegs' = [jpegs EXCEPT ![v] = {<<i, file[v]>> : i \in 1..n}]
                   /\ Goes([task EXCEPT !.pc = "deleteFrames", !.cur = v, !.got = n])
              ELSE /\ jpegs' = [jpegs EXCEPT ![v] = {}]
                   /\ Goes([task EXCEPT !.pc = "flag", !.cur = v])
    /\ UNCHANGED <<library, file, folder, thumbs, uuids, count, video, interval, purge>>

(* A statement on the row of the video at hand, if there is one. *)
SetCurrent(New(_)) ==
    video' = IF task.cur \in VideoRows THEN [video EXCEPT ![task.cur] = New(@)] ELSE video

(* Mutant: the frames of the last sample stay. *)
WithOldFrames(row) == row

WithoutFrames(row) == [row EXCEPT !.frames = <<>>]

DeleteFrames ==
    /\ At("tagVideos", "deleteFrames")
    /\ Goto("insertFrames")
    /\ \/ Works /\ SetCurrent(WithoutFrames)
       \/ Fails /\ UNCHANGED video
    /\ UNCHANGED <<library, file, folder, thumbs, uuids, jpegs, interval, purge>>

(* db_bulk_insert_video_frames.  The path of a keyframe is unique, so a    *)
(* row that still has the path keeps its id, its vector and its flag.      *)
WithFrames(row) ==
    LET kept == {i \in 1..task.got : \E k \in DOMAIN row.frames :
                                        row.frames[k].path /\ row.frames[k].idx = i}
        new  == {i \in 1..task.got : i \notin kept}
        nth(k) == CHOOSE i \in new : Cardinality({j \in new : j < i}) = k - 1
    IN  [row EXCEPT !.frames = @ \o [k \in 1..Cardinality(new) |-> NewFrame(nth(k))]]

InsertFrames ==
    /\ At("tagVideos", "insertFrames")
    /\ Goto("classes")
    /\ \/ Works /\ SetCurrent(WithFrames)
       \/ Fails /\ UNCHANGED video
    /\ UNCHANGED <<library, file, folder, thumbs, uuids, jpegs, interval, purge>>

(* The keyframes are read back from disk; one that is no longer there      *)
(* shows nothing.                                                          *)
SeenIn(v) == [i \in 1..task.got |-> UNION {FrameObjects[f[2]][i] : f \in {g \in jpegs[v] : g[1] = i}}]

(* db_write_video_classes raises, on an error or for want of the video.    *)
WriteVideoClasses ==
    /\ At("tagVideos", "classes")
    /\ LET classes == AggregateClasses(SeenIn(task.cur))
           Replaced(row) == [row EXCEPT !.objects = classes]
       IN  \/ /\ Works
              /\ task.cur \in VideoRows \/ classes = {}
              /\ SetCurrent(Replaced)
              /\ Goto("flag")
           \/ Works /\ task.cur \notin VideoRows /\ classes # {} /\ EndPass /\ UNCHANGED video
           \/ Fails /\ EndPass /\ UNCHANGED video
    /\ UNCHANGED <<library, file, folder, thumbs, uuids, jpegs, interval, purge>>

FlaggedVideo(row) == [row EXCEPT !.tagged = TRUE]

MarkVideoTagged ==
    /\ At("tagVideos", "flag")
    /\ NextOf(task.todo \ {task.cur}, "extract")
    /\ \/ Works /\ SetCurrent(FlaggedVideo)
       \/ Fails /\ UNCHANGED video
    /\ UNCHANGED <<library, file, folder, thumbs, uuids, jpegs, interval, purge>>

---------------------------------------------------------------------------
(* video_util_process_unembedded_frames.  A frame in memory is             *)
(* <<video, position of its row, index of its keyframe>>.                  *)

GetUnembeddedFrames(installed) ==
    /\ Starts("embedFrames")
    /\ LET Wanted(v) == {k \in DOMAIN video[v].frames :
                            ~video[v].frames[k].embedded /\ video[v].frames[k].path}
           in == {v \in VideoRows : "vision" \in installed /\ folder = "ai"}
       IN  NextOf(UNION {{<<v, k, video[v].frames[k].idx>> : k \in Wanted(v)} : v \in in}, "embed")
    /\ UNCHANGED <<library, file, folder, thumbs, uuids, count, videoVars>>

(* The keyframe of a frame as it is on disk, as a set of at most one. *)
OnDisk(f) == {g \in jpegs[f[1]] : g[1] = f[3]}

(* The frames in fs, changed; rows of a video that is gone are not there.  *)
ForFrames(fs, New(_, _)) ==
    [v \in Videos |-> IF v \notin VideoRows THEN None
                      ELSE [video[v] EXCEPT !.frames =
                              [k \in DOMAIN @ |-> IF \E f \in fs : f[1] = v /\ f[2] = k
                                                     THEN New(@[k], <<v, k, @[k].idx>>) ELSE @[k]]]]

(* db_upsert_video_frame_embeddings: a new vector has not been scored. *)
NewVector(frame, f) ==
    [frame EXCEPT !.vector = (CHOOSE g \in OnDisk(f) : TRUE)[2], !.stamp = None]

MarkedFrame(frame, f) == [frame EXCEPT !.embedded = TRUE]

EmbedFrames ==
    /\ At("embedFrames", "embed")
    /\ \E batch \in BatchesOf(task.todo) :
          LET good == {f \in batch : OnDisk(f) # {}}
              rest == task.todo \ batch
          IN  IF good = {} THEN NextOf(rest, "embed") /\ UNCHANGED <<video, count>>
              ELSE \/ /\ Works
                      /\ \A f \in good : f[1] \in VideoRows
                      /\ video' = ForFrames(good, NewVector)
                      /\ Goes([task EXCEPT !.pc = "mark", !.todo = rest, !.got = good])
                   \/ Works /\ (\E f \in good : f[1] \notin VideoRows) /\ EndPass /\ UNCHANGED video
                   \/ Fails /\ EndPass /\ UNCHANGED video
    /\ UNCHANGED <<library, file, folder, thumbs, uuids, jpegs, interval, purge>>

MarkFramesEmbedded ==
    /\ At("embedFrames", "mark")
    /\ NextOf(task.todo, "embed")
    /\ \/ Works /\ video' = ForFrames(task.got, MarkedFrame)
       \/ Fails /\ UNCHANGED video
    /\ UNCHANGED <<library, file, folder, thumbs, uuids, jpegs, interval, purge>>

VideoStep(installed) ==
    \/ PrepareVideos \/ RemoveObsoleteVideos \/ RemoveObsoleteFiles \/ BulkInsertVideos \/ RemovePosters
    \/ GetUntaggedVideos \/ ExtractFrames \/ DeleteFrames \/ InsertFrames \/ WriteVideoClasses \/ MarkVideoTagged
    \/ GetUnembeddedFrames(installed) \/ EmbedFrames \/ MarkFramesEmbedded

---------------------------------------------------------------------------
(* Requests, in the other process.                                         *)

(* POST /videos/toggle-favourite. *)
ToggleVideoFavourite ==
    /\ Happens
    /\ \E v \in VideoRows : video' = [video EXCEPT ![v].favourite = ~@]
    /\ UNCHANGED <<library, file, folder, thumbs, uuids, plan, task, jpegs, interval, purge>>

IntervalChanges ==
    /\ Happens
    /\ interval' \in Intervals \ {interval}
    /\ UNCHANGED <<library, file, folder, thumbs, uuids, plan, task, video, jpegs, purge>>

(* video_util_purge_frame_cache: the files, then the paths in the rows.    *)
PurgeFiles ==
    /\ Happens
    /\ purge = "idle"
    /\ jpegs' = [v \in Videos |-> {}]
    /\ purge' = "paths"
    /\ UNCHANGED <<library, file, folder, thumbs, uuids, plan, task, video, interval>>

ClearedFrame(frame) == [frame EXCEPT !.path = FALSE]

ClearFramePaths ==
    /\ purge = "paths"
    /\ purge' = "idle"
    /\ \/ /\ Works
          /\ video' = [v \in Videos |-> IF v \notin VideoRows THEN None
                          ELSE [video[v] EXCEPT !.frames = [k \in DOMAIN @ |-> ClearedFrame(@[k])]]]
       \/ Fails /\ UNCHANGED video
    /\ UNCHANGED <<library, file, folder, thumbs, uuids, plan, task, jpegs, interval>>
=============================================================================
