----------------------------- MODULE MediaProofs -----------------------------
(***************************************************************************)
(* TLAPS proofs about MediaPipeline, for every set of photos and videos,   *)
(* every content and vocabulary, and any number of rescans, failed         *)
(* statements, deletions, purges and crashes: it implements MediaItems,    *)
(* its videos have one sample, posters in use stay, faces are repeated     *)
(* only after a fault, tags follow the vectors, flags mean done, and no    *)
(* sample exceeds its cap.                                                 *)
(***************************************************************************)
EXTENDS MediaPipeline, FiniteSetTheorems, SequenceTheorems, TLAPS

(* NULL is not a row; the theorems assume no more of None than this. *)
NullHasNoColumns == "tagged" \notin DOMAIN None

---------------------------------------------------------------------------
(* The rows.                                                               *)

PhotoColumns == {"thumb", "tagged", "embedded", "favourite", "objects", "vector", "stamp", "tags"}
VideoColumns == {"thumb", "print", "tagged", "favourite", "objects", "frames", "tags"}
FrameColumns == {"idx", "path", "embedded", "vector", "stamp"}

IsSequence(s) == \E S : s \in Seq(S)

AreFrames(frames) ==
    /\ IsSequence(frames)
    /\ \A k \in DOMAIN frames : FrameColumns \subseteq DOMAIN frames[k]

IsPhotoRow(row) == PhotoColumns \subseteq DOMAIN row
IsVideoRow(row) == VideoColumns \subseteq DOMAIN row /\ AreFrames(row.frames)

HasVector(frames) == \E k \in DOMAIN frames : frames[k].vector # None

RowsOK ==
    /\ DOMAIN photo = Photos /\ DOMAIN video = Videos /\ DOMAIN jpegs = Videos
    /\ \A p \in PhotoRows : IsPhotoRow(photo[p])
    /\ \A v \in VideoRows : IsVideoRow(video[v])
    /\ \A v \in Videos : \A g \in jpegs[v] : g[2] \in Contents

---------------------------------------------------------------------------
(* What the worker carries.                                                *)

Running(pass) == plan # <<>> /\ Head(plan) = pass /\ task.pc # "idle"

PhotoUntagged(p) == photo[p] # None => ~photo[p].tagged
VideoUntagged(v) == video[v] # None => ~video[v].tagged

(* A frame in memory is the frame of the row at its place. *)
Matches(f) ==
    f[1] \in VideoRows /\ f[2] \in DOMAIN video[f[1]].frames => video[f[1]].frames[f[2]].idx = f[3]

TaggingPhotos == Running("tagPhotos") => \A p \in task.todo : p \in Photos /\ PhotoUntagged(p)

TaggingVideos ==
    Running("tagVideos") =>
        /\ \A v \in task.todo : v \in Videos /\ VideoUntagged(v)
        /\ task.pc \in {"deleteFrames", "insertFrames", "classes"} => task.cur \in task.todo
        /\ task.pc \in {"deleteFrames", "insertFrames"} => task.got \in Nat

EmbeddingFrames == Running("embedFrames") => \A f \in task.todo : Matches(f)

ScoringPhotos ==
    Running("scorePhotos") /\ task.pc = "write" =>
        \A p \in DOMAIN task.got : p \in PhotoRows => photo[p].vector # None

ScoringVideos ==
    Running("scoreVideos") /\ task.pc \in {"frames", "write"} =>
        /\ \A v \in task.todo : v \in VideoRows => HasVector(video[v].frames)
        /\ task.pc = "write" /\ task.cur \in VideoRows => HasVector(video[task.cur].frames)

TaskColumns == {"pc", "recs", "todo", "cur", "old", "got", "ctx"}

TaskOK ==
    /\ plan = <<>> => task.pc = "idle"
    /\ TaskColumns \subseteq DOMAIN task
    /\ TaggingPhotos /\ TaggingVideos /\ EmbeddingFrames /\ ScoringPhotos /\ ScoringVideos

MediaInv == RowsOK /\ TaskOK

---------------------------------------------------------------------------
(* How a row may change.                                                   *)

Advances(a, b) ==
    \/ b = a
    \/ ~a.tagged /\ b = [a EXCEPT !.objects = b.objects]
    \/ ~a.tagged /\ b = [a EXCEPT !.searchable = FALSE]
    \/ b = [a EXCEPT !.tagged = TRUE]
    \/ b = [a EXCEPT !.searchable = TRUE]
    \/ a.searchable /\ b = [a EXCEPT !.tags = b.tags]
    \/ b = [a EXCEPT !.favourite = ~@]

PhotoAdvances(old, new) ==
    \/ new = old
    \/ new = None
    \/ old = None /\ new # None /\ ListedPhoto(new) = Items!New
    \/ old # None /\ new # None /\ Advances(ListedPhoto(old), ListedPhoto(new))

VideoAdvances(old, new) ==
    \/ new = old
    \/ new = None
    \/ old = None /\ new # None /\ ListedVideo(new) = Items!New
    \/ old # None /\ new # None /\ Advances(ListedVideo(old), ListedVideo(new))

RowsAdvance ==
    /\ \A p \in Photos : PhotoAdvances(photo[p], photo'[p])
    /\ \A v \in Videos : VideoAdvances(video[v], video'[v])

(* If every row does as it may, the listing does as MediaItems says. *)
LEMMA RowsMap ==
    ASSUME NullHasNoColumns, RowsAdvance PROVE Items!Next
<1> SUFFICES ASSUME NEW m \in Photos \cup Videos
             PROVE  Listing'[m] = Listing[m] \/ Items!Step(m)
  BY DEF Items!Next
<1> DEFINE a == Listing[m]
           b == Listing'[m]
<1>0. \/ b = a
      \/ b = None
      \/ a = None /\ b = Items!New
      \/ a # None /\ b # None /\ Advances(a, b)
  <2>1. \A r : ListedPhoto(r) # None /\ ListedVideo(r) # None
    BY DEF NullHasNoColumns, ListedPhoto, ListedVideo
  <2>2. CASE m \in Photos
    <3>1. m \notin Videos
      BY <2>2, MediaAssumption DEF MediaAssumption
    <3>2. /\ a = IF photo[m] # None THEN ListedPhoto(photo[m]) ELSE None
          /\ b = IF photo'[m] # None THEN ListedPhoto(photo'[m]) ELSE None
      BY <2>2, <3>1 DEF Listing, PhotoRows, VideoRows
    <3> HIDE DEF a, b
    <3> QED BY <2>1, <2>2, <3>2 DEF RowsAdvance, PhotoAdvances
  <2>3. CASE m \in Videos
    <3>1. m \notin Photos
      BY <2>3, MediaAssumption DEF MediaAssumption
    <3>2. /\ a = IF video[m] # None THEN ListedVideo(video[m]) ELSE None
          /\ b = IF video'[m] # None THEN ListedVideo(video'[m]) ELSE None
      BY <2>3, <3>1 DEF Listing, PhotoRows, VideoRows
    <3> HIDE DEF a, b
    <3> QED BY <2>1, <2>3, <3>2 DEF RowsAdvance, VideoAdvances
  <2> QED BY <2>2, <2>3
<1> HIDE DEF a, b
<1>1. CASE b = a
  BY <1>1 DEF a, b
<1>2. CASE b = None /\ a # None
  BY <1>2 DEF Items!Step, Items!Unlist, Items!Becomes, a, b
<1>3. CASE a = None /\ b = Items!New
  BY <1>3 DEF Items!Step, Items!List, Items!Becomes, Items!New, a, b
<1>4. CASE a # None /\ b # None /\ Advances(a, b)
  BY <1>4 DEF Advances, Items!Step, Items!Listed, Items!Becomes, Items!Detect, Items!Sample, Items!Tag,
              Items!Embed, Items!Score, Items!Like, a, b
<1> QED BY <1>0, <1>1, <1>2, <1>3, <1>4

---------------------------------------------------------------------------
(* The worker's place.                                                     *)

(* Between two passes it carries nothing. *)
LEMMA PassEnds == ASSUME EndPass PROVE TaskOK'
BY DEF EndPass, Idle, TaskOK, TaskColumns, Running, TaggingPhotos, TaggingVideos, EmbeddingFrames,
       ScoringPhotos, ScoringVideos

(* Within a pass only what that pass relies on is at stake. *)
LEMMA PassGoesOn ==
    ASSUME plan # <<>>, UNCHANGED plan, TaskColumns \subseteq DOMAIN task',
           Head(plan) = "tagPhotos" => TaggingPhotos',
           Head(plan) = "tagVideos" => TaggingVideos',
           Head(plan) = "embedFrames" => EmbeddingFrames',
           Head(plan) = "scorePhotos" => ScoringPhotos',
           Head(plan) = "scoreVideos" => ScoringVideos'
    PROVE  TaskOK'
BY DEF TaskOK, Running, TaggingPhotos, TaggingVideos, EmbeddingFrames, ScoringPhotos, ScoringVideos

(* What others do to rows that a pass has read takes nothing it relies on. *)
LEMMA TaskKept ==
    ASSUME MediaInv, UNCHANGED <<plan, task>>,
           \A p \in Photos : \/ photo'[p] = None
                             \/ /\ photo[p] # None
                                /\ photo'[p].tagged = photo[p].tagged /\ photo'[p].vector = photo[p].vector,
           \A v \in Videos : \/ video'[v] = None
                             \/ /\ video[v] # None /\ video'[v].tagged = video[v].tagged
                                /\ DOMAIN video'[v].frames = DOMAIN video[v].frames
                                /\ \A k \in DOMAIN video[v].frames :
                                      /\ video'[v].frames[k].idx = video[v].frames[k].idx
                                      /\ video'[v].frames[k].vector = video[v].frames[k].vector
    PROVE  TaskOK'
<1>1. TaggingPhotos'
  BY DEF MediaInv, TaskOK, TaggingPhotos, Running, PhotoUntagged
<1>2. TaggingVideos'
  BY DEF MediaInv, TaskOK, TaggingVideos, Running, VideoUntagged
<1>3. EmbeddingFrames'
  BY DEF MediaInv, TaskOK, EmbeddingFrames, Running, Matches, VideoRows
<1>4. ScoringPhotos'
  BY DEF MediaInv, TaskOK, ScoringPhotos, Running, PhotoRows
<1>5. ScoringVideos'
  BY DEF MediaInv, TaskOK, ScoringVideos, Running, VideoRows, HasVector
<1> QED BY <1>1, <1>2, <1>3, <1>4, <1>5 DEF MediaInv, TaskOK

---------------------------------------------------------------------------
(* Photos.                                                                 *)

LEMMA PhotosChange ==
    ASSUME MediaInv, UNCHANGED <<video, jpegs>>, DOMAIN photo' = Photos,
           \A p \in Photos : /\ photo'[p] # None => IsPhotoRow(photo'[p])
                             /\ PhotoAdvances(photo[p], photo'[p])
    PROVE  RowsOK' /\ RowsAdvance
BY DEF MediaInv, RowsOK, RowsAdvance, PhotoRows, VideoRows, VideoAdvances

LEMMA PhotosStay == ASSUME MediaInv, UNCHANGED <<photo, video, jpegs>> PROVE RowsOK' /\ RowsAdvance
BY DEF MediaInv, RowsOK, RowsAdvance, PhotoRows, VideoRows, VideoAdvances, PhotoAdvances

LEMMA NewPhotos ==
    ASSUME NullHasNoColumns, NEW t
    PROVE  IsPhotoRow(NewPhoto(t)) /\ NewPhoto(t) # None /\ ListedPhoto(NewPhoto(t)) = Items!New
<1>1. DOMAIN NewPhoto(t) = PhotoColumns
  BY DEF NewPhoto, PhotoColumns
<1>2. (NewPhoto(t).vector # None) = FALSE
  BY DEF NewPhoto
<1>3. ListedPhoto(NewPhoto(t)) = Items!New
  BY <1>2 DEF NewPhoto, ListedPhoto, Items!New
<1> QED BY <1>1, <1>3 DEF NullHasNoColumns, IsPhotoRow, PhotoColumns

(* A row with columns changed, which are not all of what is listed.        *)
LEMMA PhotoRowChange ==
    ASSUME NullHasNoColumns, NEW row, NEW new, IsPhotoRow(row), DOMAIN new = DOMAIN row,
           Advances(ListedPhoto(row), ListedPhoto(new))
    PROVE  IsPhotoRow(new) /\ PhotoAdvances(row, new)
BY DEF NullHasNoColumns, IsPhotoRow, PhotoColumns, PhotoAdvances

LEMMA DeletingPhotos ==
    ASSUME MediaInv, NEW S, Delete(S), UNCHANGED <<video, jpegs>> PROVE RowsOK' /\ RowsAdvance
<1>1. DOMAIN photo' = Photos /\ \A p \in Photos : photo'[p] = None \/ photo'[p] = photo[p]
  BY DEF Delete
<1>2. ASSUME NEW p \in Photos, photo'[p] # None PROVE IsPhotoRow(photo'[p])
  BY <1>1, <1>2 DEF MediaInv, RowsOK, PhotoRows
<1>3. \A p \in Photos : PhotoAdvances(photo[p], photo'[p])
  BY <1>1 DEF PhotoAdvances
<1> QED BY <1>1, <1>2, <1>3, PhotosChange

LEMMA ScanningPhotos ==
    ASSUME NullHasNoColumns, MediaInv, UNCHANGED <<video, jpegs>>,
           PrepareImages \/ RemoveObsoleteImages \/ DeleteImages \/ BulkInsertImages
    PROVE  MediaInv' /\ RowsAdvance
<1>1. CASE PrepareImages
  <2>1. TaskOK'
    BY <1>1, PassGoesOn DEF PrepareImages, Starts, At, Goes, MediaInv, TaskOK, TaskColumns
  <2> QED BY <1>1, <2>1, PhotosStay DEF PrepareImages, photoVars, MediaInv
<1>2. CASE RemoveObsoleteImages
  <2>1. TaskOK'
    BY <1>2, PassGoesOn DEF RemoveObsoleteImages, At, Goes, MediaInv, TaskOK, TaskColumns
  <2> QED BY <1>2, <2>1, PhotosStay DEF RemoveObsoleteImages, photoVars, MediaInv
<1>3. CASE DeleteImages
  <2>1. TaskOK'
    BY <1>3, PassGoesOn DEF DeleteImages, At, Goto, Goes, MediaInv, TaskOK, TaskColumns
  <2> QED BY <1>3, <2>1, PhotosStay, DeletingPhotos DEF DeleteImages, photoVars, MediaInv
<1>4. CASE BulkInsertImages
  <2>1. TaskOK'
    BY <1>4, PassEnds DEF BulkInsertImages
  <2>2. CASE UNCHANGED photo
    BY <2>1, <2>2, PhotosStay DEF MediaInv
  <2>3. CASE photo' = [p \in Photos |-> IF folder # "gone" /\ p \in DOMAIN task.recs
                                           THEN Upserted(photo[p], task.recs[p]) ELSE photo[p]]
    <3>1. ASSUME NEW p \in Photos
          PROVE  /\ photo'[p] # None => IsPhotoRow(photo'[p])
                 /\ PhotoAdvances(photo[p], photo'[p])
      <4>1. photo[p] # None => IsPhotoRow(photo[p])
        BY DEF MediaInv, RowsOK, PhotoRows
      <4>2. CASE photo'[p] = photo[p]
        BY <4>1, <4>2 DEF PhotoAdvances
      <4>3. CASE photo'[p] = Upserted(photo[p], task.recs[p]) /\ photo[p] = None
        BY <4>3, NewPhotos DEF Upserted, PhotoAdvances
      <4>4. CASE photo'[p] = Upserted(photo[p], task.recs[p]) /\ photo[p] # None
        <5>1. photo'[p] = [photo[p] EXCEPT !.thumb = task.recs[p]]
          BY <4>4 DEF Upserted
        <5>2. ListedPhoto(photo'[p]) = ListedPhoto(photo[p])
          BY <4>1, <4>4, <5>1 DEF ListedPhoto, IsPhotoRow, PhotoColumns
        <5> QED BY <4>1, <4>4, <5>1, <5>2, PhotoRowChange DEF Advances
      <4> QED BY <2>3, <4>2, <4>3, <4>4
    <3> QED BY <2>1, <2>3, <3>1, PhotosChange DEF MediaInv
  <2> QED BY <1>4, <2>2, <2>3 DEF BulkInsertImages
<1> QED BY <1>1, <1>2, <1>3, <1>4

LEMMA PhotosAreUpdated ==
    ASSUME NullHasNoColumns, MediaInv, UNCHANGED <<video, jpegs>>, DOMAIN photo' = Photos,
           \A p \in Photos : \/ photo'[p] = photo[p]
                             \/ /\ photo[p] # None /\ DOMAIN photo'[p] = DOMAIN photo[p]
                                /\ Advances(ListedPhoto(photo[p]), ListedPhoto(photo'[p]))
    PROVE  RowsOK' /\ RowsAdvance
<1>1. ASSUME NEW p \in Photos
      PROVE  /\ photo'[p] # None => IsPhotoRow(photo'[p])
             /\ PhotoAdvances(photo[p], photo'[p])
  <2>1. photo[p] # None => IsPhotoRow(photo[p])
    BY DEF MediaInv, RowsOK, PhotoRows
  <2>2. CASE photo'[p] = photo[p]
    BY <2>1, <2>2 DEF PhotoAdvances
  <2> QED BY <2>1, <2>2, PhotoRowChange
<1> QED BY <1>1, PhotosChange

(* The records of the listing, and what it takes for one to advance.       *)
IsListing(a) ==
    a = [tagged |-> a.tagged, searchable |-> a.searchable, favourite |-> a.favourite,
         objects |-> a.objects, tags |-> a.tags]

LEMMA PhotoListing ==
    ASSUME NEW row
    PROVE  LET a == ListedPhoto(row) IN
           /\ IsListing(a) /\ a.tagged = row.tagged /\ a.favourite = row.favourite
           /\ a.objects = row.objects /\ a.tags = row.tags
           /\ a.searchable = (row.vector # None)
BY Zenon DEF ListedPhoto, IsListing

LEMMA VideoListing ==
    ASSUME NEW row
    PROVE  LET a == ListedVideo(row) IN
           /\ IsListing(a) /\ a.tagged = row.tagged /\ a.favourite = row.favourite
           /\ a.objects = row.objects /\ a.tags = row.tags
           /\ a.searchable = HasVector(row.frames)
BY Zenon DEF ListedVideo, IsListing, HasVector

AgreeBut(a, b, X) == \A c \in {"tagged", "searchable", "favourite", "objects", "tags"} \ X : b[c] = a[c]

LEMMA ListingAdvances ==
    ASSUME NEW a, NEW b, IsListing(a), IsListing(b)
    PROVE  /\ AgreeBut(a, b, {}) => Advances(a, b)
           /\ AgreeBut(a, b, {"objects"}) /\ ~a.tagged => Advances(a, b)
           /\ AgreeBut(a, b, {"searchable"}) /\ b.searchable = FALSE /\ ~a.tagged => Advances(a, b)
           /\ AgreeBut(a, b, {"tagged"}) /\ b.tagged = TRUE => Advances(a, b)
           /\ AgreeBut(a, b, {"searchable"}) /\ b.searchable = TRUE => Advances(a, b)
           /\ AgreeBut(a, b, {"tags"}) /\ a.searchable => Advances(a, b)
           /\ AgreeBut(a, b, {"favourite"}) /\ b.favourite = ~a.favourite => Advances(a, b)
<1>1. DOMAIN a = DOMAIN b /\ DOMAIN a = {"tagged", "searchable", "favourite", "objects", "tags"}
  BY DEF IsListing
<1>2. a = [f \in DOMAIN a |-> a[f]] /\ b = [f \in DOMAIN b |-> b[f]]
  BY DEF IsListing
<1>3. /\ AgreeBut(a, b, {}) => b = a
      /\ \A x : AgreeBut(a, b, {"objects"}) /\ b.objects = x => b = [a EXCEPT !.objects = x]
      /\ \A x : AgreeBut(a, b, {"searchable"}) /\ b.searchable = x => b = [a EXCEPT !.searchable = x]
      /\ \A x : AgreeBut(a, b, {"tagged"}) /\ b.tagged = x => b = [a EXCEPT !.tagged = x]
      /\ \A x : AgreeBut(a, b, {"tags"}) /\ b.tags = x => b = [a EXCEPT !.tags = x]
      /\ \A x : AgreeBut(a, b, {"favourite"}) /\ b.favourite = x => b = [a EXCEPT !.favourite = x]
  BY <1>1, <1>2 DEF AgreeBut
<1> QED BY <1>3, Zenon DEF Advances

(* The same of photos: their columns are those of the listing, but for the *)
(* vector.                                                                 *)
LEMMA PhotoRowAdvances ==
    ASSUME NEW row, NEW new
    PROVE  LET Same(c) == new[c] = row[c]
               may == Advances(ListedPhoto(row), ListedPhoto(new))
           IN  /\ Same("tagged") /\ Same("vector") /\ Same("favourite") /\ Same("objects") /\ Same("tags") => may
               /\ Same("tagged") /\ Same("vector") /\ Same("favourite") /\ Same("tags") /\ ~row.tagged => may
               /\ Same("vector") /\ Same("favourite") /\ Same("objects") /\ Same("tags") /\ new.tagged = TRUE => may
               /\ Same("tagged") /\ Same("favourite") /\ Same("objects") /\ Same("tags") /\ new.vector # None => may
               /\ Same("tagged") /\ Same("vector") /\ Same("favourite") /\ Same("objects") /\ row.vector # None => may
               /\ Same("tagged") /\ Same("vector") /\ Same("objects") /\ Same("tags")
                  /\ new.favourite = ~row.favourite => may
<1> DEFINE a == ListedPhoto(row)
           b == ListedPhoto(new)
<1>1. /\ IsListing(a) /\ a.tagged = row.tagged /\ a.favourite = row.favourite
      /\ a.objects = row.objects /\ a.tags = row.tags /\ a.searchable = (row.vector # None)
  BY PhotoListing
<1>2. /\ IsListing(b) /\ b.tagged = new.tagged /\ b.favourite = new.favourite
      /\ b.objects = new.objects /\ b.tags = new.tags /\ b.searchable = (new.vector # None)
  BY PhotoListing
<1> HIDE DEF a, b
<1>3. /\ new.vector = row.vector => b.searchable = a.searchable
      /\ new.vector # None => b.searchable = TRUE
      /\ row.vector # None => a.searchable
  BY <1>1, <1>2
<1>4. ASSUME new.tagged = row.tagged, new.vector = row.vector, new.favourite = row.favourite, new.tags = row.tags
      PROVE  /\ AgreeBut(a, b, {"objects"})
             /\ new.objects = row.objects => AgreeBut(a, b, {})
  BY <1>1, <1>2, <1>3, <1>4 DEF AgreeBut
<1>5. ASSUME new.favourite = row.favourite, new.objects = row.objects, new.tags = row.tags
      PROVE  /\ new.vector = row.vector => AgreeBut(a, b, {"tagged"})
             /\ new.tagged = row.tagged => AgreeBut(a, b, {"searchable"})
  BY <1>1, <1>2, <1>3, <1>5 DEF AgreeBut
<1>6. ASSUME new.tagged = row.tagged, new.vector = row.vector, new.objects = row.objects
      PROVE  /\ new.favourite = row.favourite => AgreeBut(a, b, {"tags"})
             /\ new.tags = row.tags => AgreeBut(a, b, {"favourite"})
  BY <1>1, <1>2, <1>3, <1>6 DEF AgreeBut
<1>7. new.favourite = ~row.favourite => b.favourite = ~a.favourite
  BY <1>1, <1>2
<1>8. /\ ~row.tagged => ~a.tagged
      /\ new.tagged = TRUE => b.tagged = TRUE
  BY <1>1, <1>2
<1> QED BY <1>1, <1>2, <1>3, <1>4, <1>5, <1>6, <1>7, <1>8, ListingAdvances, Zenon DEF a, b

(* The statements that update one column of a listed photo. *)
LEMMA ObjectsChange ==
    ASSUME NEW row, NEW x, IsPhotoRow(row)
    PROVE  LET new == [row EXCEPT !.objects = x] IN
           /\ DOMAIN new = DOMAIN row /\ new.tagged = row.tagged
           /\ ~row.tagged => Advances(ListedPhoto(row), ListedPhoto(new))
<1> DEFINE new == [row EXCEPT !.objects = x]
<1>1. /\ DOMAIN new = DOMAIN row /\ new.tagged = row.tagged /\ new.favourite = row.favourite
      /\ new.vector = row.vector /\ new.tags = row.tags
  BY DEF IsPhotoRow, PhotoColumns
<1> HIDE DEF new
<1> QED BY <1>1, PhotoRowAdvances DEF new

LEMMA TaggedChange ==
    ASSUME NEW row, IsPhotoRow(row)
    PROVE  LET new == [row EXCEPT !.tagged = TRUE] IN
           DOMAIN new = DOMAIN row /\ Advances(ListedPhoto(row), ListedPhoto(new))
<1> DEFINE new == [row EXCEPT !.tagged = TRUE]
<1>1. /\ DOMAIN new = DOMAIN row /\ new.tagged = TRUE /\ new.favourite = row.favourite
      /\ new.vector = row.vector /\ new.objects = row.objects /\ new.tags = row.tags
  BY DEF IsPhotoRow, PhotoColumns
<1> HIDE DEF new
<1> QED BY <1>1, PhotoRowAdvances DEF new

LEMMA EmbeddedChange ==
    ASSUME NEW row, IsPhotoRow(row)
    PROVE  LET new == [row EXCEPT !.embedded = TRUE] IN
           DOMAIN new = DOMAIN row /\ Advances(ListedPhoto(row), ListedPhoto(new))
<1> DEFINE new == [row EXCEPT !.embedded = TRUE]
<1>1. /\ DOMAIN new = DOMAIN row /\ new.tagged = row.tagged /\ new.favourite = row.favourite
      /\ new.vector = row.vector /\ new.objects = row.objects /\ new.tags = row.tags
  BY DEF IsPhotoRow, PhotoColumns
<1> HIDE DEF new
<1> QED BY <1>1, PhotoRowAdvances DEF new

LEMMA HeartChange ==
    ASSUME NEW row, IsPhotoRow(row)
    PROVE  LET new == [row EXCEPT !.favourite = ~@] IN
           /\ DOMAIN new = DOMAIN row /\ new.tagged = row.tagged /\ new.vector = row.vector
           /\ Advances(ListedPhoto(row), ListedPhoto(new))
<1> DEFINE new == [row EXCEPT !.favourite = ~@]
<1>1. /\ DOMAIN new = DOMAIN row /\ new.tagged = row.tagged /\ new.favourite = ~row.favourite
      /\ new.vector = row.vector /\ new.objects = row.objects /\ new.tags = row.tags
  BY DEF IsPhotoRow, PhotoColumns
<1> HIDE DEF new
<1> QED BY <1>1, PhotoRowAdvances DEF new

LEMMA VectorChange ==
    ASSUME NEW row, NEW x, IsPhotoRow(row), x # None
    PROVE  LET new == [row EXCEPT !.vector = x] IN
           DOMAIN new = DOMAIN row /\ Advances(ListedPhoto(row), ListedPhoto(new))
<1> DEFINE new == [row EXCEPT !.vector = x]
<1>1. /\ DOMAIN new = DOMAIN row /\ new.tagged = row.tagged /\ new.favourite = row.favourite
      /\ new.vector # None /\ new.objects = row.objects /\ new.tags = row.tags
  BY DEF IsPhotoRow, PhotoColumns
<1> HIDE DEF new
<1> QED BY <1>1, PhotoRowAdvances DEF new

LEMMA TagsChange ==
    ASSUME NEW row, NEW x, NEW y, IsPhotoRow(row), row.vector # None
    PROVE  LET new == [row EXCEPT !.tags = x, !.stamp = y] IN
           /\ DOMAIN new = DOMAIN row /\ new.vector = row.vector
           /\ Advances(ListedPhoto(row), ListedPhoto(new))
<1> DEFINE new == [row EXCEPT !.tags = x, !.stamp = y]
<1>1. /\ DOMAIN new = DOMAIN row /\ new.tagged = row.tagged /\ new.favourite = row.favourite
      /\ new.vector = row.vector /\ new.objects = row.objects
  BY DEF IsPhotoRow, PhotoColumns
<1> HIDE DEF new
<1> QED BY <1>1, PhotoRowAdvances DEF new

---------------------------------------------------------------------------
(* The passes over photos.                                                 *)

LEMMA NextOrEnd ==
    ASSUME NEW rest, NEW pc, NextOf(rest, pc)
    PROVE  \/ EndPass
           \/ /\ rest # {} /\ UNCHANGED plan /\ TaskColumns \subseteq DOMAIN task'
              /\ task'.todo = rest /\ task'.pc = pc
BY DEF NextOf, Goes, Idle, TaskColumns

LEMMA TaggingOfPhotos ==
    ASSUME NullHasNoColumns, MediaInv, UNCHANGED <<video, jpegs>>,
           GetUntaggedImages \/ ClassifyFails \/ Classify \/ DetectFaces \/ InsertFace \/ UpdateImageTagged
    PROVE  MediaInv' /\ RowsAdvance
<1>1. CASE GetUntaggedImages
  <2>1. plan # <<>> /\ Head(plan) = "tagPhotos" /\ UNCHANGED photo
    BY <1>1 DEF GetUntaggedImages, Starts, At, photoVars
  <2>2. ASSUME UNCHANGED plan, task'.todo = {p \in PhotoRows : folder = "ai" /\ ~photo[p].tagged}
        PROVE  TaggingPhotos'
    BY <2>1, <2>2 DEF TaggingPhotos, PhotoUntagged, PhotoRows
  <2>3. TaskOK'
    BY <1>1, <2>1, <2>2, NextOrEnd, PassEnds, PassGoesOn DEF GetUntaggedImages
  <2> QED BY <1>1, <2>1, <2>3, PhotosStay DEF MediaInv
<1>2. CASE ClassifyFails
  BY <1>2, PassEnds, PhotosStay DEF ClassifyFails, photoVars, MediaInv
<1>3. CASE Classify
  <2>1. PICK p \in task.todo :
          /\ Goes([task EXCEPT !.cur = p, !.pc = IF Person \in ObjectsIn[file[p]] THEN "detect" ELSE "flag"])
          /\ \/ photo' = IF p \in PhotoRows
                         THEN [photo EXCEPT ![p].objects = @ \cup ObjectsIn[file[p]]] ELSE photo
             \/ UNCHANGED photo
    BY <1>3 DEF Classify
  <2>2. plan # <<>> /\ Head(plan) = "tagPhotos" /\ UNCHANGED plan /\ TaskColumns \subseteq DOMAIN task'
        /\ task'.todo = task.todo /\ task.pc = "classify"
    BY <1>3, <2>1 DEF Classify, At, Goes, MediaInv, TaskOK, TaskColumns
  <2>3. \A q \in task.todo : q \in Photos /\ PhotoUntagged(q)
    BY <2>2 DEF MediaInv, TaskOK, TaggingPhotos, Running
  <2>4. CASE UNCHANGED photo
    BY <2>2, <2>3, <2>4, PassGoesOn, PhotosStay DEF TaggingPhotos, PhotoUntagged, MediaInv
  <2>5. CASE p \in PhotoRows /\ photo' = [photo EXCEPT ![p].objects = @ \cup ObjectsIn[file[p]]]
    <3> DEFINE row == photo[p]
               new == [row EXCEPT !.objects = row.objects \cup ObjectsIn[file[p]]]
    <3>1. p \in Photos /\ row # None /\ IsPhotoRow(row) /\ ~row.tagged
      BY <2>1, <2>3, <2>5 DEF MediaInv, RowsOK, PhotoRows, PhotoUntagged
    <3>2. DOMAIN new = DOMAIN row /\ new.tagged = row.tagged /\ Advances(ListedPhoto(row), ListedPhoto(new))
      BY <3>1, ObjectsChange
    <3>3. /\ DOMAIN photo' = Photos /\ photo'[p] = new
          /\ \A q \in Photos : q # p => photo'[q] = photo[q]
      BY <2>5, <3>1 DEF MediaInv, RowsOK
    <3> HIDE DEF new
    <3>4. RowsOK' /\ RowsAdvance
      BY <3>1, <3>2, <3>3, PhotosAreUpdated
    <3>5. TaggingPhotos'
      BY <2>2, <2>3, <3>1, <3>2, <3>3 DEF TaggingPhotos, PhotoUntagged
    <3> QED BY <2>2, <3>4, <3>5, PassGoesOn DEF MediaInv
  <2> QED BY <2>1, <2>4, <2>5
<1>4. CASE DetectFaces
  <2>1. /\ plan # <<>> /\ Head(plan) = "tagPhotos" /\ UNCHANGED <<plan, photo>>
        /\ TaskColumns \subseteq DOMAIN task' /\ task'.todo = task.todo /\ task.pc = "detect"
    BY <1>4 DEF DetectFaces, At, Goto, Goes, MediaInv, TaskOK, TaskColumns, photoVars
  <2>2. TaggingPhotos'
    BY <2>1 DEF MediaInv, TaskOK, TaggingPhotos, Running, PhotoUntagged
  <2> QED BY <2>1, <2>2, PassGoesOn, PhotosStay DEF MediaInv
<1>5. CASE InsertFace
  <2>1. UNCHANGED photo
    BY <1>5 DEF InsertFace
  <2>2. CASE EndPass
    BY <2>1, <2>2, PassEnds, PhotosStay DEF MediaInv
  <2>3. CASE Goes([task EXCEPT !.got = @ - 1, !.pc = IF task.got = 1 THEN "flag" ELSE "face"])
    <3>1. /\ plan # <<>> /\ Head(plan) = "tagPhotos" /\ UNCHANGED plan
          /\ TaskColumns \subseteq DOMAIN task' /\ task'.todo = task.todo /\ task.pc = "face"
      BY <1>5, <2>3 DEF InsertFace, At, Goes, MediaInv, TaskOK, TaskColumns
    <3>2. TaggingPhotos'
      BY <2>1, <3>1 DEF MediaInv, TaskOK, TaggingPhotos, Running, PhotoUntagged
    <3> QED BY <2>1, <3>1, <3>2, PassGoesOn, PhotosStay DEF MediaInv
  <2> QED BY <1>5, <2>2, <2>3 DEF InsertFace
<1>6. CASE UpdateImageTagged
  <2> DEFINE q == task.cur
  <2>1. plan # <<>> /\ Head(plan) = "tagPhotos" /\ task.pc = "flag"
    BY <1>6 DEF UpdateImageTagged, At
  <2>2. \A p \in task.todo : p \in Photos /\ PhotoUntagged(p)
    BY <2>1 DEF MediaInv, TaskOK, TaggingPhotos, Running
  <2>3. DOMAIN photo' = Photos /\ \A p \in Photos : p # q => photo'[p] = photo[p]
    BY <1>6 DEF UpdateImageTagged, MediaInv, RowsOK
  <2>4. TaskOK'
    <3>1. ASSUME UNCHANGED plan, task'.todo = task.todo \ {q} PROVE TaggingPhotos'
      BY <2>2, <2>3, <3>1 DEF TaggingPhotos, PhotoUntagged
    <3> QED BY <1>6, <2>1, <3>1, NextOrEnd, PassEnds, PassGoesOn DEF UpdateImageTagged
  <2>5. ASSUME NEW p \in Photos
        PROVE  \/ photo'[p] = photo[p]
               \/ /\ photo[p] # None /\ DOMAIN photo'[p] = DOMAIN photo[p]
                  /\ Advances(ListedPhoto(photo[p]), ListedPhoto(photo'[p]))
    <3>1. CASE photo'[p] = photo[p]
      BY <3>1
    <3>2. CASE p = q /\ photo'[p] # photo[p]
      <4>1. photo[p] # None /\ photo'[p] = [photo[p] EXCEPT !.tagged = TRUE]
        BY <1>6, <3>2 DEF UpdateImageTagged, Flagged, MediaInv, RowsOK
      <4>2. IsPhotoRow(photo[p])
        BY <4>1 DEF MediaInv, RowsOK, PhotoRows
      <4> QED BY <4>1, <4>2, TaggedChange
    <3> QED BY <2>3, <3>1, <3>2
  <2> QED BY <2>3, <2>4, <2>5, PhotosAreUpdated DEF MediaInv
<1> QED BY <1>1, <1>2, <1>3, <1>4, <1>5, <1>6

LEMMA EmbeddingOfPhotos ==
    ASSUME NullHasNoColumns, MediaInv, UNCHANGED <<video, jpegs>>,
           GetUnembeddedImages(installed) \/ EmbedImages \/ MarkImagesEmbedded
    PROVE  MediaInv' /\ RowsAdvance
<1>1. plan # <<>> /\ Head(plan) = "embedPhotos"
  BY DEF GetUnembeddedImages, EmbedImages, MarkImagesEmbedded, Starts, At
<1>2. ASSUME NEW rest, NEW pc, NextOf(rest, pc) PROVE TaskOK'
  BY <1>1, <1>2, NextOrEnd, PassEnds, PassGoesOn
<1>3. CASE GetUnembeddedImages(installed)
  BY <1>2, <1>3, PhotosStay DEF GetUnembeddedImages, photoVars, MediaInv
<1>4. CASE EmbedImages
  <2>1. PICK batch \in BatchesOf(task.todo) :
          LET good == {p \in batch : PilReads(file[p])}
              rest == task.todo \ batch
          IN  \/ NextOf(rest, "embed") /\ UNCHANGED photo
              \/ /\ good \subseteq PhotoRows
                 /\ photo' = [p \in Photos |-> IF p \in good THEN WithVector(photo[p], file[p]) ELSE photo[p]]
                 /\ Goes([task EXCEPT !.pc = "mark", !.todo = rest, !.got = good])
              \/ EndPass /\ UNCHANGED photo
    BY <1>4 DEF EmbedImages
  <2> DEFINE good == {p \in batch : PilReads(file[p])}
             rest == task.todo \ batch
  <2>2. CASE NextOf(rest, "embed") /\ UNCHANGED photo
    BY <1>2, <2>2, PhotosStay DEF MediaInv
  <2>3. CASE /\ photo' = [p \in Photos |-> IF p \in good THEN WithVector(photo[p], file[p]) ELSE photo[p]]
             /\ good \subseteq PhotoRows
             /\ Goes([task EXCEPT !.pc = "mark", !.todo = rest, !.got = good])
    <3>1. TaskOK'
      BY <1>1, <2>3, PassGoesOn DEF Goes, MediaInv, TaskOK, TaskColumns
    <3>2. ASSUME NEW p \in Photos, p \in good
          PROVE  /\ photo[p] # None /\ DOMAIN photo'[p] = DOMAIN photo[p]
                 /\ Advances(ListedPhoto(photo[p]), ListedPhoto(photo'[p]))
      <4>1. photo[p] # None /\ IsPhotoRow(photo[p])
        BY <2>3, <3>2 DEF PhotoRows, MediaInv, RowsOK
      <4>2. file[p] # None
        BY <3>2, MediaAssumption DEF PilReads, MediaAssumption
      <4>3. photo'[p] = [photo[p] EXCEPT !.vector = file[p]]
        BY <2>3, <3>2 DEF WithVector
      <4> QED BY <4>1, <4>2, <4>3, VectorChange
    <3>3. DOMAIN photo' = Photos /\ \A p \in Photos : p \notin good => photo'[p] = photo[p]
      BY <2>3
    <3> HIDE DEF good
    <3> QED BY <3>1, <3>2, <3>3, PhotosAreUpdated DEF MediaInv
  <2>4. CASE EndPass /\ UNCHANGED photo
    BY <2>4, PassEnds, PhotosStay DEF MediaInv
  <2> QED BY <2>1, <2>2, <2>3, <2>4
<1>5. CASE MarkImagesEmbedded
  <2>1. TaskOK'
    BY <1>2, <1>5 DEF MarkImagesEmbedded
  <2>2. CASE UNCHANGED photo
    BY <2>1, <2>2, PhotosStay DEF MediaInv
  <2>3. CASE photo' = [p \in Photos |-> IF p \in task.got \cap PhotoRows
                          THEN [photo[p] EXCEPT !.embedded = TRUE] ELSE photo[p]]
    <3>1. ASSUME NEW p \in Photos, p \in task.got \cap PhotoRows
          PROVE  /\ photo[p] # None /\ DOMAIN photo'[p] = DOMAIN photo[p]
                 /\ Advances(ListedPhoto(photo[p]), ListedPhoto(photo'[p]))
      BY <2>3, <3>1, EmbeddedChange DEF PhotoRows, MediaInv, RowsOK
    <3>2. DOMAIN photo' = Photos /\ \A p \in Photos : p \notin task.got \cap PhotoRows => photo'[p] = photo[p]
      BY <2>3
    <3> QED BY <2>1, <3>1, <3>2, PhotosAreUpdated DEF MediaInv
  <2> QED BY <1>5, <2>2, <2>3 DEF MarkImagesEmbedded
<1> QED BY <1>3, <1>4, <1>5

LEMMA ScoringOfPhotos ==
    ASSUME NullHasNoColumns, MediaInv, UNCHANGED <<video, jpegs>>,
           LoadContext("scorePhotos", "score") \/ ReadUnscoredImages \/ WriteImageScores
    PROVE  MediaInv' /\ RowsAdvance
<1>1. plan # <<>> /\ Head(plan) = "scorePhotos"
  BY DEF LoadContext, ReadUnscoredImages, WriteImageScores, Starts, At
<1>2. CASE LoadContext("scorePhotos", "score")
  <2>1. CASE EndPass
    BY <1>2, <2>1, PassEnds, PhotosStay DEF LoadContext, photoVars, MediaInv
  <2>2. CASE Goes([task EXCEPT !.pc = "score", !.ctx = Signature])
    <3>1. TaskOK'
      BY <1>1, <2>2, PassGoesOn DEF Goes, MediaInv, TaskOK, TaskColumns, ScoringPhotos
    <3> QED BY <1>2, <3>1, PhotosStay DEF LoadContext, photoVars, MediaInv
  <2> QED BY <1>2, <2>1, <2>2 DEF LoadContext
<1>3. CASE ReadUnscoredImages
  <2> DEFINE need == {p \in PhotoRows : photo[p].vector # None /\ photo[p].stamp # task.ctx}
             tags == [p \in need |-> PhotoTags(photo[p].vector, task.ctx)]
  <2>1. UNCHANGED photo
    BY <1>3 DEF ReadUnscoredImages, photoVars
  <2>2. CASE EndPass
    BY <2>1, <2>2, PassEnds, PhotosStay DEF MediaInv
  <2>3. CASE Goes([task EXCEPT !.pc = "write", !.got = tags])
    <3>1. DOMAIN tags = need
      OBVIOUS
    <3>2. \A p \in need : photo[p].vector # None
      OBVIOUS
    <3> HIDE DEF tags, need
    <3>3. UNCHANGED plan /\ TaskColumns \subseteq DOMAIN task' /\ task'.got = tags
      BY <2>3 DEF Goes, MediaInv, TaskOK, TaskColumns
    <3>4. ScoringPhotos'
      BY <2>1, <3>1, <3>2, <3>3 DEF ScoringPhotos, PhotoRows
    <3> QED BY <1>1, <2>1, <3>3, <3>4, PassGoesOn, PhotosStay DEF MediaInv
  <2> QED BY <1>3, <2>2, <2>3 DEF ReadUnscoredImages
<1>4. CASE WriteImageScores
  <2>1. CASE EndPass /\ UNCHANGED photo
    BY <2>1, PassEnds, PhotosStay DEF MediaInv
  <2>2. CASE /\ photo' = [p \in Photos |-> IF p \in DOMAIN task.got \cap PhotoRows
                             THEN [photo[p] EXCEPT !.tags = task.got[p], !.stamp = task.ctx] ELSE photo[p]]
             /\ Goes([task EXCEPT !.pc = "score", !.got = None])
    <3>1. TaskOK'
      BY <1>1, <2>2, PassGoesOn DEF Goes, MediaInv, TaskOK, TaskColumns, ScoringPhotos
    <3>2. task.pc = "write"
      BY <1>4 DEF WriteImageScores, At
    <3>3. ASSUME NEW p \in Photos, p \in DOMAIN task.got \cap PhotoRows
          PROVE  /\ photo[p] # None /\ DOMAIN photo'[p] = DOMAIN photo[p]
                 /\ Advances(ListedPhoto(photo[p]), ListedPhoto(photo'[p]))
      <4>1. photo[p] # None /\ IsPhotoRow(photo[p])
        BY <3>3 DEF PhotoRows, MediaInv, RowsOK
      <4>2. photo[p].vector # None
        BY <1>1, <3>2, <3>3 DEF MediaInv, TaskOK, ScoringPhotos, Running
      <4>3. photo'[p] = [photo[p] EXCEPT !.tags = task.got[p], !.stamp = task.ctx]
        BY <2>2, <3>3
      <4> DEFINE new == [photo[p] EXCEPT !.tags = task.got[p], !.stamp = task.ctx]
      <4>4. DOMAIN new = DOMAIN photo[p] /\ Advances(ListedPhoto(photo[p]), ListedPhoto(new))
        BY <4>1, <4>2, TagsChange
      <4> HIDE DEF new
      <4> QED BY <4>1, <4>3, <4>4 DEF new
    <3>4. /\ DOMAIN photo' = Photos
          /\ \A p \in Photos : p \notin DOMAIN task.got \cap PhotoRows => photo'[p] = photo[p]
      BY <2>2
    <3> QED BY <3>1, <3>3, <3>4, PhotosAreUpdated DEF MediaInv
  <2> QED BY <1>4, <2>1, <2>2 DEF WriteImageScores
<1> QED BY <1>2, <1>3, <1>4

LEMMA LikingPhotos ==
    ASSUME NullHasNoColumns, MediaInv, UNCHANGED <<video, jpegs>>, ToggleImageFavourite
    PROVE  MediaInv' /\ RowsAdvance
<1>1. UNCHANGED <<plan, task>>
  BY DEF ToggleImageFavourite
<1>2. PICK p \in PhotoRows : photo' = [photo EXCEPT ![p].favourite = ~@]
  BY DEF ToggleImageFavourite
<1> DEFINE row == photo[p]
           new == [row EXCEPT !.favourite = ~@]
<1>3. p \in Photos /\ row # None /\ IsPhotoRow(row)
  BY <1>2 DEF PhotoRows, MediaInv, RowsOK
<1>4. /\ DOMAIN new = DOMAIN row /\ new.tagged = row.tagged /\ new.vector = row.vector
      /\ Advances(ListedPhoto(row), ListedPhoto(new))
  BY <1>3, HeartChange
<1>5. DOMAIN photo' = Photos /\ photo'[p] = new /\ \A q \in Photos : q # p => photo'[q] = photo[q]
  BY <1>2, <1>3 DEF MediaInv, RowsOK
<1> HIDE DEF new
<1>6. RowsOK' /\ RowsAdvance
  BY <1>3, <1>4, <1>5, PhotosAreUpdated
<1>7. TaskOK'
  BY <1>1, <1>3, <1>4, <1>5, TaskKept
<1> QED BY <1>6, <1>7 DEF MediaInv

---------------------------------------------------------------------------
(* Videos.                                                                 *)

(* What others do to the photos is nothing to the videos, and the other    *)
(* way round; each video is as it was, gone, new, or ahead.                *)
LEMMA VideosChange ==
    ASSUME MediaInv, UNCHANGED photo, DOMAIN video' = Videos, DOMAIN jpegs' = Videos,
           \A v \in Videos : \A g \in jpegs'[v] : g[2] \in Contents,
           \A v \in Videos : /\ video'[v] # None => IsVideoRow(video'[v])
                             /\ VideoAdvances(video[v], video'[v])
    PROVE  RowsOK' /\ RowsAdvance
BY DEF MediaInv, RowsOK, RowsAdvance, PhotoRows, VideoRows, PhotoAdvances

LEMMA VideosStay ==
    ASSUME MediaInv, UNCHANGED <<photo, video>>, DOMAIN jpegs' = Videos,
           \A v \in Videos : \A g \in jpegs'[v] : g[2] \in Contents
    PROVE  RowsOK' /\ RowsAdvance
BY DEF MediaInv, RowsOK, RowsAdvance, PhotoRows, VideoRows, PhotoAdvances, VideoAdvances

LEMMA VideosAreUpdated ==
    ASSUME MediaInv, UNCHANGED <<photo, jpegs>>, DOMAIN video' = Videos,
           \A v \in Videos : \/ video'[v] = video[v]
                             \/ video'[v] = None
                             \/ /\ video[v] # None /\ video'[v] # None /\ IsVideoRow(video'[v])
                                /\ Advances(ListedVideo(video[v]), ListedVideo(video'[v]))
    PROVE  RowsOK' /\ RowsAdvance
<1>1. ASSUME NEW v \in Videos
      PROVE  /\ video'[v] # None => IsVideoRow(video'[v])
             /\ VideoAdvances(video[v], video'[v])
  <2>1. video[v] # None => IsVideoRow(video[v])
    BY DEF MediaInv, RowsOK, VideoRows
  <2> QED BY <2>1 DEF VideoAdvances
<1>2. DOMAIN jpegs' = Videos /\ \A v \in Videos : \A g \in jpegs'[v] : g[2] \in Contents
  BY DEF MediaInv, RowsOK
<1> QED BY <1>1, <1>2, VideosChange

LEMMA VideoRowAdvances ==
    ASSUME NEW row, NEW new
    PROVE  LET Same(c) == new[c] = row[c]
               seen == HasVector(new.frames) <=> HasVector(row.frames)
               may == Advances(ListedVideo(row), ListedVideo(new))
           IN  /\ Same("tagged") /\ seen /\ Same("favourite") /\ Same("objects") /\ Same("tags") => may
               /\ Same("tagged") /\ seen /\ Same("favourite") /\ Same("tags") /\ ~row.tagged => may
               /\ seen /\ Same("favourite") /\ Same("objects") /\ Same("tags") /\ new.tagged = TRUE => may
               /\ Same("tagged") /\ Same("favourite") /\ Same("objects") /\ Same("tags")
                  /\ HasVector(new.frames) => may
               /\ Same("tagged") /\ Same("favourite") /\ Same("objects") /\ Same("tags") /\ ~row.tagged => may
               /\ Same("tagged") /\ seen /\ Same("favourite") /\ Same("objects")
                  /\ HasVector(row.frames) => may
               /\ Same("tagged") /\ seen /\ Same("objects") /\ Same("tags")
                  /\ new.favourite = ~row.favourite => may
<1> DEFINE a == ListedVideo(row)
           b == ListedVideo(new)
<1>1. /\ IsListing(a) /\ a.tagged = row.tagged /\ a.favourite = row.favourite
      /\ a.objects = row.objects /\ a.tags = row.tags /\ a.searchable = HasVector(row.frames)
  BY VideoListing
<1>2. /\ IsListing(b) /\ b.tagged = new.tagged /\ b.favourite = new.favourite
      /\ b.objects = new.objects /\ b.tags = new.tags /\ b.searchable = HasVector(new.frames)
  BY VideoListing
<1> HIDE DEF a, b
<1>3. /\ (HasVector(new.frames) <=> HasVector(row.frames)) => b.searchable = a.searchable
      /\ HasVector(new.frames) => b.searchable = TRUE
      /\ ~HasVector(new.frames) => b.searchable = FALSE
      /\ HasVector(row.frames) => a.searchable
  BY <1>1, <1>2 DEF HasVector
<1>4. ASSUME new.tagged = row.tagged, b.searchable = a.searchable, new.favourite = row.favourite, new.tags = row.tags
      PROVE  /\ AgreeBut(a, b, {"objects"})
             /\ new.objects = row.objects => AgreeBut(a, b, {})
  BY <1>1, <1>2, <1>4 DEF AgreeBut
<1>5. ASSUME new.favourite = row.favourite, new.objects = row.objects, new.tags = row.tags
      PROVE  /\ b.searchable = a.searchable => AgreeBut(a, b, {"tagged"})
             /\ new.tagged = row.tagged => AgreeBut(a, b, {"searchable"})
  BY <1>1, <1>2, <1>5 DEF AgreeBut
<1>6. ASSUME new.tagged = row.tagged, b.searchable = a.searchable, new.objects = row.objects
      PROVE  /\ new.favourite = row.favourite => AgreeBut(a, b, {"tags"})
             /\ new.tags = row.tags => AgreeBut(a, b, {"favourite"})
  BY <1>1, <1>2, <1>6 DEF AgreeBut
<1>7. new.favourite = ~row.favourite => b.favourite = ~a.favourite
  BY <1>1, <1>2
<1>8. /\ ~row.tagged => ~a.tagged
      /\ new.tagged = TRUE => b.tagged = TRUE
  BY <1>1, <1>2
<1>9. /\ AgreeBut(a, b, {}) => Advances(a, b)
      /\ AgreeBut(a, b, {"objects"}) /\ ~a.tagged => Advances(a, b)
      /\ AgreeBut(a, b, {"searchable"}) /\ b.searchable = FALSE /\ ~a.tagged => Advances(a, b)
      /\ AgreeBut(a, b, {"tagged"}) /\ b.tagged = TRUE => Advances(a, b)
      /\ AgreeBut(a, b, {"searchable"}) /\ b.searchable = TRUE => Advances(a, b)
      /\ AgreeBut(a, b, {"tags"}) /\ a.searchable => Advances(a, b)
      /\ AgreeBut(a, b, {"favourite"}) /\ b.favourite = ~a.favourite => Advances(a, b)
  BY <1>1, <1>2, ListingAdvances, Zenon
<1> HIDE DEF Advances
<1> QED BY <1>3, <1>4, <1>5, <1>6, <1>7, <1>8, <1>9 DEF a, b

LEMMA NewVideos ==
    ASSUME NullHasNoColumns, NEW t, NEW print
    PROVE  /\ IsVideoRow(NewVideo(t, print)) /\ NewVideo(t, print) # None
           /\ ListedVideo(NewVideo(t, print)) = Items!New
<1> DEFINE row == NewVideo(t, print)
<1>1. DOMAIN row = VideoColumns
  BY DEF NewVideo, VideoColumns
<1>2. row.frames = <<>> /\ AreFrames(row.frames)
  BY DEF NewVideo, AreFrames, IsSequence
<1>3. (\E k \in DOMAIN row.frames : row.frames[k].vector # None) = FALSE
  BY <1>2
<1>4. ListedVideo(row) = Items!New
  BY <1>3 DEF NewVideo, ListedVideo, Items!New
<1> QED BY <1>1, <1>2, <1>4 DEF NullHasNoColumns, IsVideoRow, VideoColumns

(* Columns of frames may change one by one. *)
LEMMA FramesKept ==
    ASSUME NEW frames, AreFrames(frames), NEW new, new = [k \in DOMAIN frames |-> new[k]],
           \A k \in DOMAIN frames : DOMAIN new[k] = DOMAIN frames[k]
    PROVE  AreFrames(new)
<1>1. PICK S : frames \in Seq(S)
  BY DEF AreFrames, IsSequence
<1>2. DOMAIN frames = 1..Len(frames) /\ Len(frames) \in Nat
  BY <1>1
<1> DEFINE T == {new[k] : k \in DOMAIN frames}
<1>3. new \in [1..Len(frames) -> T]
  BY <1>2
<1>4. new \in Seq(T)
  BY <1>2, <1>3
<1> QED BY <1>4 DEF AreFrames, IsSequence

---------------------------------------------------------------------------
(* The passes over videos.                                                 *)

LEMMA ScanningVideos ==
    ASSUME NullHasNoColumns, MediaInv, UNCHANGED photo,
           \/ PrepareVideos \/ RemoveObsoleteVideos \/ RemoveObsoleteFiles \/ BulkInsertVideos \/ RemovePosters
    PROVE  MediaInv' /\ RowsAdvance
<1>1. CASE PrepareVideos
  <2>1. TaskOK'
    BY <1>1, PassGoesOn DEF PrepareVideos, Starts, At, Goes, MediaInv, TaskOK, TaskColumns
  <2> QED BY <1>1, <2>1, VideosStay DEF PrepareVideos, videoVars, MediaInv, RowsOK
<1>2. CASE RemoveObsoleteVideos
  <2>1. TaskOK'
    BY <1>2, PassGoesOn DEF RemoveObsoleteVideos, At, Goes, MediaInv, TaskOK, TaskColumns
  <2>2. DOMAIN video' = Videos /\ \A v \in Videos : video'[v] = video[v] \/ video'[v] = None
    BY <1>2 DEF RemoveObsoleteVideos, MediaInv, RowsOK
  <2>3. UNCHANGED jpegs
    BY <1>2 DEF RemoveObsoleteVideos
  <2> QED BY <2>1, <2>2, <2>3, VideosAreUpdated DEF MediaInv
<1>3. CASE RemoveObsoleteFiles
  <2>1. TaskOK'
    BY <1>3, PassGoesOn DEF RemoveObsoleteFiles, At, Goes, MediaInv, TaskOK, TaskColumns
  <2>2. UNCHANGED video /\ DOMAIN jpegs' = Videos /\ \A v \in Videos : jpegs'[v] \in {{}, jpegs[v]}
    BY <1>3 DEF RemoveObsoleteFiles
  <2>3. \A v \in Videos : \A g \in jpegs'[v] : g[2] \in Contents
    BY <2>2 DEF MediaInv, RowsOK
  <2> QED BY <2>1, <2>2, <2>3, VideosStay DEF MediaInv
<1>4. CASE BulkInsertVideos
  <2>1. UNCHANGED jpegs /\ plan # <<>> /\ Head(plan) = "scanVideos"
    BY <1>4 DEF BulkInsertVideos, At
  <2>2. TaskOK'
    BY <1>4, <2>1, PassGoesOn DEF BulkInsertVideos, Goes, MediaInv, TaskOK, TaskColumns
  <2>3. CASE UNCHANGED video
    BY <2>1, <2>2, <2>3, VideosStay DEF MediaInv, RowsOK
  <2>4. CASE video' = [v \in Videos |-> IF v \in DOMAIN task.recs
                                           THEN UpsertedVideo(video[v], task.recs[v]) ELSE video[v]]
    <3>1. ASSUME NEW v \in Videos
          PROVE  /\ video'[v] # None => IsVideoRow(video'[v])
                 /\ VideoAdvances(video[v], video'[v])
      <4>1. video[v] # None => IsVideoRow(video[v])
        BY DEF MediaInv, RowsOK, VideoRows
      <4>2. CASE video'[v] = video[v]
        BY <4>1, <4>2 DEF VideoAdvances
      <4>3. CASE video'[v] = UpsertedVideo(video[v], task.recs[v]) /\ video[v] = None
        BY <4>3, NewVideos DEF UpsertedVideo, VideoAdvances
      <4>4. CASE video'[v] = UpsertedVideo(video[v], task.recs[v]) /\ video[v] # None
        <5> DEFINE row == video[v]
                   rec == task.recs[v]
                   thumb == IF rec.thumb = None THEN row.thumb ELSE rec.thumb
                   new == [row EXCEPT !.print = rec.print, !.thumb = thumb]
        <5>1. video'[v] = new
          BY <4>1, <4>4 DEF UpsertedVideo, IsVideoRow, VideoColumns
        <5>2. /\ DOMAIN new = DOMAIN row /\ new.frames = row.frames /\ new.tagged = row.tagged
              /\ new.favourite = row.favourite /\ new.objects = row.objects /\ new.tags = row.tags
          BY <4>1, <4>4 DEF IsVideoRow, VideoColumns
        <5> HIDE DEF new
        <5>3. IsVideoRow(new) /\ new # None
          BY <4>1, <4>4, <5>2 DEF IsVideoRow, VideoColumns, NullHasNoColumns
        <5>4. Advances(ListedVideo(row), ListedVideo(new))
          BY <5>2, VideoRowAdvances
        <5> QED BY <4>4, <5>1, <5>3, <5>4 DEF VideoAdvances
      <4> QED BY <2>4, <4>2, <4>3, <4>4
    <3>2. DOMAIN video' = Videos
      BY <2>4
    <3> QED BY <2>1, <2>2, <3>1, <3>2, VideosChange DEF MediaInv, RowsOK
  <2> QED BY <1>4, <2>3, <2>4 DEF BulkInsertVideos
<1>5. CASE RemovePosters
  BY <1>5, PassEnds, VideosStay DEF RemovePosters, videoVars, MediaInv, RowsOK
<1> QED BY <1>1, <1>2, <1>3, <1>4, <1>5

(* A sample has finitely many keyframes. *)
LEMMA SamplesAreFinite ==
    ASSUME NEW duration, NEW every PROVE Cardinality(SampleTimestamps(duration, every)) \in Nat
<1> DEFINE chunk == 2 * Max({every * MaxFrames, duration})
           whole == 2 * MaxFrames * duration
           mid == [k \in 0..(MaxFrames - 1) |-> (chunk \div 2) + k * chunk]
           all == {(chunk \div 2) + k * chunk : k \in 0..(MaxFrames - 1)}
<1>1. IsFiniteSet(all)
  <2>1. IsFiniteSet(0..(MaxFrames - 1))
    BY FS_Interval, VideoAssumption DEF VideoAssumption
  <2>2. mid \in Surjection(0..(MaxFrames - 1), all)
    BY DEF Surjection
  <2> QED BY <2>1, <2>2, FS_Surjection
<1> HIDE DEF chunk, whole
<1>2. IsFiniteSet({t \in all : t < whole})
  <2>1. {t \in all : t < whole} \in SUBSET all
    OBVIOUS
  <2> HIDE DEF all
  <2> QED BY <1>1, <2>1, FS_Subset
<1>3. SampleTimestamps(duration, every) \in {{0}, {whole \div 2}, {t \in all : t < whole}}
  BY DEF SampleTimestamps, chunk, whole
<1> QED BY <1>2, <1>3, FS_Singleton, FS_CardinalityType

(* A statement on the video at hand. *)
LEMMA CurrentChanges ==
    ASSUME NullHasNoColumns, MediaInv, UNCHANGED <<photo, jpegs>>,
           NEW new, task.cur \in VideoRows, video' = [video EXCEPT ![task.cur] = new],
           IsVideoRow(new), Advances(ListedVideo(video[task.cur]), ListedVideo(new))
    PROVE  RowsOK' /\ RowsAdvance
<1>1. task.cur \in Videos /\ new # None
  BY DEF VideoRows, IsVideoRow, VideoColumns, NullHasNoColumns
<1>2. /\ DOMAIN video' = Videos /\ video'[task.cur] = new
      /\ \A v \in Videos : v # task.cur => video'[v] = video[v]
  BY <1>1 DEF MediaInv, RowsOK
<1> QED BY <1>1, <1>2, VideosAreUpdated DEF VideoRows

(* The columns of a video's row as tagging sets them. *)
LEMMA VideoColumnChange ==
    ASSUME NullHasNoColumns, NEW row, row # None, IsVideoRow(row), NEW x
    PROVE  /\ AreFrames(x) /\ ~row.tagged =>
                /\ IsVideoRow([row EXCEPT !.frames = x])
                /\ [row EXCEPT !.frames = x].tagged = row.tagged
                /\ Advances(ListedVideo(row), ListedVideo([row EXCEPT !.frames = x]))
           /\ ~row.tagged =>
                /\ IsVideoRow([row EXCEPT !.objects = x])
                /\ [row EXCEPT !.objects = x].tagged = row.tagged
                /\ Advances(ListedVideo(row), ListedVideo([row EXCEPT !.objects = x]))
           /\ /\ IsVideoRow([row EXCEPT !.tagged = TRUE])
              /\ Advances(ListedVideo(row), ListedVideo([row EXCEPT !.tagged = TRUE]))
<1>1. ASSUME AreFrames(x), ~row.tagged
      PROVE  /\ IsVideoRow([row EXCEPT !.frames = x])
             /\ [row EXCEPT !.frames = x].tagged = row.tagged
             /\ Advances(ListedVideo(row), ListedVideo([row EXCEPT !.frames = x]))
  <2> DEFINE new == [row EXCEPT !.frames = x]
  <2>1. /\ DOMAIN new = DOMAIN row /\ new.tagged = row.tagged /\ new.favourite = row.favourite
        /\ new.frames = x /\ new.objects = row.objects /\ new.tags = row.tags
    BY DEF IsVideoRow, VideoColumns
  <2> HIDE DEF new
  <2>2. IsVideoRow(new)
    BY <1>1, <2>1 DEF IsVideoRow
  <2> QED BY <1>1, <2>1, <2>2, VideoRowAdvances DEF new
<1>2. ASSUME ~row.tagged
      PROVE  /\ IsVideoRow([row EXCEPT !.objects = x])
             /\ [row EXCEPT !.objects = x].tagged = row.tagged
             /\ Advances(ListedVideo(row), ListedVideo([row EXCEPT !.objects = x]))
  <2> DEFINE new == [row EXCEPT !.objects = x]
  <2>1. /\ DOMAIN new = DOMAIN row /\ new.tagged = row.tagged /\ new.favourite = row.favourite
        /\ new.frames = row.frames /\ new.tags = row.tags
    BY DEF IsVideoRow, VideoColumns
  <2> HIDE DEF new
  <2>2. IsVideoRow(new)
    BY <2>1 DEF IsVideoRow
  <2> QED BY <1>2, <2>1, <2>2, VideoRowAdvances DEF new
<1>3. /\ IsVideoRow([row EXCEPT !.tagged = TRUE])
      /\ Advances(ListedVideo(row), ListedVideo([row EXCEPT !.tagged = TRUE]))
  <2> DEFINE new == [row EXCEPT !.tagged = TRUE]
  <2>1. /\ DOMAIN new = DOMAIN row /\ new.tagged = TRUE /\ new.favourite = row.favourite
        /\ new.frames = row.frames /\ new.objects = row.objects /\ new.tags = row.tags
    BY DEF IsVideoRow, VideoColumns
  <2> HIDE DEF new
  <2>2. IsVideoRow(new)
    BY <2>1 DEF IsVideoRow
  <2> QED BY <2>1, <2>2, VideoRowAdvances DEF new
<1> QED BY <1>1, <1>2, <1>3

(* The frames that are added are frames.                                   *)
LEMMA FramesAdded ==
    ASSUME NEW row, row # None, IsVideoRow(row), task.got \in Nat
    PROVE  \E x : AreFrames(x) /\ WithFrames(row) = [row EXCEPT !.frames = x]
<1> DEFINE kept == {i \in 1..task.got : \E k \in DOMAIN row.frames :
                                        row.frames[k].path /\ row.frames[k].idx = i}
           news == {i \in 1..task.got : i \notin kept}
           nth(k) == CHOOSE i \in news : Cardinality({j \in news : j < i}) = k - 1
           added == [k \in 1..Cardinality(news) |-> NewFrame(nth(k))]
           all == row.frames \o added
<1>1. WithFrames(row) = [row EXCEPT !.frames = all]
  BY DEF WithFrames, IsVideoRow, VideoColumns
<1>2. Cardinality(news) \in Nat
  <2>1. IsFiniteSet(1..task.got)
    BY FS_Interval
  <2>2. news \in SUBSET (1..task.got)
    OBVIOUS
  <2> HIDE DEF news
  <2> QED BY <2>1, <2>2, FS_Subset, FS_CardinalityType
<1>3. \A k \in 1..Cardinality(news) : DOMAIN added[k] = FrameColumns
  BY DEF NewFrame, FrameColumns
<1> DEFINE n == Cardinality(news)
           T == {NewFrame(nth(k)) : k \in 1..n}
<1>4. added \in [1..n -> T]
  OBVIOUS
<1>5. DOMAIN added = 1..n
  OBVIOUS
<1> HIDE DEF added, T, n, news, kept
<1>6. n \in Nat
  BY <1>2 DEF n
<1>7. added \in Seq(T) /\ Len(added) = n
  BY <1>4, <1>5, <1>6
<1>8. PICK S : row.frames \in Seq(S)
  BY DEF IsVideoRow, AreFrames, IsSequence
<1>9. row.frames \in Seq(S \cup T) /\ added \in Seq(S \cup T)
  BY <1>7, <1>8
<1>10. all \in Seq(S \cup T)
  BY <1>9
<1>11. ASSUME NEW k \in DOMAIN all PROVE FrameColumns \subseteq DOMAIN all[k]
  <2>1. k \in 1..(Len(row.frames) + Len(added)) /\ Len(row.frames) \in Nat
    BY <1>9, <1>10, <1>11
  <2>2. CASE k <= Len(row.frames)
    <3>1. k \in DOMAIN row.frames /\ all[k] = row.frames[k]
      BY <1>9, <2>1, <2>2
    <3> QED BY <3>1 DEF IsVideoRow, AreFrames
  <2>3. CASE k > Len(row.frames)
    <3>1. all[k] = added[k - Len(row.frames)] /\ k - Len(row.frames) \in 1..n
      BY <1>6, <1>7, <1>9, <2>1, <2>3
    <3> QED BY <1>3, <3>1 DEF n
  <2> QED BY <2>1, <2>2, <2>3
<1> HIDE DEF all
<1> QED BY <1>1, <1>10, <1>11 DEF AreFrames, IsSequence

LEMMA TaggingOfVideos ==
    ASSUME NullHasNoColumns, MediaInv, UNCHANGED photo,
           \/ GetUntaggedVideos \/ ExtractFrames \/ DeleteFrames \/ InsertFrames
           \/ WriteVideoClasses \/ MarkVideoTagged
    PROVE  MediaInv' /\ RowsAdvance
<1>1. plan # <<>> /\ Head(plan) = "tagVideos"
  BY DEF GetUntaggedVideos, ExtractFrames, DeleteFrames, InsertFrames, WriteVideoClasses, MarkVideoTagged, Starts, At
<1>2. ASSUME task.pc # "idle"
      PROVE  /\ \A v \in task.todo : v \in Videos /\ VideoUntagged(v)
             /\ task.pc \in {"deleteFrames", "insertFrames", "classes"} => task.cur \in task.todo
             /\ task.pc \in {"deleteFrames", "insertFrames"} => task.got \in Nat
  BY <1>1, <1>2 DEF MediaInv, TaskOK, TaggingVideos, Running
<1>3. ASSUME UNCHANGED plan, TaskColumns \subseteq DOMAIN task', TaggingVideos' PROVE TaskOK'
  BY <1>1, <1>3, PassGoesOn
<1>4. CASE GetUntaggedVideos
  <2>1. UNCHANGED <<video, jpegs>>
    BY <1>4 DEF GetUntaggedVideos, videoVars
  <2>2. RowsOK' /\ RowsAdvance
    BY <2>1, VideosStay DEF MediaInv, RowsOK
  <2> DEFINE untagged == {v \in VideoRows : folder = "ai" /\ ~video[v].tagged}
  <2>3. CASE EndPass
    BY <2>2, <2>3, PassEnds DEF MediaInv
  <2>4. CASE Goes([task EXCEPT !.pc = "extract", !.todo = untagged, !.ctx = interval])
    <3>1. /\ UNCHANGED plan /\ TaskColumns \subseteq DOMAIN task'
          /\ task'.todo = untagged /\ task'.pc = "extract"
      BY <2>4 DEF Goes, MediaInv, TaskOK, TaskColumns
    <3>2. TaggingVideos'
      BY <2>1, <3>1 DEF TaggingVideos, VideoUntagged, VideoRows
    <3> QED BY <1>3, <2>2, <3>1, <3>2 DEF MediaInv
  <2> QED BY <1>4, <2>3, <2>4 DEF GetUntaggedVideos
<1>5. CASE ExtractFrames
  <2>1. task.pc = "extract" /\ UNCHANGED video
    BY <1>5 DEF ExtractFrames, At
  <2>2. PICK v \in task.todo :
          LET n == Cardinality(SampleTimestamps(Duration[file[v]], task.ctx))
          IN  \/ /\ CvReads(file[v])
                 /\ jpegs' = [jpegs EXCEPT ![v] = {<<i, file[v]>> : i \in 1..n}]
                 /\ Goes([task EXCEPT !.pc = "deleteFrames", !.cur = v, !.got = n])
              \/ /\ jpegs' = [jpegs EXCEPT ![v] = {}]
                 /\ Goes([task EXCEPT !.pc = "flag", !.cur = v])
    BY <1>5 DEF ExtractFrames
  <2> DEFINE n == Cardinality(SampleTimestamps(Duration[file[v]], task.ctx))
  <2>3. n \in Nat
    BY SamplesAreFinite
  <2>4. v \in Videos
    BY <1>2, <2>1, <2>2
  <2> HIDE DEF n
  <2>5. CASE /\ CvReads(file[v])
             /\ jpegs' = [jpegs EXCEPT ![v] = {<<i, file[v]>> : i \in 1..n}]
             /\ Goes([task EXCEPT !.pc = "deleteFrames", !.cur = v, !.got = n])
    <3>1. /\ UNCHANGED plan /\ TaskColumns \subseteq DOMAIN task'
          /\ task'.todo = task.todo /\ task'.cur = v /\ task'.got = n
      BY <2>5 DEF Goes, MediaInv, TaskOK, TaskColumns
    <3>2. TaggingVideos'
      BY <1>2, <2>1, <2>2, <2>3, <3>1 DEF TaggingVideos, VideoUntagged
    <3>3. DOMAIN jpegs' = Videos /\ \A w \in Videos : \A g \in jpegs'[w] : g[2] \in Contents
      BY <2>4, <2>5 DEF CvReads, MediaInv, RowsOK
    <3> QED BY <1>3, <2>1, <3>1, <3>2, <3>3, VideosStay DEF MediaInv
  <2>6. CASE /\ jpegs' = [jpegs EXCEPT ![v] = {}]
             /\ Goes([task EXCEPT !.pc = "flag", !.cur = v])
    <3>1. /\ UNCHANGED plan /\ TaskColumns \subseteq DOMAIN task'
          /\ task'.todo = task.todo /\ task'.pc = "flag"
      BY <2>6 DEF Goes, MediaInv, TaskOK, TaskColumns
    <3>2. TaggingVideos'
      BY <1>2, <2>1, <3>1 DEF TaggingVideos, VideoUntagged
    <3>3. DOMAIN jpegs' = Videos /\ \A w \in Videos : \A g \in jpegs'[w] : g[2] \in Contents
      BY <2>4, <2>6 DEF MediaInv, RowsOK
    <3> QED BY <1>3, <2>1, <3>1, <3>2, <3>3, VideosStay DEF MediaInv
  <2> QED BY <2>2, <2>5, <2>6 DEF n
<1>6. ASSUME UNCHANGED <<video, jpegs>>, task.pc # "idle"
      PROVE  RowsOK' /\ RowsAdvance /\ \A v \in task.todo : VideoUntagged(v)'
  BY <1>2, <1>6, VideosStay DEF MediaInv, RowsOK, VideoUntagged
<1>7. ASSUME UNCHANGED jpegs, task.pc # "idle", task.cur \in VideoRows,
             NEW new, video' = [video EXCEPT ![task.cur] = new],
             IsVideoRow(new), Advances(ListedVideo(video[task.cur]), ListedVideo(new))
      PROVE  /\ RowsOK' /\ RowsAdvance
             /\ \A v \in task.todo : v # task.cur => VideoUntagged(v)'
             /\ ~new.tagged => \A v \in task.todo : VideoUntagged(v)'
  <2>1. RowsOK' /\ RowsAdvance
    BY <1>7, CurrentChanges
  <2>2. task.cur \in Videos
    BY <1>7 DEF VideoRows
  <2>3. video'[task.cur] = new /\ \A v \in Videos : v # task.cur => video'[v] = video[v]
    BY <1>7, <2>2 DEF MediaInv, RowsOK
  <2> QED BY <1>2, <1>7, <2>1, <2>3 DEF VideoUntagged
<1>8. ASSUME task.cur \in VideoRows
      PROVE  video[task.cur] # None /\ IsVideoRow(video[task.cur])
  BY <1>8 DEF MediaInv, RowsOK, VideoRows
<1>9. ASSUME task.cur \in VideoRows, task.pc \in {"deleteFrames", "insertFrames", "classes"}
      PROVE  ~video[task.cur].tagged
  BY <1>2, <1>8, <1>9 DEF VideoUntagged
<1>10. CASE DeleteFrames
  <2>1. /\ task.pc = "deleteFrames" /\ UNCHANGED <<plan, jpegs>> /\ TaskColumns \subseteq DOMAIN task'
        /\ task'.todo = task.todo /\ task'.cur = task.cur /\ task'.got = task.got
    BY <1>10 DEF DeleteFrames, At, Goto, Goes, MediaInv, TaskOK, TaskColumns
  <2>2. RowsOK' /\ RowsAdvance /\ \A v \in task.todo : VideoUntagged(v)'
    <3>1. CASE UNCHANGED video
      BY <1>6, <2>1, <3>1
    <3>2. CASE task.cur \in VideoRows /\ video' = [video EXCEPT ![task.cur] = WithoutFrames(video[task.cur])]
      <4> DEFINE new == [video[task.cur] EXCEPT !.frames = <<>>]
      <4>1. AreFrames(<<>>)
        BY DEF AreFrames, IsSequence
      <4>2. /\ IsVideoRow(new) /\ new.tagged = video[task.cur].tagged
            /\ Advances(ListedVideo(video[task.cur]), ListedVideo(new))
        BY <1>8, <1>9, <2>1, <3>2, <4>1, VideoColumnChange
      <4>3. video' = [video EXCEPT ![task.cur] = new]
        BY <3>2 DEF WithoutFrames
      <4> HIDE DEF new
      <4> QED BY <1>7, <1>9, <2>1, <3>2, <4>2, <4>3
    <3> QED BY <1>10, <3>1, <3>2 DEF DeleteFrames, SetCurrent
  <2>3. TaggingVideos'
    BY <1>2, <2>1, <2>2 DEF TaggingVideos, VideoUntagged
  <2> QED BY <1>3, <2>1, <2>2, <2>3 DEF MediaInv
<1>11. CASE InsertFrames
  <2>1. /\ task.pc = "insertFrames" /\ UNCHANGED <<plan, jpegs>> /\ TaskColumns \subseteq DOMAIN task'
        /\ task'.pc = "classes" /\ task'.todo = task.todo /\ task'.cur = task.cur
    BY <1>11 DEF InsertFrames, At, Goto, Goes, MediaInv, TaskOK, TaskColumns
  <2>2. RowsOK' /\ RowsAdvance /\ \A v \in task.todo : VideoUntagged(v)'
    <3>1. CASE UNCHANGED video
      BY <1>6, <2>1, <3>1
    <3>2. CASE task.cur \in VideoRows /\ video' = [video EXCEPT ![task.cur] = WithFrames(video[task.cur])]
      <4>1. PICK x : AreFrames(x) /\ WithFrames(video[task.cur]) = [video[task.cur] EXCEPT !.frames = x]
        BY <1>2, <1>8, <2>1, <3>2, FramesAdded
      <4> DEFINE new == [video[task.cur] EXCEPT !.frames = x]
      <4>2. /\ IsVideoRow(new) /\ new.tagged = video[task.cur].tagged
            /\ Advances(ListedVideo(video[task.cur]), ListedVideo(new))
        BY <1>8, <1>9, <2>1, <3>2, <4>1, VideoColumnChange
      <4>3. video' = [video EXCEPT ![task.cur] = new]
        BY <3>2, <4>1
      <4> HIDE DEF new
      <4> QED BY <1>7, <1>9, <2>1, <3>2, <4>2, <4>3
    <3> QED BY <1>11, <3>1, <3>2 DEF InsertFrames, SetCurrent
  <2>3. TaggingVideos'
    BY <1>2, <2>1, <2>2 DEF TaggingVideos, VideoUntagged
  <2> QED BY <1>3, <2>1, <2>2, <2>3 DEF MediaInv
<1>12. CASE WriteVideoClasses
  <2>1. task.pc = "classes" /\ UNCHANGED jpegs
    BY <1>12 DEF WriteVideoClasses, At
  <2>2. CASE EndPass /\ UNCHANGED video
    BY <1>6, <2>1, <2>2, PassEnds DEF MediaInv
  <2>3. CASE /\ Goto("flag")
             /\ \/ UNCHANGED video
                \/ /\ task.cur \in VideoRows
                   /\ \E x : video' = [video EXCEPT ![task.cur] = [@ EXCEPT !.objects = x]]
    <3>1. /\ UNCHANGED plan /\ TaskColumns \subseteq DOMAIN task'
          /\ task'.pc = "flag" /\ task'.todo = task.todo
      BY <2>3 DEF Goto, Goes, MediaInv, TaskOK, TaskColumns
    <3>2. RowsOK' /\ RowsAdvance /\ \A v \in task.todo : VideoUntagged(v)'
      <4>1. CASE UNCHANGED video
        BY <1>6, <2>1, <4>1
      <4>2. ASSUME task.cur \in VideoRows, NEW x,
                   video' = [video EXCEPT ![task.cur] = [@ EXCEPT !.objects = x]]
            PROVE  RowsOK' /\ RowsAdvance /\ \A v \in task.todo : VideoUntagged(v)'
        <5> DEFINE new == [video[task.cur] EXCEPT !.objects = x]
        <5>1. /\ IsVideoRow(new) /\ new.tagged = video[task.cur].tagged
              /\ Advances(ListedVideo(video[task.cur]), ListedVideo(new))
          BY <1>8, <1>9, <2>1, <4>2, VideoColumnChange
        <5>2. video' = [video EXCEPT ![task.cur] = new]
          BY <4>2
        <5> HIDE DEF new
        <5> QED BY <1>7, <1>9, <2>1, <4>2, <5>1, <5>2
      <4> QED BY <2>3, <4>1, <4>2
    <3>3. TaggingVideos'
      BY <1>2, <2>1, <3>1, <3>2 DEF TaggingVideos, VideoUntagged
    <3> QED BY <1>3, <3>1, <3>2, <3>3 DEF MediaInv
  <2> QED BY <1>12, <2>2, <2>3 DEF WriteVideoClasses, SetCurrent
<1>13. CASE MarkVideoTagged
  <2>1. task.pc = "flag" /\ UNCHANGED jpegs
    BY <1>13 DEF MarkVideoTagged, At
  <2>2. RowsOK' /\ RowsAdvance /\ \A v \in task.todo : v # task.cur => VideoUntagged(v)'
    <3>1. CASE UNCHANGED video
      BY <1>6, <2>1, <3>1
    <3>2. CASE task.cur \in VideoRows /\ video' = [video EXCEPT ![task.cur] = FlaggedVideo(video[task.cur])]
      <4> DEFINE new == [video[task.cur] EXCEPT !.tagged = TRUE]
      <4>1. IsVideoRow(new) /\ Advances(ListedVideo(video[task.cur]), ListedVideo(new))
        BY <1>8, <3>2, VideoColumnChange
      <4>2. video' = [video EXCEPT ![task.cur] = new]
        BY <3>2 DEF FlaggedVideo
      <4> HIDE DEF new
      <4> QED BY <1>7, <2>1, <3>2, <4>1, <4>2
    <3> QED BY <1>13, <3>1, <3>2 DEF MarkVideoTagged, SetCurrent
  <2>3. NextOf(task.todo \ {task.cur}, "extract")
    BY <1>13 DEF MarkVideoTagged
  <2>4. ASSUME UNCHANGED plan, TaskColumns \subseteq DOMAIN task',
               task'.todo = task.todo \ {task.cur}, task'.pc = "extract"
        PROVE  TaskOK'
    <3>1. TaggingVideos'
      BY <1>2, <2>1, <2>2, <2>4 DEF TaggingVideos, VideoUntagged
    <3> QED BY <1>3, <2>4, <3>1
  <2> QED BY <2>2, <2>3, <2>4, NextOrEnd, PassEnds DEF MediaInv
<1> QED BY <1>4, <1>5, <1>10, <1>11, <1>12, <1>13

(* A video whose frames change one by one, and not in number or index.     *)
LEMMA FramesChange ==
    ASSUME NullHasNoColumns, NEW row, row # None, IsVideoRow(row), NEW x,
           x = [k \in DOMAIN row.frames |-> x[k]],
           \A k \in DOMAIN row.frames : DOMAIN x[k] = DOMAIN row.frames[k],
           (HasVector(x) <=> HasVector(row.frames)) \/ HasVector(x)
    PROVE  /\ IsVideoRow([row EXCEPT !.frames = x])
           /\ [row EXCEPT !.frames = x].frames = x
           /\ Advances(ListedVideo(row), ListedVideo([row EXCEPT !.frames = x]))
<1> DEFINE new == [row EXCEPT !.frames = x]
<1>1. /\ DOMAIN new = DOMAIN row /\ new.tagged = row.tagged /\ new.favourite = row.favourite
      /\ new.frames = x /\ new.objects = row.objects /\ new.tags = row.tags
  BY DEF IsVideoRow, VideoColumns
<1>2. AreFrames(x)
  BY FramesKept DEF IsVideoRow
<1> HIDE DEF new
<1>3. IsVideoRow(new)
  BY <1>1, <1>2 DEF IsVideoRow
<1> QED BY <1>1, <1>3, VideoRowAdvances DEF new

(* A statement that changes the frames of many videos, one by one: x has   *)
(* the new frames of each.                                                 *)
Framewise(x) ==
    /\ DOMAIN video' = Videos /\ \A v \in Videos : v \notin VideoRows => video'[v] = None
    /\ \A v \in VideoRows :
          /\ video'[v] = [video[v] EXCEPT !.frames = x[v]]
          /\ x[v] = [k \in DOMAIN video[v].frames |-> x[v][k]]
          /\ \A k \in DOMAIN video[v].frames :
                /\ DOMAIN x[v][k] = DOMAIN video[v].frames[k]
                /\ x[v][k].idx = video[v].frames[k].idx
                /\ x[v][k].vector = video[v].frames[k].vector \/ x[v][k].vector # None

LEMMA ManyFramesChange ==
    ASSUME NullHasNoColumns, MediaInv, UNCHANGED <<photo, jpegs>>, NEW x, Framewise(x)
    PROVE  /\ RowsOK' /\ RowsAdvance
           /\ \A f : Matches(f) => Matches(f)'
           /\ \A v \in VideoRows : video'[v].frames = x[v] /\ video'[v].tagged = video[v].tagged
<1>1. ASSUME NEW v \in VideoRows
      PROVE  /\ IsVideoRow(video'[v]) /\ video'[v] # None
             /\ video'[v].frames = x[v] /\ video'[v].tagged = video[v].tagged
             /\ Advances(ListedVideo(video[v]), ListedVideo(video'[v]))
  <2> DEFINE y == x[v]
  <2>1. y = [k \in DOMAIN video[v].frames |-> y[k]]
    BY DEF Framewise
  <2>2. \A k \in DOMAIN video[v].frames :
           /\ DOMAIN y[k] = DOMAIN video[v].frames[k]
           /\ y[k].vector = video[v].frames[k].vector \/ y[k].vector # None
    BY DEF Framewise
  <2>3. video'[v] = [video[v] EXCEPT !.frames = y]
    BY DEF Framewise
  <2>4. video[v] # None /\ IsVideoRow(video[v])
    BY DEF MediaInv, RowsOK, VideoRows
  <2> HIDE DEF y
  <2>5. DOMAIN y = DOMAIN video[v].frames
    BY <2>1
  <2>6. (HasVector(y) <=> HasVector(video[v].frames)) \/ HasVector(y)
    BY <2>2, <2>5 DEF HasVector
  <2>7. IsVideoRow(video'[v]) /\ video'[v].frames = y /\ Advances(ListedVideo(video[v]), ListedVideo(video'[v]))
    BY <2>1, <2>2, <2>3, <2>4, <2>6, FramesChange
  <2>8. video'[v].tagged = video[v].tagged
    BY <2>3, <2>4 DEF IsVideoRow, VideoColumns
  <2> QED BY <2>7, <2>8 DEF y, IsVideoRow, VideoColumns, NullHasNoColumns
<1>2. RowsOK' /\ RowsAdvance
  <2>1. \A v \in Videos : \/ video'[v] = None
                          \/ /\ video[v] # None /\ video'[v] # None /\ IsVideoRow(video'[v])
                             /\ Advances(ListedVideo(video[v]), ListedVideo(video'[v]))
    BY <1>1 DEF VideoRows, Framewise
  <2> QED BY <2>1, VideosAreUpdated DEF Framewise
<1>3. ASSUME NEW f, Matches(f) PROVE Matches(f)'
  <2>1. SUFFICES ASSUME f[1] \in Videos, video'[f[1]] # None, f[2] \in DOMAIN video'[f[1]].frames
                 PROVE  video'[f[1]].frames[f[2]].idx = f[3]
    BY DEF Matches, VideoRows
  <2>2. f[1] \in VideoRows
    BY <2>1 DEF Framewise
  <2> DEFINE y == x[f[1]]
  <2>3. video'[f[1]].frames = y /\ y = [k \in DOMAIN video[f[1]].frames |-> y[k]]
    BY <1>1, <2>2 DEF Framewise
  <2>4. \A k \in DOMAIN video[f[1]].frames : y[k].idx = video[f[1]].frames[k].idx
    BY <2>2 DEF Framewise
  <2> HIDE DEF y
  <2>5. DOMAIN y = DOMAIN video[f[1]].frames
    BY <2>3
  <2> QED BY <1>3, <2>1, <2>2, <2>3, <2>4, <2>5 DEF Matches
<1> QED BY <1>1, <1>2, <1>3

LEMMA EmbeddingOfFrames ==
    ASSUME NullHasNoColumns, MediaInv, UNCHANGED photo,
           GetUnembeddedFrames(installed) \/ EmbedFrames \/ MarkFramesEmbedded
    PROVE  MediaInv' /\ RowsAdvance
<1>1. plan # <<>> /\ Head(plan) = "embedFrames"
  BY DEF GetUnembeddedFrames, EmbedFrames, MarkFramesEmbedded, Starts, At
<1>2. ASSUME UNCHANGED plan, TaskColumns \subseteq DOMAIN task', EmbeddingFrames' PROVE TaskOK'
  BY <1>1, <1>2, PassGoesOn
<1>3. ASSUME NEW rest, NEW pc, NextOf(rest, pc), \A f \in rest : Matches(f)' PROVE TaskOK'
  BY <1>2, <1>3, NextOrEnd, PassEnds DEF EmbeddingFrames
<1>4. task.pc # "idle" => \A f \in task.todo : Matches(f)
  BY <1>1 DEF MediaInv, TaskOK, EmbeddingFrames, Running
<1>5. UNCHANGED jpegs
  BY DEF GetUnembeddedFrames, EmbedFrames, MarkFramesEmbedded, videoVars
<1>6. UNCHANGED video => RowsOK' /\ RowsAdvance /\ \A f : Matches(f) => Matches(f)'
  BY <1>5, VideosStay DEF MediaInv, RowsOK, Matches, VideoRows
<1>7. CASE GetUnembeddedFrames(installed)
  <2> DEFINE Wanted(v) == {k \in DOMAIN video[v].frames :
                              ~video[v].frames[k].embedded /\ video[v].frames[k].path}
             in == {v \in VideoRows : "vision" \in installed /\ folder = "ai"}
             rest == UNION {{<<v, k, video[v].frames[k].idx>> : k \in Wanted(v)} : v \in in}
  <2>1. NextOf(rest, "embed") /\ UNCHANGED video
    BY <1>7 DEF GetUnembeddedFrames, videoVars
  <2>2. \A f \in rest : Matches(f)
    BY DEF Matches
  <2> HIDE DEF rest
  <2> QED BY <1>3, <1>6, <2>1, <2>2 DEF MediaInv
<1>8. CASE EmbedFrames
  <2>1. task.pc = "embed"
    BY <1>8 DEF EmbedFrames, At
  <2>2. PICK batch \in BatchesOf(task.todo) :
          LET good == {f \in batch : OnDisk(f) # {}}
              rest == task.todo \ batch
          IN  \/ NextOf(rest, "embed") /\ UNCHANGED video
              \/ /\ video' = ForFrames(good, NewVector)
                 /\ Goes([task EXCEPT !.pc = "mark", !.todo = rest, !.got = good])
              \/ EndPass /\ UNCHANGED video
    BY <1>8 DEF EmbedFrames
  <2> DEFINE good == {f \in batch : OnDisk(f) # {}}
             rest == task.todo \ batch
  <2>3. CASE NextOf(rest, "embed") /\ UNCHANGED video
    BY <1>3, <1>4, <1>6, <2>1, <2>3 DEF MediaInv
  <2>4. CASE EndPass /\ UNCHANGED video
    BY <1>6, <2>4, PassEnds DEF MediaInv
  <2>5. CASE /\ video' = ForFrames(good, NewVector)
             /\ Goes([task EXCEPT !.pc = "mark", !.todo = rest, !.got = good])
    <3>1. batch \subseteq task.todo
      BY <2>2 DEF BatchesOf, kSubset
    <3>2. ASSUME NEW v \in VideoRows, NEW k \in DOMAIN video[v].frames,
                 NEW f \in good, f[1] = v, f[2] = k
          PROVE  LET frame == video[v].frames[k]
                     new == NewVector(frame, <<v, k, frame.idx>>)
                 IN  /\ DOMAIN new = DOMAIN frame /\ new.idx = frame.idx
                     /\ new.vector # None
      <4> DEFINE frame == video[v].frames[k]
                 g == CHOOSE h \in OnDisk(<<v, k, frame.idx>>) : TRUE
      <4>1. f[3] = frame.idx /\ OnDisk(f) # {}
        BY <1>4, <2>1, <3>1, <3>2 DEF Matches
      <4>2. OnDisk(<<v, k, frame.idx>>) = OnDisk(f)
        BY <3>2, <4>1 DEF OnDisk
      <4>3. g \in jpegs[v] /\ v \in Videos
        BY <3>2, <4>1, <4>2 DEF OnDisk, VideoRows
      <4>4. g[2] # None
        BY <4>3, MediaAssumption DEF MediaInv, RowsOK, MediaAssumption
      <4>5. FrameColumns \subseteq DOMAIN frame
        BY DEF MediaInv, RowsOK, IsVideoRow, AreFrames
      <4>6. NewVector(frame, <<v, k, frame.idx>>) = [frame EXCEPT !.vector = g[2], !.stamp = None]
        BY DEF NewVector
      <4> HIDE DEF g, frame
      <4> QED BY <4>4, <4>5, <4>6 DEF FrameColumns, frame
    <3>3. RowsOK' /\ RowsAdvance /\ \A f : Matches(f) => Matches(f)'
      <4> HIDE DEF good
      <4> DEFINE x == [v \in VideoRows |-> [k \in DOMAIN video[v].frames |->
                          IF \E f \in good : f[1] = v /\ f[2] = k
                          THEN NewVector(video[v].frames[k], <<v, k, video[v].frames[k].idx>>)
                          ELSE video[v].frames[k]]]
      <4>1. DOMAIN video' = Videos /\ \A v \in Videos : v \notin VideoRows => video'[v] = None
        BY <2>5 DEF ForFrames
      <4>2. \A v \in VideoRows : video'[v] = [video[v] EXCEPT !.frames = x[v]]
        BY <2>5 DEF ForFrames, VideoRows, IsVideoRow, VideoColumns, MediaInv, RowsOK
      <4>3. \A v \in VideoRows :
               /\ x[v] = [k \in DOMAIN video[v].frames |-> x[v][k]]
               /\ \A k \in DOMAIN video[v].frames :
                     /\ DOMAIN x[v][k] = DOMAIN video[v].frames[k]
                     /\ x[v][k].idx = video[v].frames[k].idx
                     /\ x[v][k].vector = video[v].frames[k].vector \/ x[v][k].vector # None
        BY <3>2
      <4> HIDE DEF x
      <4>4. Framewise(x)
        BY <4>1, <4>2, <4>3 DEF Framewise
      <4> QED BY <1>5, <4>4, ManyFramesChange
    <3>4. /\ UNCHANGED plan /\ TaskColumns \subseteq DOMAIN task' /\ task'.todo = rest
      BY <2>5 DEF Goes, MediaInv, TaskOK, TaskColumns
    <3>5. EmbeddingFrames'
      BY <1>4, <2>1, <3>3, <3>4 DEF EmbeddingFrames
    <3> QED BY <1>2, <3>3, <3>4, <3>5 DEF MediaInv
  <2> QED BY <2>2, <2>3, <2>4, <2>5
<1>9. CASE MarkFramesEmbedded
  <2>1. task.pc = "mark" /\ NextOf(task.todo, "embed")
    BY <1>9 DEF MarkFramesEmbedded, At
  <2>2. RowsOK' /\ RowsAdvance /\ \A f : Matches(f) => Matches(f)'
    <3>1. CASE UNCHANGED video
      BY <1>6, <3>1
    <3>2. CASE video' = ForFrames(task.got, MarkedFrame)
      <4>1. ASSUME NEW v \in VideoRows, NEW k \in DOMAIN video[v].frames
            PROVE  LET frame == video[v].frames[k]
                       new == MarkedFrame(frame, <<v, k, frame.idx>>)
                   IN  /\ DOMAIN new = DOMAIN frame /\ new.idx = frame.idx
                       /\ new.vector = frame.vector
        BY DEF MarkedFrame, FrameColumns, MediaInv, RowsOK, IsVideoRow, AreFrames
      <4> DEFINE x == [v \in VideoRows |-> [k \in DOMAIN video[v].frames |->
                          IF \E f \in task.got : f[1] = v /\ f[2] = k
                          THEN MarkedFrame(video[v].frames[k], <<v, k, video[v].frames[k].idx>>)
                          ELSE video[v].frames[k]]]
      <4>2. DOMAIN video' = Videos /\ \A v \in Videos : v \notin VideoRows => video'[v] = None
        BY <3>2 DEF ForFrames
      <4>3. \A v \in VideoRows : video'[v] = [video[v] EXCEPT !.frames = x[v]]
        BY <3>2 DEF ForFrames, VideoRows, IsVideoRow, VideoColumns, MediaInv, RowsOK
      <4>4. \A v \in VideoRows :
               /\ x[v] = [k \in DOMAIN video[v].frames |-> x[v][k]]
               /\ \A k \in DOMAIN video[v].frames :
                     /\ DOMAIN x[v][k] = DOMAIN video[v].frames[k]
                     /\ x[v][k].idx = video[v].frames[k].idx
                     /\ x[v][k].vector = video[v].frames[k].vector
        BY <4>1
      <4> HIDE DEF x
      <4>5. Framewise(x)
        BY <4>2, <4>3, <4>4 DEF Framewise
      <4> QED BY <1>5, <4>5, ManyFramesChange
    <3> QED BY <1>9, <3>1, <3>2 DEF MarkFramesEmbedded
  <2> QED BY <1>3, <1>4, <2>1, <2>2 DEF MediaInv
<1> QED BY <1>7, <1>8, <1>9

LEMMA ScoringOfVideos ==
    ASSUME NullHasNoColumns, MediaInv, UNCHANGED <<photo, jpegs>>,
           LoadContext("scoreVideos", "score") \/ ReadUnscoredVideos \/ ScoreFrames \/ WriteVideoScores
    PROVE  MediaInv' /\ RowsAdvance
<1>1. plan # <<>> /\ Head(plan) = "scoreVideos"
  BY DEF LoadContext, ReadUnscoredVideos, ScoreFrames, WriteVideoScores, Starts, At
<1>2. ASSUME UNCHANGED plan, TaskColumns \subseteq DOMAIN task', ScoringVideos' PROVE TaskOK'
  BY <1>1, <1>2, PassGoesOn
<1>3. task.pc \in {"frames", "write"} =>
        /\ \A v \in task.todo : v \in VideoRows => HasVector(video[v].frames)
        /\ task.pc = "write" /\ task.cur \in VideoRows => HasVector(video[task.cur].frames)
  BY <1>1 DEF MediaInv, TaskOK, ScoringVideos, Running
<1>4. UNCHANGED video => RowsOK' /\ RowsAdvance
  BY VideosStay DEF MediaInv, RowsOK
<1>5. TaskColumns \subseteq DOMAIN task
  BY DEF MediaInv, TaskOK
<1>6. CASE LoadContext("scoreVideos", "score")
  <2>1. UNCHANGED video
    BY <1>6 DEF LoadContext, videoVars
  <2>2. CASE EndPass
    BY <1>4, <2>1, <2>2, PassEnds DEF MediaInv
  <2>3. CASE Goes([task EXCEPT !.pc = "score", !.ctx = Signature])
    <3>1. UNCHANGED plan /\ TaskColumns \subseteq DOMAIN task' /\ task'.pc = "score"
      BY <1>5, <2>3 DEF Goes, TaskColumns
    <3> QED BY <1>2, <1>4, <2>1, <3>1 DEF ScoringVideos, MediaInv
  <2> QED BY <1>6, <2>2, <2>3 DEF LoadContext
<1>7. CASE ReadUnscoredVideos
  <2> DEFINE need == {v \in VideoRows : \E k \in Embedded(v) : video[v].frames[k].stamp # task.ctx}
  <2>1. UNCHANGED video
    BY <1>7 DEF ReadUnscoredVideos, videoVars
  <2>2. CASE EndPass
    BY <1>4, <2>1, <2>2, PassEnds DEF MediaInv
  <2>3. CASE Goes([task EXCEPT !.pc = "frames", !.todo = need])
    <3>1. \A v \in need : HasVector(video[v].frames)
      BY DEF Embedded, HasVector
    <3> HIDE DEF need
    <3>2. /\ UNCHANGED plan /\ TaskColumns \subseteq DOMAIN task'
          /\ task'.pc = "frames" /\ task'.todo = need
      BY <1>5, <2>3 DEF Goes, TaskColumns
    <3>3. ScoringVideos'
      BY <2>1, <3>1, <3>2 DEF ScoringVideos, VideoRows
    <3> QED BY <1>2, <1>4, <2>1, <3>2, <3>3 DEF MediaInv
  <2> QED BY <1>7, <2>2, <2>3 DEF ReadUnscoredVideos
<1>8. CASE ScoreFrames
  <2>1. UNCHANGED video /\ task.pc = "frames"
    BY <1>8 DEF ScoreFrames, videoVars, At
  <2>2. CASE Goto("score")
    <3>1. UNCHANGED plan /\ TaskColumns \subseteq DOMAIN task' /\ task'.pc = "score"
      BY <1>5, <2>2 DEF Goto, Goes, TaskColumns
    <3> QED BY <1>2, <1>4, <2>1, <3>1 DEF ScoringVideos, MediaInv
  <2>3. ASSUME NEW v \in task.todo, NEW tags,
               Goes([task EXCEPT !.pc = "write", !.cur = v, !.todo = @ \ {v}, !.got = tags])
        PROVE  MediaInv' /\ RowsAdvance
    <3>1. /\ UNCHANGED plan /\ TaskColumns \subseteq DOMAIN task'
          /\ task'.todo = task.todo \ {v} /\ task'.cur = v
      BY <1>5, <2>3 DEF Goes, TaskColumns
    <3>2. ScoringVideos'
      BY <1>3, <2>1, <2>3, <3>1 DEF ScoringVideos, VideoRows
    <3> QED BY <1>2, <1>4, <2>1, <3>1, <3>2 DEF MediaInv
  <2> QED BY <1>8, <2>2, <2>3 DEF ScoreFrames
<1>9. CASE WriteVideoScores
  <2>1. task.pc = "write"
    BY <1>9 DEF WriteVideoScores, At
  <2>2. CASE EndPass /\ UNCHANGED video
    BY <1>4, <2>2, PassEnds DEF MediaInv
  <2>3. CASE /\ video' = IF task.cur \in VideoRows
                          THEN [video EXCEPT ![task.cur] = Scored(video[task.cur], task.got, task.ctx)] ELSE video
             /\ Goes([task EXCEPT !.pc = "frames", !.cur = None, !.got = None])
    <3>1. /\ UNCHANGED plan /\ TaskColumns \subseteq DOMAIN task'
          /\ task'.pc = "frames" /\ task'.todo = task.todo
      BY <1>5, <2>3 DEF Goes, TaskColumns
    <3>2. CASE UNCHANGED video
      <4>1. ScoringVideos'
        BY <1>3, <2>1, <3>1, <3>2 DEF ScoringVideos, VideoRows
      <4> QED BY <1>2, <1>4, <3>1, <3>2, <4>1 DEF MediaInv
    <3>3. CASE /\ task.cur \in VideoRows
               /\ video' = [video EXCEPT ![task.cur] = Scored(video[task.cur], task.got, task.ctx)]
      <4> DEFINE row == video[task.cur]
                 x == [k \in DOMAIN row.frames |-> IF row.frames[k].vector = None THEN row.frames[k]
                                                   ELSE [row.frames[k] EXCEPT !.stamp = task.ctx]]
                 new == [row EXCEPT !.tags = task.got, !.frames = x]
      <4>1. task.cur \in Videos /\ row # None /\ IsVideoRow(row) /\ HasVector(row.frames)
        BY <1>3, <2>1, <3>3 DEF MediaInv, RowsOK, VideoRows
      <4>2. Scored(row, task.got, task.ctx) = new
        BY <4>1 DEF Scored, IsVideoRow, VideoColumns
      <4>3. x = [k \in DOMAIN row.frames |-> x[k]]
        OBVIOUS
      <4>4. \A k \in DOMAIN row.frames :
               DOMAIN x[k] = DOMAIN row.frames[k] /\ x[k].vector = row.frames[k].vector
        BY <4>1 DEF IsVideoRow, AreFrames, FrameColumns
      <4> HIDE DEF x
      <4>5. AreFrames(x) /\ HasVector(x)
        <5>1. DOMAIN x = DOMAIN row.frames
          BY <4>3
        <5>2. HasVector(x)
          BY <4>1, <4>4, <5>1 DEF HasVector
        <5> QED BY <4>1, <4>3, <4>4, <5>2, FramesKept DEF IsVideoRow
      <4>6. /\ DOMAIN new = DOMAIN row /\ new.tagged = row.tagged /\ new.favourite = row.favourite
            /\ new.frames = x /\ new.objects = row.objects
        BY <4>1 DEF IsVideoRow, VideoColumns
      <4> HIDE DEF new
      <4>7. IsVideoRow(new)
        BY <4>1, <4>5, <4>6 DEF IsVideoRow
      <4>8. Advances(ListedVideo(row), ListedVideo(new))
        BY <4>1, <4>5, <4>6, VideoRowAdvances
      <4>9. RowsOK' /\ RowsAdvance
        BY <3>3, <4>2, <4>7, <4>8, CurrentChanges
      <4>10. /\ video'[task.cur] = new
             /\ \A v \in Videos : v # task.cur => video'[v] = video[v]
        BY <3>3, <4>1, <4>2 DEF MediaInv, RowsOK
      <4>11. ScoringVideos'
        BY <1>3, <2>1, <3>1, <4>1, <4>5, <4>6, <4>10 DEF ScoringVideos, VideoRows
      <4> QED BY <1>2, <3>1, <4>9, <4>11 DEF MediaInv
    <3> QED BY <2>3, <3>2, <3>3
  <2> QED BY <1>9, <2>2, <2>3 DEF WriteVideoScores
<1> QED BY <1>6, <1>7, <1>8, <1>9

---------------------------------------------------------------------------
(* Requests.                                                               *)

LEMMA VideoRequests ==
    ASSUME NullHasNoColumns, MediaInv, UNCHANGED photo,
           ToggleVideoFavourite \/ IntervalChanges \/ PurgeFiles \/ ClearFramePaths
    PROVE  MediaInv' /\ RowsAdvance
<1>1. UNCHANGED <<plan, task>>
  BY DEF ToggleVideoFavourite, IntervalChanges, PurgeFiles, ClearFramePaths
<1>2. ASSUME UNCHANGED video PROVE TaskOK'
  BY <1>1, <1>2 DEF MediaInv, TaskOK, TaggingPhotos, TaggingVideos, EmbeddingFrames, ScoringPhotos, ScoringVideos,
                    Running, PhotoUntagged, VideoUntagged, Matches, PhotoRows, VideoRows
<1>3. CASE ToggleVideoFavourite
  <2>1. PICK v \in VideoRows : video' = [video EXCEPT ![v].favourite = ~@]
    BY <1>3 DEF ToggleVideoFavourite
  <2> DEFINE row == video[v]
             new == [row EXCEPT !.favourite = ~@]
  <2>2. v \in Videos /\ row # None /\ IsVideoRow(row)
    BY <2>1 DEF VideoRows, MediaInv, RowsOK
  <2>3. /\ DOMAIN new = DOMAIN row /\ new.tagged = row.tagged /\ new.favourite = ~row.favourite
        /\ new.frames = row.frames /\ new.objects = row.objects /\ new.tags = row.tags
    BY <2>2 DEF IsVideoRow, VideoColumns
  <2>4. DOMAIN video' = Videos /\ video'[v] = new /\ \A w \in Videos : w # v => video'[w] = video[w]
    BY <2>1, <2>2 DEF MediaInv, RowsOK
  <2>5. UNCHANGED jpegs
    BY <1>3 DEF ToggleVideoFavourite
  <2> HIDE DEF new
  <2>6. IsVideoRow(new) /\ new # None /\ Advances(ListedVideo(row), ListedVideo(new))
    BY <2>2, <2>3, VideoRowAdvances DEF IsVideoRow, VideoColumns, NullHasNoColumns
  <2>7. RowsOK' /\ RowsAdvance
    BY <2>2, <2>4, <2>5, <2>6, VideosAreUpdated
  <2>8. TaskOK'
    <3>1. \A w \in Videos : \/ video'[w] = None
                            \/ /\ video[w] # None /\ video'[w].tagged = video[w].tagged
                               /\ video'[w].frames = video[w].frames
      BY <2>2, <2>3, <2>4
    <3> QED BY <1>1, <3>1, TaskKept
  <2> QED BY <2>7, <2>8 DEF MediaInv
<1>4. CASE IntervalChanges
  BY <1>2, <1>4, VideosStay DEF IntervalChanges, MediaInv, RowsOK
<1>5. CASE PurgeFiles
  <2>1. UNCHANGED video /\ DOMAIN jpegs' = Videos /\ \A v \in Videos : jpegs'[v] = {}
    BY <1>5 DEF PurgeFiles
  <2> QED BY <1>2, <2>1, VideosStay DEF MediaInv
<1>6. CASE ClearFramePaths
  <2>1. UNCHANGED jpegs
    BY <1>6 DEF ClearFramePaths
  <2>2. CASE UNCHANGED video
    BY <1>2, <2>1, <2>2, VideosStay DEF MediaInv, RowsOK
  <2>3. CASE video' = [v \in Videos |-> IF v \notin VideoRows THEN None
                          ELSE [video[v] EXCEPT !.frames = [k \in DOMAIN @ |-> ClearedFrame(@[k])]]]
    <3> DEFINE x == [v \in VideoRows |-> [k \in DOMAIN video[v].frames |-> ClearedFrame(video[v].frames[k])]]
    <3>1. DOMAIN video' = Videos /\ \A v \in Videos : v \notin VideoRows => video'[v] = None
      BY <2>3
    <3>2. \A v \in VideoRows : video'[v] = [video[v] EXCEPT !.frames = x[v]]
      BY <2>3 DEF VideoRows, IsVideoRow, VideoColumns, MediaInv, RowsOK
    <3>3. ASSUME NEW v \in VideoRows
          PROVE  /\ x[v] = [k \in DOMAIN video[v].frames |-> x[v][k]]
                 /\ \A k \in DOMAIN video[v].frames :
                       /\ DOMAIN x[v][k] = DOMAIN video[v].frames[k]
                       /\ x[v][k].idx = video[v].frames[k].idx
                       /\ x[v][k].vector = video[v].frames[k].vector
      BY <3>3 DEF ClearedFrame, FrameColumns, MediaInv, RowsOK, IsVideoRow, AreFrames
    <3> HIDE DEF x
    <3>4. Framewise(x)
      BY <3>1, <3>2, <3>3 DEF Framewise
    <3>5. RowsOK' /\ RowsAdvance /\ \A v \in VideoRows : video'[v].frames = x[v] /\ video'[v].tagged = video[v].tagged
      BY <2>1, <3>4, ManyFramesChange
    <3>6. \A v \in VideoRows : DOMAIN x[v] = DOMAIN video[v].frames
      BY <3>3
    <3>7. ASSUME NEW v \in Videos
          PROVE  \/ video'[v] = None
                 \/ /\ video[v] # None /\ video'[v].tagged = video[v].tagged
                    /\ DOMAIN video'[v].frames = DOMAIN video[v].frames
                    /\ \A k \in DOMAIN video[v].frames :
                          /\ video'[v].frames[k].idx = video[v].frames[k].idx
                          /\ video'[v].frames[k].vector = video[v].frames[k].vector
      <4>1. CASE v \notin VideoRows
        BY <3>1, <4>1
      <4>2. CASE v \in VideoRows
        <5>1. video'[v].frames = x[v] /\ video'[v].tagged = video[v].tagged
          BY <3>5, <4>2
        <5>2. DOMAIN x[v] = DOMAIN video[v].frames
          BY <3>6, <4>2
        <5>3. \A k \in DOMAIN video[v].frames :
                 x[v][k].idx = video[v].frames[k].idx /\ x[v][k].vector = video[v].frames[k].vector
          BY <3>3, <4>2
        <5>4. video[v] # None
          BY <4>2 DEF VideoRows
        <5> QED BY <5>1, <5>2, <5>3, <5>4
      <4> QED BY <4>1, <4>2
    <3>8. TaskOK'
      BY <1>1, <3>7, TaskKept
    <3> QED BY <3>5, <3>8 DEF MediaInv
  <2> QED BY <1>6, <2>2, <2>3 DEF ClearFramePaths
<1> QED BY <1>3, <1>4, <1>5, <1>6

(* Any other step moves neither the worker within a pass nor a photo or a  *)
(* video.                                                                  *)
LEMMA AtRest == ASSUME task' = Idle PROVE TaskOK'
BY DEF Idle, TaskOK, TaskColumns, Running, TaggingPhotos, TaggingVideos, EmbeddingFrames,
       ScoringPhotos, ScoringVideos

LEMMA NothingChanges ==
    ASSUME MediaInv, UNCHANGED <<photo, video, jpegs>> PROVE RowsOK' /\ RowsAdvance
BY VideosStay DEF MediaInv, RowsOK

LEMMA TaskStays ==
    ASSUME MediaInv, UNCHANGED <<photo, video, task>>, UNCHANGED plan \/ plan = <<>> PROVE TaskOK'
<1>1. CASE UNCHANGED plan
  BY <1>1 DEF MediaInv, TaskOK, TaggingPhotos, TaggingVideos, EmbeddingFrames, ScoringPhotos, ScoringVideos,
              Running, PhotoUntagged, VideoUntagged, Matches, PhotoRows, VideoRows
<1>2. CASE plan = <<>>
  BY <1>2 DEF MediaInv, TaskOK, TaggingPhotos, TaggingVideos, EmbeddingFrames, ScoringPhotos, ScoringVideos, Running
<1> QED BY <1>1, <1>2

LEMMA OtherSteps ==
    ASSUME NullHasNoColumns, MediaInv,
           \/ BuildLabelEmbeddings \/ FolderSequence \/ ModelsInstalled \/ FolderDeleted \/ Crash
           \/ (FileChanges \/ FolderToggles \/ UNCHANGED mediaVars) /\ UNCHANGED <<photoVars, videoVars>>
    PROVE  MediaInv' /\ RowsAdvance
<1>1. CASE BuildLabelEmbeddings
  BY <1>1, PassEnds, NothingChanges DEF BuildLabelEmbeddings, photoVars, videoVars, MediaInv
<1>2. CASE FolderSequence
  BY <1>2, TaskStays, NothingChanges DEF FolderSequence, Submit, photoVars, videoVars, MediaInv
<1>3. CASE ModelsInstalled
  BY <1>3, TaskStays, NothingChanges DEF ModelsInstalled, Submit, photoVars, videoVars, MediaInv
<1>4. CASE FolderDeleted
  <2>1. /\ DOMAIN photo' = Photos /\ \A p \in Photos : photo'[p] = None
        /\ DOMAIN video' = Videos /\ \A v \in Videos : video'[v] = None
        /\ UNCHANGED <<plan, task, jpegs>>
    BY <1>4 DEF FolderDeleted, Delete, PhotoRows
  <2>2. TaskOK'
    BY <2>1, TaskKept
  <2>3. RowsOK' /\ RowsAdvance
    BY <2>1 DEF MediaInv, RowsOK, RowsAdvance, PhotoAdvances, VideoAdvances, PhotoRows, VideoRows
  <2> QED BY <2>2, <2>3 DEF MediaInv
<1>5. CASE Crash
  BY <1>5, AtRest, NothingChanges DEF Crash, photoVars, MediaInv
<1>6. CASE (FileChanges \/ FolderToggles \/ UNCHANGED mediaVars) /\ UNCHANGED <<photoVars, videoVars>>
  <2>1. UNCHANGED <<plan, task>> /\ UNCHANGED <<photo, video, jpegs>>
    BY <1>6 DEF FileChanges, FolderToggles, mediaVars, photoVars, videoVars
  <2> QED BY <2>1, TaskStays, NothingChanges DEF MediaInv
<1> QED BY <1>1, <1>2, <1>3, <1>4, <1>5, <1>6

---------------------------------------------------------------------------
(* The theorem.                                                            *)

LEMMA MediaStarts == ASSUME Init PROVE MediaInv /\ Items!Init
<1>1. plan = <<>> /\ task = Idle
  BY DEF Init, MediaInit
<1>2. TaskOK
  BY <1>1 DEF Idle, TaskOK, TaskColumns, Running, TaggingPhotos, TaggingVideos, EmbeddingFrames,
              ScoringPhotos, ScoringVideos
<1>3. /\ DOMAIN photo = Photos /\ \A p \in Photos : photo[p] = None
      /\ DOMAIN video = Videos /\ \A v \in Videos : video[v] = None
      /\ DOMAIN jpegs = Videos /\ \A v \in Videos : jpegs[v] = {}
  BY DEF Init, PhotoInit, VideoInit
<1>4. Items!Init
  BY <1>3 DEF Items!Init, Listing, PhotoRows, VideoRows
<1> QED BY <1>2, <1>3, <1>4 DEF MediaInv, RowsOK, PhotoRows, VideoRows

LEMMA MediaSteps ==
    ASSUME NullHasNoColumns, MediaInv, [Next]_vars PROVE MediaInv' /\ RowsAdvance
<1>1. CASE PhotoStep(installed) /\ UNCHANGED videoVars
  BY <1>1, ScanningPhotos, TaggingOfPhotos, EmbeddingOfPhotos DEF PhotoStep, videoVars
<1>2. CASE VideoStep(installed) /\ UNCHANGED photoVars
  BY <1>2, ScanningVideos, TaggingOfVideos, EmbeddingOfFrames DEF VideoStep, photoVars
<1>3. CASE LoadContext("scorePhotos", "score") \/ ReadUnscoredImages \/ WriteImageScores
  BY <1>3, ScoringOfPhotos DEF LoadContext, ReadUnscoredImages, WriteImageScores, videoVars
<1>4. CASE LoadContext("scoreVideos", "score") \/ ReadUnscoredVideos \/ ScoreFrames \/ WriteVideoScores
  BY <1>4, ScoringOfVideos DEF LoadContext, ReadUnscoredVideos, ScoreFrames, WriteVideoScores, photoVars, videoVars
<1>5. CASE ToggleImageFavourite /\ UNCHANGED videoVars
  BY <1>5, LikingPhotos DEF videoVars
<1>6. CASE (ToggleVideoFavourite \/ IntervalChanges \/ PurgeFiles \/ ClearFramePaths) /\ UNCHANGED photoVars
  BY <1>6, VideoRequests DEF photoVars
<1>7. CASE BuildLabelEmbeddings \/ FolderSequence \/ ModelsInstalled \/ FolderDeleted \/ Crash
  BY <1>7, OtherSteps
<1>8. CASE (FileChanges \/ FolderToggles) /\ UNCHANGED <<photoVars, videoVars>>
  BY <1>8, OtherSteps
<1>9. CASE UNCHANGED vars
  BY <1>9, OtherSteps DEF vars
<1> QED BY <1>1, <1>2, <1>3, <1>4, <1>5, <1>6, <1>7, <1>8, <1>9 DEF Next, Worker, LabelStep, Requests

(* What somebody who lists the library sees does as MediaItems says.       *)
(* Whatever the scans, failed statements, purges, deletions and crashes:   *)
(* nothing listed loses what it was found to show, and labels come only    *)
(* after vectors (utils/images.py, utils/videos.py, semantic_labels.py).   *)
THEOREM PipelineImplementsItems ==
    ASSUME NullHasNoColumns PROVE Spec => ImplementsItems
<1>1. Init => MediaInv /\ Items!Init
  BY MediaStarts
<1>2. MediaInv /\ [Next]_vars => MediaInv' /\ [Items!Next]_Listing
  BY MediaSteps, RowsMap
<1> QED BY <1>1, <1>2, PTL DEF Spec, ImplementsItems, Items!Spec

---------------------------------------------------------------------------
(* The keyframe rows of a video are one sample.                            *)

OneSample(frames) == \A j, k \in DOMAIN frames : frames[j].idx = frames[k].idx => j = k

Inserting == At("tagVideos", "insertFrames")

(* Frames are added to a video that has none: where no statement failed,   *)
(* those of its last sample have been deleted.                             *)
SampleInv ==
    /\ "faults" \in DOMAIN count /\ count.faults \in Nat
    /\ count.faults = 0 =>
          /\ \A v \in VideoRows : OneSample(video[v].frames)
          /\ Inserting /\ task.cur \in VideoRows => DOMAIN video[task.cur].frames = {}

(* What steps other than those of tagging do to the frames.                *)
FramesStay ==
    \A v \in Videos :
        \/ video'[v] = None
        \/ DOMAIN video'[v].frames = {}
        \/ /\ video[v] # None
           /\ DOMAIN video'[v].frames = DOMAIN video[v].frames
           /\ \A k \in DOMAIN video[v].frames : video'[v].frames[k].idx = video[v].frames[k].idx

(* Statements fail, others happen, and the application crashes.            *)
Counted == Works \/ Fails \/ Happens \/ count' = [count EXCEPT !.crashes = @ + 1]

LEMMA FaultsAreCounted ==
    ASSUME SampleInv, Counted
    PROVE  /\ "faults" \in DOMAIN count' /\ count'.faults \in Nat
           /\ count'.faults = 0 => count.faults = 0
           /\ Fails => count'.faults # 0
BY DEF SampleInv, Counted, Works, Fails, Happens

LEMMA StepsAreCounted == ASSUME [Next]_vars PROVE Counted
<1>1. CASE PhotoStep(installed)
  BY <1>1 DEF PhotoStep, PrepareImages, RemoveObsoleteImages, DeleteImages, BulkInsertImages, GetUntaggedImages,
              ClassifyFails, Classify, DetectFaces, InsertFace, UpdateImageTagged, GetUnembeddedImages,
              EmbedImages, MarkImagesEmbedded, Counted, Works
<1>2. CASE VideoStep(installed)
  BY <1>2 DEF VideoStep, PrepareVideos, RemoveObsoleteVideos, RemoveObsoleteFiles, BulkInsertVideos, RemovePosters,
              GetUntaggedVideos, ExtractFrames, DeleteFrames, InsertFrames, WriteVideoClasses, MarkVideoTagged,
              GetUnembeddedFrames, EmbedFrames, MarkFramesEmbedded, Counted, Works
<1>3. CASE LabelStep
  BY <1>3 DEF LabelStep, BuildLabelEmbeddings, LoadContext, ReadUnscoredImages, WriteImageScores,
              ReadUnscoredVideos, ScoreFrames, WriteVideoScores, Counted, Works
<1>4. CASE Requests
  BY <1>4 DEF Requests, FolderSequence, ModelsInstalled, FolderDeleted, FileChanges, FolderToggles,
              ToggleImageFavourite, ToggleVideoFavourite, IntervalChanges, PurgeFiles, ClearFramePaths, Counted, Works
<1>5. CASE Crash
  BY <1>5 DEF Crash, Counted
<1>6. CASE UNCHANGED vars
  BY <1>6 DEF vars, mediaVars, Counted, Works
<1> QED BY <1>1, <1>2, <1>3, <1>4, <1>5, <1>6 DEF Next, Worker

(* Whoever is in a pass after a step was brought there by the worker, in    *)
(* that pass, or was there before a step of somebody else.                 *)
LEMMA PassesAreRun ==
    ASSUME MediaInv, [Next]_vars, NEW pass, Running(pass)'
    PROVE  \/ Worker /\ UNCHANGED plan /\ plan # <<>> /\ Head(plan) = pass
           \/ (Requests \/ UNCHANGED vars) /\ UNCHANGED <<plan, task>> /\ Running(pass)
<1>1. ~EndPass /\ task' # Idle
  BY DEF EndPass, Idle, Running
<1>2. \A rest, pc : NextOf(rest, pc) => UNCHANGED plan
  BY <1>1 DEF NextOf, Goes
<1>3. plan # <<>> /\ UNCHANGED plan => plan # <<>> /\ UNCHANGED plan /\ Head(plan) = pass
  BY DEF Running
<1>4. PhotoStep(installed) => UNCHANGED plan /\ plan # <<>>
  BY <1>1, <1>2
     DEF PhotoStep, PrepareImages, RemoveObsoleteImages, DeleteImages, BulkInsertImages, GetUntaggedImages,
         ClassifyFails, Classify, DetectFaces, InsertFace, UpdateImageTagged, GetUnembeddedImages,
         EmbedImages, MarkImagesEmbedded, Starts, At, Goto, Goes
<1>5. VideoStep(installed) => UNCHANGED plan /\ plan # <<>>
  BY <1>1, <1>2
     DEF VideoStep, PrepareVideos, RemoveObsoleteVideos, RemoveObsoleteFiles, BulkInsertVideos, RemovePosters,
         GetUntaggedVideos, ExtractFrames, DeleteFrames, InsertFrames, WriteVideoClasses,
         MarkVideoTagged, GetUnembeddedFrames, EmbedFrames, MarkFramesEmbedded, Starts, At, Goto, Goes
<1>6. LabelStep => UNCHANGED plan /\ plan # <<>>
  BY <1>1 DEF LabelStep, BuildLabelEmbeddings, LoadContext, ReadUnscoredImages, WriteImageScores,
         ReadUnscoredVideos, ScoreFrames, WriteVideoScores, Starts, At, Goto, Goes
<1>7. CASE Worker
  BY <1>3, <1>4, <1>5, <1>6, <1>7 DEF Worker
<1>8. CASE Requests \/ UNCHANGED vars
  <2>1. plan = <<>> => task.pc = "idle"
    BY DEF MediaInv, TaskOK
  <2>2. UNCHANGED <<plan, task>>
    BY <1>8, <2>1
       DEF Requests, FolderSequence, ModelsInstalled, FolderDeleted, FileChanges, FolderToggles, Submit, vars, mediaVars,
           ToggleImageFavourite, ToggleVideoFavourite, IntervalChanges, PurgeFiles, ClearFramePaths, Running
  <2> QED BY <1>8, <2>2 DEF Running
<1>9. CASE Crash
  BY <1>1, <1>9 DEF Crash
<1> QED BY <1>7, <1>8, <1>9 DEF Next

(* The worker's steps in each of the passes.                               *)
LEMMA StepsOfPasses ==
    ASSUME Worker
    PROVE  /\ Head(plan) = "scanVideos" => PrepareVideos \/ RemoveObsoleteVideos \/ RemoveObsoleteFiles
                                              \/ BulkInsertVideos \/ RemovePosters
           /\ Head(plan) = "scoreVideos" => LoadContext("scoreVideos", "score") \/ ReadUnscoredVideos \/ ScoreFrames
                                               \/ WriteVideoScores
           /\ Head(plan) = "tagPhotos" => GetUntaggedImages \/ ClassifyFails \/ Classify \/ DetectFaces \/ InsertFace
                                             \/ UpdateImageTagged
           /\ Head(plan) = "embedPhotos" => GetUnembeddedImages(installed) \/ EmbedImages \/ MarkImagesEmbedded
           /\ Head(plan) = "tagVideos" =>
                (GetUntaggedVideos \/ ExtractFrames \/ DeleteFrames \/ InsertFrames \/ WriteVideoClasses \/ MarkVideoTagged)
                   /\ UNCHANGED photoVars
           /\ Head(plan) = "embedFrames" => GetUnembeddedFrames(installed) \/ EmbedFrames \/ MarkFramesEmbedded
<1>1. PhotoStep(installed) =>
        \/ Head(plan) = "scanPhotos"
        \/ Head(plan) = "tagPhotos" /\ (GetUntaggedImages \/ ClassifyFails \/ Classify \/ DetectFaces \/ InsertFace
                                             \/ UpdateImageTagged)
        \/ Head(plan) = "embedPhotos" /\ (GetUnembeddedImages(installed) \/ EmbedImages \/ MarkImagesEmbedded)
  BY DEF PhotoStep, PrepareImages, RemoveObsoleteImages, DeleteImages, BulkInsertImages, GetUntaggedImages,
         ClassifyFails, Classify, DetectFaces, InsertFace, UpdateImageTagged, GetUnembeddedImages,
         EmbedImages, MarkImagesEmbedded, Starts, At
<1>2. VideoStep(installed) =>
        \/ Head(plan) = "scanVideos" /\ (PrepareVideos \/ RemoveObsoleteVideos \/ RemoveObsoleteFiles
                                              \/ BulkInsertVideos \/ RemovePosters)
        \/ Head(plan) = "tagVideos" /\ (GetUntaggedVideos \/ ExtractFrames \/ DeleteFrames \/ InsertFrames
                                           \/ WriteVideoClasses \/ MarkVideoTagged)
        \/ Head(plan) = "embedFrames" /\ (GetUnembeddedFrames(installed) \/ EmbedFrames \/ MarkFramesEmbedded)
  BY DEF VideoStep, PrepareVideos, RemoveObsoleteVideos, RemoveObsoleteFiles, BulkInsertVideos, RemovePosters,
         GetUntaggedVideos, ExtractFrames, DeleteFrames, InsertFrames, WriteVideoClasses,
         MarkVideoTagged, GetUnembeddedFrames, EmbedFrames, MarkFramesEmbedded, Starts, At
<1>3. LabelStep =>
        \/ Head(plan) \in {"buildLabels", "scorePhotos"}
        \/ Head(plan) = "scoreVideos" /\ (LoadContext("scoreVideos", "score") \/ ReadUnscoredVideos \/ ScoreFrames
                                              \/ WriteVideoScores)
  BY DEF LabelStep, BuildLabelEmbeddings, LoadContext, ReadUnscoredImages, WriteImageScores,
         ReadUnscoredVideos, ScoreFrames, WriteVideoScores, Starts, At
<1> QED BY <1>1, <1>2, <1>3 DEF Worker

(* The worker comes to the insertion of frames from their deletion only.   *)
LEMMA InsertionFollowsDeletion ==
    ASSUME MediaInv, [Next]_vars, Inserting'
    PROVE  DeleteFrames \/ UNCHANGED <<plan, task>>
<1>0. TaskColumns \subseteq DOMAIN task
  BY DEF MediaInv, TaskOK
<1>1. Running("tagVideos")' /\ task'.pc = "insertFrames"
  BY DEF Inserting, At, Running
<1>2. ~EndPass
  BY <1>1 DEF EndPass, Idle
<1>3. \A S, x : ~Goes([Idle EXCEPT !.pc = "extract", !.todo = S, !.ctx = x])
  BY <1>1 DEF Goes, Idle
<1>4. ~MarkVideoTagged
  BY <1>2, <1>3 DEF MarkVideoTagged, NextOf
<1>5. ~GetUntaggedVideos /\ ~ExtractFrames /\ ~InsertFrames /\ ~WriteVideoClasses
  BY <1>0, <1>1, <1>2 DEF GetUntaggedVideos, ExtractFrames, InsertFrames, WriteVideoClasses, Goto, Goes, TaskColumns
<1> QED BY <1>1, <1>4, <1>5, PassesAreRun, StepsOfPasses

LEMMA OnlyInsertionAdds == ASSUME MediaInv, [Next]_vars PROVE InsertFrames \/ FramesStay
<1>1. ASSUME UNCHANGED video PROVE FramesStay
  BY <1>1 DEF FramesStay
<1>2. ASSUME NEW v \in Videos, video[v] # None PROVE IsVideoRow(video[v])
  BY <1>2 DEF MediaInv, RowsOK, VideoRows
<1>3. ASSUME NEW v \in Videos, NEW new, video' = [video EXCEPT ![v] = new], video[v] # None,
             DOMAIN new.frames = {} \/ new.frames = video[v].frames
      PROVE  FramesStay
  <2>1. video'[v] = new /\ \A w \in Videos : w # v => video'[w] = video[w]
    BY <1>3 DEF MediaInv, RowsOK
  <2> QED BY <1>3, <2>1 DEF FramesStay
<1>4. ASSUME NEW fs, video' = ForFrames(fs, NewVector) \/ video' = ForFrames(fs, MarkedFrame) PROVE FramesStay
  <2> SUFFICES ASSUME NEW v \in Videos, video'[v] # None
               PROVE  /\ video[v] # None
                      /\ DOMAIN video'[v].frames = DOMAIN video[v].frames
                      /\ \A k \in DOMAIN video[v].frames : video'[v].frames[k].idx = video[v].frames[k].idx
    BY DEF FramesStay
  <2>1. video[v] # None
    BY <1>4 DEF ForFrames, VideoRows
  <2>2. IsVideoRow(video[v]) /\ v \in VideoRows
    BY <1>2, <2>1 DEF VideoRows
  <2>3. CASE video' = ForFrames(fs, NewVector)
    <3> DEFINE row == video[v]
               y == [k \in DOMAIN row.frames |-> IF \E f \in fs : f[1] = v /\ f[2] = k
                        THEN NewVector(row.frames[k], <<v, k, row.frames[k].idx>>) ELSE row.frames[k]]
    <3>1. video'[v] = [row EXCEPT !.frames = y]
      BY <2>2, <2>3 DEF ForFrames, IsVideoRow, VideoColumns
    <3>2. DOMAIN y = DOMAIN row.frames
      OBVIOUS
    <3>3. ASSUME NEW k \in DOMAIN row.frames PROVE y[k].idx = row.frames[k].idx
      <4>1. \A f : NewVector(row.frames[k], f).idx = row.frames[k].idx
        BY <2>2, <3>3 DEF NewVector, IsVideoRow, AreFrames, FrameColumns
      <4> QED BY <3>3, <4>1
    <3> HIDE DEF y
    <3>4. video'[v].frames = y
      BY <2>2, <3>1 DEF IsVideoRow, VideoColumns
    <3> QED BY <2>1, <3>2, <3>3, <3>4
  <2>4. CASE video' = ForFrames(fs, MarkedFrame)
    <3> DEFINE row == video[v]
               y == [k \in DOMAIN row.frames |-> IF \E f \in fs : f[1] = v /\ f[2] = k
                        THEN MarkedFrame(row.frames[k], <<v, k, row.frames[k].idx>>) ELSE row.frames[k]]
    <3>1. video'[v] = [row EXCEPT !.frames = y]
      BY <2>2, <2>4 DEF ForFrames, IsVideoRow, VideoColumns
    <3>2. DOMAIN y = DOMAIN row.frames
      OBVIOUS
    <3>3. ASSUME NEW k \in DOMAIN row.frames PROVE y[k].idx = row.frames[k].idx
      <4>1. \A f : MarkedFrame(row.frames[k], f).idx = row.frames[k].idx
        BY <2>2, <3>3 DEF MarkedFrame, IsVideoRow, AreFrames, FrameColumns
      <4> QED BY <3>3, <4>1
    <3> HIDE DEF y
    <3>4. video'[v].frames = y
      BY <2>2, <3>1 DEF IsVideoRow, VideoColumns
    <3> QED BY <2>1, <3>2, <3>3, <3>4
  <2> QED BY <1>4, <2>1, <2>3, <2>4
<1>5. CASE RemoveObsoleteVideos
  BY <1>5 DEF RemoveObsoleteVideos, FramesStay
<1>6. CASE BulkInsertVideos
  <2>1. CASE video' = [v \in Videos |-> IF v \in DOMAIN task.recs
                                           THEN UpsertedVideo(video[v], task.recs[v]) ELSE video[v]]
    <3>1. ASSUME NEW v \in Videos, video[v] = None
          PROVE  DOMAIN UpsertedVideo(video[v], task.recs[v]).frames = {}
      BY <3>1 DEF UpsertedVideo, NewVideo
    <3>2. ASSUME NEW v \in Videos, video[v] # None
          PROVE  UpsertedVideo(video[v], task.recs[v]).frames = video[v].frames
      BY <1>2, <3>2 DEF UpsertedVideo, IsVideoRow, VideoColumns
    <3> QED BY <2>1, <3>1, <3>2 DEF FramesStay
  <2> QED BY <1>1, <1>6, <2>1 DEF BulkInsertVideos
<1>7. CASE DeleteFrames
  <2>1. CASE task.cur \in VideoRows /\ video' = [video EXCEPT ![task.cur] = WithoutFrames(video[task.cur])]
    <3>1. DOMAIN WithoutFrames(video[task.cur]).frames = {}
      BY <1>2, <2>1 DEF WithoutFrames, VideoRows, IsVideoRow, VideoColumns
    <3> QED BY <1>3, <2>1, <3>1 DEF VideoRows
  <2> QED BY <1>1, <1>7, <2>1 DEF DeleteFrames, SetCurrent
<1>8. CASE WriteVideoClasses
  <2>1. ASSUME NEW x, task.cur \in VideoRows, video' = [video EXCEPT ![task.cur] = [@ EXCEPT !.objects = x]]
        PROVE  FramesStay
    <3>1. [video[task.cur] EXCEPT !.objects = x].frames = video[task.cur].frames
      BY <1>2, <2>1 DEF VideoRows, IsVideoRow, VideoColumns
    <3> QED BY <1>3, <2>1, <3>1 DEF VideoRows
  <2> QED BY <1>1, <1>8, <2>1 DEF WriteVideoClasses, SetCurrent
<1>9. CASE MarkVideoTagged
  <2>1. CASE task.cur \in VideoRows /\ video' = [video EXCEPT ![task.cur] = FlaggedVideo(video[task.cur])]
    <3>1. FlaggedVideo(video[task.cur]).frames = video[task.cur].frames
      BY <1>2, <2>1 DEF FlaggedVideo, VideoRows, IsVideoRow, VideoColumns
    <3> QED BY <1>3, <2>1, <3>1 DEF VideoRows
  <2> QED BY <1>1, <1>9, <2>1 DEF MarkVideoTagged, SetCurrent
<1>10. CASE EmbedFrames
  BY <1>1, <1>4, <1>10 DEF EmbedFrames
<1>11. CASE MarkFramesEmbedded
  BY <1>1, <1>4, <1>11 DEF MarkFramesEmbedded
<1>12. CASE PrepareVideos \/ RemoveObsoleteFiles \/ RemovePosters \/ GetUntaggedVideos \/ ExtractFrames
            \/ GetUnembeddedFrames(installed)
  BY <1>1, <1>12 DEF PrepareVideos, RemoveObsoleteFiles, RemovePosters, GetUntaggedVideos, ExtractFrames,
                     GetUnembeddedFrames, videoVars
<1>13. CASE WriteVideoScores
  <2>1. ASSUME task.cur \in VideoRows, NEW tags, NEW sig,
               video' = [video EXCEPT ![task.cur] = Scored(video[task.cur], tags, sig)]
        PROVE  FramesStay
    <3> DEFINE row == video[task.cur]
               x == [k \in DOMAIN row.frames |-> IF row.frames[k].vector = None THEN row.frames[k]
                                                 ELSE [row.frames[k] EXCEPT !.stamp = sig]]
    <3>1. task.cur \in Videos /\ row # None /\ IsVideoRow(row)
      BY <1>2, <2>1 DEF VideoRows
    <3>2. Scored(row, tags, sig).frames = x
      BY <3>1 DEF Scored, IsVideoRow, VideoColumns
    <3>3. DOMAIN x = DOMAIN row.frames /\ \A k \in DOMAIN row.frames : x[k].idx = row.frames[k].idx
      BY <3>1 DEF IsVideoRow, AreFrames, FrameColumns
    <3>4. /\ video'[task.cur] = Scored(row, tags, sig)
          /\ \A w \in Videos : w # task.cur => video'[w] = video[w]
      BY <2>1, <3>1 DEF MediaInv, RowsOK
    <3> HIDE DEF x
    <3> QED BY <3>1, <3>2, <3>3, <3>4 DEF FramesStay
  <2> QED BY <1>1, <1>13, <2>1 DEF WriteVideoScores
<1>14. CASE /\ LabelStep /\ ~WriteVideoScores
  BY <1>1, <1>14 DEF LabelStep, BuildLabelEmbeddings, LoadContext, ReadUnscoredImages, WriteImageScores,
                     ReadUnscoredVideos, ScoreFrames, videoVars
<1>15. CASE FolderDeleted
  BY <1>15 DEF FolderDeleted, FramesStay
<1>16. CASE ToggleVideoFavourite
  <2>1. PICK v \in VideoRows : video' = [video EXCEPT ![v].favourite = ~@]
    BY <1>16 DEF ToggleVideoFavourite
  <2> DEFINE new == [video[v] EXCEPT !.favourite = ~@]
  <2>2. v \in Videos /\ video[v] # None /\ video' = [video EXCEPT ![v] = new]
    BY <2>1 DEF VideoRows
  <2>3. new.frames = video[v].frames
    BY <1>2, <2>2 DEF IsVideoRow, VideoColumns
  <2> HIDE DEF new
  <2> QED BY <1>3, <2>2, <2>3
<1>17. CASE ClearFramePaths
  <2>1. CASE video' = [v \in Videos |-> IF v \notin VideoRows THEN None
                          ELSE [video[v] EXCEPT !.frames = [k \in DOMAIN @ |-> ClearedFrame(@[k])]]]
    <3> SUFFICES ASSUME NEW v \in Videos, video'[v] # None
                 PROVE  /\ video[v] # None
                        /\ DOMAIN video'[v].frames = DOMAIN video[v].frames
                        /\ \A k \in DOMAIN video[v].frames : video'[v].frames[k].idx = video[v].frames[k].idx
      BY DEF FramesStay
    <3>1. video[v] # None
      BY <2>1 DEF VideoRows
    <3>2. IsVideoRow(video[v]) /\ v \in VideoRows
      BY <1>2, <3>1 DEF VideoRows
    <3> QED BY <2>1, <3>1, <3>2 DEF ClearedFrame, IsVideoRow, VideoColumns, AreFrames, FrameColumns
  <2> QED BY <1>1, <1>17, <2>1 DEF ClearFramePaths
<1>18. CASE UNCHANGED videoVars \/ UNCHANGED vars \/ Crash
  BY <1>1, <1>18 DEF Crash, vars, videoVars
<1>19. CASE FolderSequence \/ ModelsInstalled \/ IntervalChanges \/ PurgeFiles
  BY <1>1, <1>19 DEF FolderSequence, ModelsInstalled, IntervalChanges, PurgeFiles, videoVars
<1> QED BY <1>5, <1>6, <1>7, <1>8, <1>9, <1>10, <1>11, <1>12, <1>13, <1>14, <1>15, <1>16, <1>17, <1>18, <1>19
       DEF Next, Worker, VideoStep, Requests

(* The first sample of a video: the n-th frame is the n-th keyframe.       *)
LEMMA FirstSample ==
    ASSUME NEW row, IsVideoRow(row), DOMAIN row.frames = {}, task.got \in Nat
    PROVE  OneSample(WithFrames(row).frames) /\ DOMAIN WithFrames(row).frames = 1..task.got
<1> DEFINE n == task.got
           kept == {i \in 1..task.got : \E k \in DOMAIN row.frames :
                                        row.frames[k].path /\ row.frames[k].idx = i}
           news == {i \in 1..task.got : i \notin kept}
           nth(k) == CHOOSE i \in news : Cardinality({j \in news : j < i}) = k - 1
           added == [k \in 1..Cardinality(news) |-> NewFrame(nth(k))]
<1>1. WithFrames(row).frames = row.frames \o added
  BY DEF WithFrames, IsVideoRow, VideoColumns
<1>2. row.frames = <<>>
  <2>1. PICK S : row.frames \in Seq(S)
    BY DEF IsVideoRow, AreFrames, IsSequence
  <2> DEFINE f == row.frames
  <2>2. Len(f) \in Nat /\ DOMAIN f = 1..Len(f)
    BY <2>1, LenProperties
  <2>3. DOMAIN f = {}
    OBVIOUS
  <2> HIDE DEF f
  <2>4. Len(f) = 0
    BY <2>2, <2>3
  <2> QED BY <2>1, <2>4, EmptySeq DEF f
<1>3. news = 1..n
  OBVIOUS
<1>4. Cardinality(news) = n
  <2>1. Cardinality(1..n) = n
    BY FS_Interval
  <2> QED BY <1>3, <2>1
<1>5. ASSUME NEW k \in 1..n PROVE Cardinality({j \in news : j < nth(k)}) = k - 1
  <2>1. {j \in news : j < k} = 1..(k - 1)
    BY <1>3, <1>5
  <2>2. Cardinality(1..(k - 1)) = k - 1
    BY <1>5, FS_Interval
  <2>3. k \in news /\ Cardinality({j \in news : j < k}) = k - 1
    BY <1>3, <1>5, <2>1, <2>2
  <2> HIDE DEF news
  <2> QED BY <2>3
<1>6. \A k \in 1..n : added[k].idx = nth(k)
  BY <1>4 DEF NewFrame
<1> DEFINE T == {NewFrame(nth(k)) : k \in 1..n}
<1>7. added \in Seq(T) /\ DOMAIN added = 1..n
  <2>1. added = [k \in 1..n |-> NewFrame(nth(k))]
    BY <1>4
  <2> HIDE DEF nth, added
  <2>2. added \in [1..n -> T]
    BY <2>1
  <2> HIDE DEF T
  <2> QED BY <2>2
<1> HIDE DEF added, news, kept, T
<1>8. row.frames \o added = added
  BY <1>2, <1>7
<1>9. ASSUME NEW j \in 1..n, NEW k \in 1..n, added[j].idx = added[k].idx PROVE j = k
  <2>1. nth(j) = nth(k)
    BY <1>6, <1>9
  <2>2. Cardinality({i \in news : i < nth(j)}) = j - 1 /\ Cardinality({i \in news : i < nth(k)}) = k - 1
    BY <1>5
  <2> HIDE DEF nth
  <2> QED BY <2>1, <2>2
<1> QED BY <1>1, <1>7, <1>8, <1>9 DEF OneSample

LEMMA SampleStarts == ASSUME Init PROVE SampleInv
BY DEF Init, MediaInit, VideoInit, SampleInv, VideoRows, Inserting, At, Idle

LEMMA SampleSteps ==
    ASSUME NullHasNoColumns, MediaInv, SampleInv, [Next]_vars PROVE SampleInv'
<1>1. /\ "faults" \in DOMAIN count' /\ count'.faults \in Nat
      /\ count'.faults = 0 => count.faults = 0
      /\ Fails => count'.faults # 0
  BY StepsAreCounted, FaultsAreCounted
<1>2. SUFFICES ASSUME count'.faults = 0
               PROVE  /\ \A v \in VideoRows' : OneSample(video'[v].frames)
                      /\ Inserting' /\ task'.cur \in VideoRows' => DOMAIN video'[task'.cur].frames = {}
  BY <1>1 DEF SampleInv, OneSample, VideoRows
<1>3. /\ \A v \in VideoRows : OneSample(video[v].frames)
      /\ Inserting /\ task.cur \in VideoRows => DOMAIN video[task.cur].frames = {}
      /\ ~Fails
  BY <1>1, <1>2 DEF SampleInv
<1>4. /\ DOMAIN video = Videos /\ \A v \in VideoRows : IsVideoRow(video[v])
      /\ TaskColumns \subseteq DOMAIN task
  BY DEF MediaInv, RowsOK, TaskOK
<1>5. CASE FramesStay
  <2>1. ASSUME NEW v \in VideoRows' PROVE OneSample(video'[v].frames)
    <3> DEFINE old == video[v].frames
               new == video'[v].frames
    <3>1. v \in Videos /\ video'[v] # None
      BY <2>1 DEF VideoRows
    <3>2. \/ DOMAIN new = {}
          \/ /\ OneSample(old)
             /\ DOMAIN new = DOMAIN old /\ \A k \in DOMAIN old : new[k].idx = old[k].idx
      BY <1>3, <1>5, <3>1 DEF FramesStay, VideoRows
    <3> HIDE DEF old, new
    <3>3. OneSample(new)
      BY <3>2 DEF OneSample
    <3> QED BY <3>3 DEF new
  <2>2. ASSUME Inserting', task'.cur \in VideoRows' PROVE DOMAIN video'[task'.cur].frames = {}
    <3>1. CASE UNCHANGED <<plan, task>>
      <4>1. Inserting /\ task'.cur = task.cur
        BY <2>2, <3>1 DEF Inserting, At
      <4> QED BY <1>3, <1>5, <2>2, <4>1 DEF FramesStay, VideoRows
    <3>2. CASE DeleteFrames
      <4>1. task'.cur = task.cur
        BY <1>4, <3>2 DEF DeleteFrames, Goto, Goes, TaskColumns
      <4>2. task.cur \in VideoRows /\ video' = [video EXCEPT ![task.cur] = WithoutFrames(video[task.cur])]
        BY <1>3, <2>2, <3>2, <4>1 DEF DeleteFrames, SetCurrent, VideoRows
      <4> QED BY <1>4, <4>1, <4>2 DEF WithoutFrames, VideoRows, IsVideoRow, VideoColumns
    <3> QED BY <2>2, <3>1, <3>2, InsertionFollowsDeletion
  <2> QED BY <2>1, <2>2
<1>6. CASE InsertFrames
  <2>1. /\ plan # <<>> /\ Head(plan) = "tagVideos" /\ task.pc = "insertFrames" /\ Inserting
        /\ task'.pc = "classes"
    BY <1>4, <1>6 DEF InsertFrames, Inserting, At, Goto, Goes, TaskColumns
  <2>2. task.got \in Nat
    BY <2>1 DEF MediaInv, TaskOK, TaggingVideos, Running
  <2>3. ~Inserting'
    BY <2>1 DEF Inserting, At
  <2>4. ASSUME NEW v \in VideoRows' PROVE OneSample(video'[v].frames)
    <3>1. CASE task.cur \in VideoRows /\ video' = [video EXCEPT ![task.cur] = WithFrames(video[task.cur])]
      <4>1. OneSample(WithFrames(video[task.cur]).frames)
        BY <1>3, <1>4, <2>1, <2>2, <3>1, FirstSample
      <4>2. /\ video'[task.cur] = WithFrames(video[task.cur])
            /\ \A w \in Videos : w # task.cur => video'[w] = video[w]
        BY <1>4, <3>1 DEF VideoRows
      <4> QED BY <1>3, <2>4, <4>1, <4>2 DEF VideoRows
    <3>2. CASE UNCHANGED video
      BY <1>3, <2>4, <3>2 DEF VideoRows
    <3> QED BY <1>6, <3>1, <3>2 DEF InsertFrames, SetCurrent
  <2> QED BY <2>3, <2>4
<1> QED BY <1>5, <1>6, OnlyInsertionAdds

(* However often a video is rescanned, retagged after a crash, or has its  *)
(* cache purged between the deletion of its frames and the insertion of    *)
(* the next ones, no keyframe of it has two rows: only a statement that    *)
(* fails can leave one (video_util_process_untagged_videos).               *)
THEOREM VideosHaveOneSample ==
    ASSUME NullHasNoColumns PROVE Spec => []FramesAreOneSample
<1>1. Init => MediaInv /\ SampleInv
  BY MediaStarts, SampleStarts
<1>2. MediaInv /\ SampleInv /\ [Next]_vars => MediaInv' /\ SampleInv'
  BY MediaSteps, SampleSteps
<1>3. SampleInv => FramesAreOneSample
  BY DEF SampleInv, OneSample, FramesAreOneSample
<1> QED BY <1>1, <1>2, <1>3, PTL DEF Spec

---------------------------------------------------------------------------
(* Posters in use stay.                                                    *)

Thumb(t) == t = None \/ t \in 1..uuids

(* The records of a scan name new posters, and the posters to be replaced  *)
(* are those of rows that get one of them.                                 *)
RecordsOK ==
    /\ DOMAIN task.recs \subseteq Videos
    /\ \A v \in DOMAIN task.recs : task.recs[v].thumb # None =>
          /\ task.recs[v].thumb \in 1..uuids \ task.old
          /\ \A w \in VideoRows : video[w].thumb # task.recs[v].thumb
    /\ \A v, w \in DOMAIN task.recs :
          task.recs[v].thumb = task.recs[w].thumb /\ task.recs[v].thumb # None => v = w
    /\ \A w \in VideoRows : video[w].thumb \in task.old =>
          w \in DOMAIN task.recs /\ task.recs[w].thumb # None

PosterInv ==
    /\ uuids \in Nat /\ thumbs \subseteq 1..uuids
    /\ \A v \in VideoRows : Thumb(video[v].thumb)
    /\ \A v, w \in VideoRows : video[v].thumb = video[w].thumb /\ video[v].thumb # None => v = w
    /\ Running("scanVideos") /\ task.pc \in {"obsolete", "files", "insert"} => RecordsOK
    /\ Running("scanVideos") /\ task.pc = "posters" =>
          \A v \in VideoRows : video[v].thumb # None => video[v].thumb \notin task.got

(* What every step but those of a scan of videos does.                     *)
ThumbsStay == \A v \in Videos : video'[v] = None \/ (video[v] # None /\ video'[v].thumb = video[v].thumb)

UuidsGrow == uuids' \in Nat /\ uuids' >= uuids /\ thumbs' \subseteq 1..uuids'

PlaceKept == UNCHANGED <<plan, task>> \/ ~Running("scanVideos")'

ScansVideos == PrepareVideos \/ RemoveObsoleteVideos \/ RemoveObsoleteFiles \/ BulkInsertVideos \/ RemovePosters

LEMMA QuietSteps ==
    ASSUME PosterInv, ThumbsStay, UuidsGrow, PlaceKept PROVE PosterInv'
<1>1. \A v \in VideoRows' : v \in VideoRows /\ video'[v].thumb = video[v].thumb
  BY DEF ThumbsStay, VideoRows
<1>2. 1..uuids \subseteq 1..uuids' /\ uuids' \in Nat /\ thumbs' \subseteq 1..uuids'
  BY DEF PosterInv, UuidsGrow
<1>3. \A v \in VideoRows' : Thumb(video[v].thumb)'
  BY <1>1, <1>2 DEF PosterInv, Thumb
<1>4. \A v, w \in VideoRows' : video'[v].thumb = video'[w].thumb /\ video'[v].thumb # None => v = w
  BY <1>1 DEF PosterInv
<1>5. CASE UNCHANGED <<plan, task>>
  <2>1. ASSUME RecordsOK PROVE RecordsOK'
    BY <1>1, <1>2, <1>5, <2>1 DEF RecordsOK
  <2>2. Running("scanVideos")' => Running("scanVideos")
    BY <1>5 DEF Running
  <2>3. Running("scanVideos")' /\ task'.pc = "posters" =>
           \A v \in VideoRows' : video'[v].thumb # None => video'[v].thumb \notin task'.got
    BY <1>1, <1>5, <2>2 DEF PosterInv
  <2>4. Running("scanVideos")' /\ task'.pc \in {"obsolete", "files", "insert"} => RecordsOK'
    BY <1>5, <2>1, <2>2 DEF PosterInv
  <2> QED BY <1>2, <1>3, <1>4, <2>3, <2>4 DEF PosterInv
<1>6. CASE ~Running("scanVideos")'
  BY <1>2, <1>3, <1>4, <1>6 DEF PosterInv
<1> QED BY <1>5, <1>6 DEF PlaceKept

LEMMA OnlyScansSetThumbs ==
    ASSUME NullHasNoColumns, MediaInv, [Next]_vars PROVE ScansVideos \/ ThumbsStay
<1>1. ASSUME UNCHANGED video PROVE ThumbsStay
  BY <1>1 DEF ThumbsStay
<1>2. ASSUME NEW v \in Videos, video[v] # None PROVE IsVideoRow(video[v])
  BY <1>2 DEF MediaInv, RowsOK, VideoRows
<1>3. ASSUME NEW v \in Videos, NEW new, video' = [video EXCEPT ![v] = new], video[v] # None,
             new.thumb = video[v].thumb
      PROVE  ThumbsStay
  <2>1. video'[v] = new /\ \A w \in Videos : w # v => video'[w] = video[w]
    BY <1>3 DEF MediaInv, RowsOK
  <2> QED BY <1>3, <2>1 DEF ThumbsStay
<1>4. ASSUME NEW x, task.cur \in VideoRows, video' = [video EXCEPT ![task.cur] = [@ EXCEPT !.frames = x]]
      PROVE  ThumbsStay
  <2>1. [video[task.cur] EXCEPT !.frames = x].thumb = video[task.cur].thumb
    BY <1>2, <1>4 DEF VideoRows, IsVideoRow, VideoColumns
  <2> QED BY <1>3, <1>4, <2>1 DEF VideoRows
<1>5. CASE DeleteFrames
  BY <1>1, <1>4, <1>5 DEF DeleteFrames, SetCurrent, WithoutFrames
<1>6. CASE InsertFrames
  <2>1. CASE task.cur \in VideoRows /\ video' = [video EXCEPT ![task.cur] = WithFrames(video[task.cur])]
    BY <1>4, <2>1 DEF WithFrames
  <2> QED BY <1>1, <1>6, <2>1 DEF InsertFrames, SetCurrent
<1>7. CASE WriteVideoClasses
  <2>1. ASSUME NEW x, task.cur \in VideoRows, video' = [video EXCEPT ![task.cur] = [@ EXCEPT !.objects = x]]
        PROVE  ThumbsStay
    <3>1. [video[task.cur] EXCEPT !.objects = x].thumb = video[task.cur].thumb
      BY <1>2, <2>1 DEF VideoRows, IsVideoRow, VideoColumns
    <3> QED BY <1>3, <2>1, <3>1 DEF VideoRows
  <2> QED BY <1>1, <1>7, <2>1 DEF WriteVideoClasses, SetCurrent
<1>8. CASE MarkVideoTagged
  <2>1. CASE task.cur \in VideoRows /\ video' = [video EXCEPT ![task.cur] = FlaggedVideo(video[task.cur])]
    <3>1. FlaggedVideo(video[task.cur]).thumb = video[task.cur].thumb
      BY <1>2, <2>1 DEF FlaggedVideo, VideoRows, IsVideoRow, VideoColumns
    <3> QED BY <1>3, <2>1, <3>1 DEF VideoRows
  <2> QED BY <1>1, <1>8, <2>1 DEF MarkVideoTagged, SetCurrent
<1>9. ASSUME NEW fs, video' = ForFrames(fs, NewVector) \/ video' = ForFrames(fs, MarkedFrame) PROVE ThumbsStay
  <2> SUFFICES ASSUME NEW v \in Videos, video'[v] # None
               PROVE  video[v] # None /\ video'[v].thumb = video[v].thumb
    BY DEF ThumbsStay
  <2>1. video[v] # None
    BY <1>9 DEF ForFrames, VideoRows
  <2>2. \E x : video'[v] = [video[v] EXCEPT !.frames = x]
    BY <1>2, <1>9, <2>1 DEF ForFrames, VideoRows, IsVideoRow, VideoColumns
  <2> QED BY <1>2, <2>1, <2>2 DEF IsVideoRow, VideoColumns
<1>10. CASE EmbedFrames
  BY <1>1, <1>9, <1>10 DEF EmbedFrames
<1>11. CASE MarkFramesEmbedded
  BY <1>1, <1>9, <1>11 DEF MarkFramesEmbedded
<1>12. CASE GetUntaggedVideos \/ ExtractFrames \/ GetUnembeddedFrames(installed)
  BY <1>1, <1>12 DEF GetUntaggedVideos, ExtractFrames, GetUnembeddedFrames, videoVars
<1>13. CASE WriteVideoScores
  <2>1. ASSUME task.cur \in VideoRows, NEW tags, NEW sig,
               video' = [video EXCEPT ![task.cur] = Scored(video[task.cur], tags, sig)]
        PROVE  ThumbsStay
    <3>1. Scored(video[task.cur], tags, sig).thumb = video[task.cur].thumb
      BY <1>2, <2>1 DEF Scored, VideoRows, IsVideoRow, VideoColumns
    <3> QED BY <1>3, <2>1, <3>1 DEF VideoRows
  <2> QED BY <1>1, <1>13, <2>1 DEF WriteVideoScores
<1>14. CASE LabelStep /\ ~WriteVideoScores
  BY <1>1, <1>14 DEF LabelStep, BuildLabelEmbeddings, LoadContext, ReadUnscoredImages, WriteImageScores,
                     ReadUnscoredVideos, ScoreFrames, videoVars
<1>15. CASE FolderDeleted
  BY <1>15 DEF FolderDeleted, ThumbsStay
<1>16. CASE ToggleVideoFavourite
  <2>1. PICK v \in VideoRows : video' = [video EXCEPT ![v].favourite = ~@]
    BY <1>16 DEF ToggleVideoFavourite
  <2> DEFINE new == [video[v] EXCEPT !.favourite = ~@]
  <2>2. v \in Videos /\ video[v] # None /\ video' = [video EXCEPT ![v] = new]
    BY <2>1 DEF VideoRows
  <2>3. new.thumb = video[v].thumb
    BY <1>2, <2>2 DEF IsVideoRow, VideoColumns
  <2> HIDE DEF new
  <2> QED BY <1>3, <2>2, <2>3
<1>17. CASE ClearFramePaths
  <2>1. CASE video' = [v \in Videos |-> IF v \notin VideoRows THEN None
                          ELSE [video[v] EXCEPT !.frames = [k \in DOMAIN @ |-> ClearedFrame(@[k])]]]
    <3> SUFFICES ASSUME NEW v \in Videos, video'[v] # None
                 PROVE  video[v] # None /\ video'[v].thumb = video[v].thumb
      BY DEF ThumbsStay
    <3>1. video[v] # None
      BY <2>1 DEF VideoRows
    <3> QED BY <1>2, <2>1, <3>1 DEF VideoRows, IsVideoRow, VideoColumns
  <2> QED BY <1>1, <1>17, <2>1 DEF ClearFramePaths
<1>18. CASE UNCHANGED videoVars \/ UNCHANGED vars \/ Crash
  BY <1>1, <1>18 DEF Crash, vars, videoVars
<1>19. CASE FolderSequence \/ ModelsInstalled \/ IntervalChanges \/ PurgeFiles
  BY <1>1, <1>19 DEF FolderSequence, ModelsInstalled, IntervalChanges, PurgeFiles, videoVars
<1> QED BY <1>5, <1>6, <1>7, <1>8, <1>10, <1>11, <1>12, <1>13, <1>14, <1>15, <1>16, <1>17, <1>18, <1>19
       DEF Next, Worker, VideoStep, Requests, ScansVideos

LEMMA DrawnUuids ==
    ASSUME NEW S, S \subseteq Photos \cup Videos, PosterInv, NEW fresh,
           fresh = (uuids + 1)..(uuids + Cardinality(S)), uuids' = uuids + Cardinality(S), thumbs' = thumbs \cup fresh
    PROVE  UuidsGrow /\ IsFiniteSet(S) /\ Cardinality(S) \in Nat
<1>1. IsFiniteSet(S) /\ Cardinality(S) \in Nat
  BY FS_Subset, FS_CardinalityType, MediaAssumption DEF MediaAssumption
<1>2. uuids \in Nat /\ thumbs \subseteq 1..uuids
  BY DEF PosterInv
<1> DEFINE c == Cardinality(S)
<1>3. c \in Nat /\ fresh = (uuids + 1)..(uuids + c) /\ uuids' = uuids + c
  BY <1>1
<1> HIDE DEF c
<1>4. uuids' \in Nat /\ uuids' >= uuids
  BY <1>2, <1>3
<1>5. fresh \subseteq 1..uuids' /\ 1..uuids \subseteq 1..uuids'
  BY <1>2, <1>3
<1> QED BY <1>1, <1>2, <1>4, <1>5 DEF UuidsGrow

LEMMA UuidsOnlyGrow == ASSUME PosterInv, [Next]_vars PROVE UuidsGrow
<1>1. ASSUME uuids' = uuids, thumbs' \subseteq thumbs PROVE UuidsGrow
  BY <1>1 DEF PosterInv, UuidsGrow
<1>2. CASE PrepareImages
  <2> DEFINE found == {p \in Photos : PilReads(file[p])}
             fresh == (uuids + 1)..(uuids + Cardinality(found))
  <2>1. uuids' = uuids + Cardinality(found) /\ thumbs' = thumbs \cup fresh
    BY <1>2 DEF PrepareImages
  <2>2. found \subseteq Photos \cup Videos /\ fresh = (uuids + 1)..(uuids + Cardinality(found))
    OBVIOUS
  <2> HIDE DEF found, fresh
  <2> QED BY <2>1, <2>2, DrawnUuids
<1>3. CASE PrepareVideos
  <2> DEFINE posed == {v \in {w \in Videos : file[w] # NoFile /\ ~Unchanged(w)} : CvReads(file[v])}
             fresh == (uuids + 1)..(uuids + Cardinality(posed))
  <2>1. uuids' = uuids + Cardinality(posed) /\ thumbs' = thumbs \cup fresh
    BY <1>3 DEF PrepareVideos
  <2>2. posed \subseteq Photos \cup Videos /\ fresh = (uuids + 1)..(uuids + Cardinality(posed))
    OBVIOUS
  <2> HIDE DEF posed, fresh
  <2> QED BY <2>1, <2>2, DrawnUuids
<1>4. CASE PhotoStep(installed) /\ ~PrepareImages
  BY <1>1, <1>4 DEF PhotoStep, RemoveObsoleteImages, DeleteImages, BulkInsertImages, GetUntaggedImages,
              ClassifyFails, Classify, DetectFaces, InsertFace, UpdateImageTagged, GetUnembeddedImages,
              EmbedImages, MarkImagesEmbedded
<1>5. CASE VideoStep(installed) /\ ~PrepareVideos
  BY <1>1, <1>5 DEF VideoStep, RemoveObsoleteVideos, RemoveObsoleteFiles, BulkInsertVideos, RemovePosters,
              GetUntaggedVideos, ExtractFrames, DeleteFrames, InsertFrames, WriteVideoClasses, MarkVideoTagged,
              GetUnembeddedFrames, EmbedFrames, MarkFramesEmbedded
<1>6. CASE LabelStep
  BY <1>1, <1>6 DEF LabelStep, BuildLabelEmbeddings, LoadContext, ReadUnscoredImages, WriteImageScores,
              ReadUnscoredVideos, ScoreFrames, WriteVideoScores
<1>7. CASE Requests
  BY <1>1, <1>7 DEF Requests, FolderSequence, ModelsInstalled, FolderDeleted, FileChanges, FolderToggles,
              ToggleImageFavourite, ToggleVideoFavourite, IntervalChanges, PurgeFiles, ClearFramePaths
<1>8. CASE Crash \/ UNCHANGED vars
  BY <1>1, <1>8 DEF Crash, vars, mediaVars
<1> QED BY <1>2, <1>3, <1>4, <1>5, <1>6, <1>7, <1>8 DEF Next, Worker

(* A pass leaves the worker in that pass or at the end of it.              *)
LEMMA ScansKeepTheirPlace == ASSUME MediaInv, [Next]_vars PROVE ScansVideos \/ PlaceKept
BY PassesAreRun, StepsOfPasses DEF PlaceKept, ScansVideos

LEMMA ScansKeepPosters ==
    ASSUME NullHasNoColumns, MediaInv, PosterInv, UuidsGrow, ScansVideos PROVE PosterInv'
<1>1. /\ uuids \in Nat /\ uuids' \in Nat /\ thumbs' \subseteq 1..uuids' /\ 1..uuids \subseteq 1..uuids'
      /\ \A v \in VideoRows : Thumb(video[v].thumb)
      /\ \A v, w \in VideoRows : video[v].thumb = video[w].thumb /\ video[v].thumb # None => v = w
  BY DEF PosterInv, UuidsGrow
<1>2. plan # <<>> /\ Head(plan) = "scanVideos"
  BY DEF ScansVideos, PrepareVideos, RemoveObsoleteVideos, RemoveObsoleteFiles, BulkInsertVideos, RemovePosters,
         Starts, At
<1>3. TaskColumns \subseteq DOMAIN task /\ DOMAIN video = Videos /\ \A v \in VideoRows : IsVideoRow(video[v])
  BY DEF MediaInv, TaskOK, RowsOK
<1>4. task.pc \in {"obsolete", "files", "insert"} => RecordsOK
  BY <1>2 DEF PosterInv, Running
(* The rows stay, or some go. *)
<1>5. ASSUME \A v \in VideoRows' : v \in VideoRows /\ video'[v].thumb = video[v].thumb
      PROVE  /\ \A v \in VideoRows' : Thumb(video[v].thumb)'
             /\ \A v, w \in VideoRows' : video'[v].thumb = video'[w].thumb /\ video'[v].thumb # None => v = w
  BY <1>1, <1>5 DEF Thumb
<1>6. CASE PrepareVideos
  <2> DEFINE redo  == {v \in Videos : file[v] # NoFile /\ ~Unchanged(v)}
             posed == {v \in redo : CvReads(file[v])}
             fresh == (uuids + 1)..(uuids + Cardinality(posed))
             old   == {video[v].thumb : v \in posed \cap VideoRows} \ {None}
             recs(name) == [v \in redo |-> [thumb |-> IF v \in posed THEN name[v] ELSE None, print |-> file[v]]]
  <2>1. PICK name \in [posed -> fresh] :
          /\ {name[v] : v \in posed} = fresh
          /\ Goes([task EXCEPT !.pc = "obsolete", !.recs = recs(name), !.old = old])
    BY <1>6 DEF PrepareVideos
  <2>2. uuids' = uuids + Cardinality(posed) /\ UNCHANGED video
    BY <1>6 DEF PrepareVideos, videoVars
  <2>3. UNCHANGED plan /\ task'.pc = "obsolete" /\ task'.recs = recs(name) /\ task'.old = old
    BY <1>3, <2>1 DEF Goes, TaskColumns
  <2>4. posed \subseteq redo /\ redo \subseteq Videos
    OBVIOUS
  <2>5. IsFiniteSet(posed) /\ Cardinality(posed) \in Nat
    <3>1. posed \subseteq Photos \cup Videos
      BY <2>4
    <3> HIDE DEF posed
    <3> QED BY <3>1, FS_Subset, FS_CardinalityType, MediaAssumption DEF MediaAssumption
  <2>6. DOMAIN recs(name) = redo /\ \A v \in redo : recs(name)[v].thumb = IF v \in posed THEN name[v] ELSE None
    OBVIOUS
  <2>7. \A v, w \in posed : name[v] = name[w] => v = w
    <3> DEFINE c == Cardinality(posed)
    <3>1. Cardinality((uuids + 1)..(uuids + c)) = c
      <4>1. c \in Nat
        BY <2>5
      <4> HIDE DEF c
      <4>2. uuids + 1 \in Int /\ uuids + c \in Int
        BY <1>1, <4>1
      <4>3. Cardinality((uuids + 1)..(uuids + c))
              = IF uuids + 1 > uuids + c THEN 0 ELSE (uuids + c) - (uuids + 1) + 1
        BY ONLY <4>2, FS_Interval
      <4> QED BY ONLY <1>1, <4>1, <4>3
    <3>2. name \in Surjection(posed, fresh)
      <4> HIDE DEF posed, fresh
      <4> QED BY <2>1 DEF Surjection
    <3> HIDE DEF posed
    <3>3. name \in Injection(posed, fresh)
      BY <2>5, <3>1, <3>2, FS_Surjection
    <3> HIDE DEF fresh
    <3> QED BY <3>3 DEF Injection, IsInjective
  <2>8. \A v \in posed : name[v] \in 1..uuids' /\ name[v] \notin 1..uuids /\ name[v] # None
    <3>1. \A v \in posed : name[v] \in fresh
      <4> HIDE DEF posed, fresh
      <4> QED BY <2>1
    <3> DEFINE c == Cardinality(posed)
    <3>2. c \in Nat /\ uuids' = uuids + c /\ fresh = (uuids + 1)..(uuids + c)
      BY <2>2, <2>5
    <3>3. None \notin Nat
      BY MediaAssumption DEF MediaAssumption
    <3> HIDE DEF posed, fresh, c
    <3>4. \A x \in fresh : x \in 1..uuids' /\ x \notin 1..uuids /\ x # None
      BY <1>1, <3>2, <3>3
    <3> QED BY <3>1, <3>4
  <2>9. \A t \in old : /\ t # None /\ t \in 1..uuids
                       /\ \E u \in posed \cap VideoRows : video[u].thumb = t
    <3> HIDE DEF posed
    <3> QED BY <1>1 DEF Thumb
  <2>10. \A w \in VideoRows : video[w].thumb = None \/ video[w].thumb \in 1..uuids
    BY <1>1 DEF Thumb
  <2> HIDE DEF redo, posed, fresh, old, recs
  <2>11. RecordsOK'
    <3>1. DOMAIN task'.recs \subseteq Videos
      BY <2>3, <2>4, <2>6
    <3>2. ASSUME NEW v \in DOMAIN task'.recs, task'.recs[v].thumb # None
          PROVE  v \in posed /\ task'.recs[v].thumb = name[v]
      BY <2>3, <2>6, <3>2
    <3>3. \A v \in posed : v \in DOMAIN task'.recs /\ task'.recs[v].thumb = name[v]
      BY <2>3, <2>4, <2>6
    <3>4. ASSUME NEW v \in posed
          PROVE  name[v] \in 1..uuids' \ old /\ \A w \in VideoRows : video[w].thumb # name[v]
      BY <2>8, <2>9, <2>10, <3>4
    <3>5. ASSUME NEW w \in VideoRows, video[w].thumb \in old PROVE w \in posed
      BY <1>1, <2>9, <3>5
    <3>6. VideoRows' = VideoRows /\ video' = video
      BY <2>2 DEF VideoRows
    <3>7. \A v \in DOMAIN task'.recs : task'.recs[v].thumb # None =>
             /\ task'.recs[v].thumb \in 1..uuids' \ task'.old
             /\ \A w \in VideoRows' : video'[w].thumb # task'.recs[v].thumb
      BY <2>3, <3>2, <3>4, <3>6
    <3>8. \A v, w \in DOMAIN task'.recs :
             task'.recs[v].thumb = task'.recs[w].thumb /\ task'.recs[v].thumb # None => v = w
      BY <2>7, <3>2
    <3>9. \A w \in VideoRows' : video'[w].thumb \in task'.old =>
             w \in DOMAIN task'.recs /\ task'.recs[w].thumb # None
      BY <2>3, <2>8, <3>3, <3>5, <3>6
    <3> QED BY <3>1, <3>7, <3>8, <3>9 DEF RecordsOK
  <2> QED BY <1>1, <1>5, <2>2, <2>3, <2>11 DEF PosterInv, VideoRows
<1>7. CASE RemoveObsoleteVideos \/ RemoveObsoleteFiles
  <2>1. /\ task.pc \in {"obsolete", "files"} /\ UNCHANGED plan /\ task'.pc \in {"files", "insert"}
        /\ task'.recs = task.recs /\ task'.old = task.old
    BY <1>3, <1>7 DEF RemoveObsoleteVideos, RemoveObsoleteFiles, At, Goes, TaskColumns
  <2>2. \A v \in VideoRows' : v \in VideoRows /\ video'[v].thumb = video[v].thumb
    BY <1>7 DEF RemoveObsoleteVideos, RemoveObsoleteFiles, VideoRows
  <2>3. RecordsOK
    BY <1>4, <2>1
  <2>4. RecordsOK'
    BY <1>1, <2>1, <2>2, <2>3 DEF RecordsOK
  <2> QED BY <1>1, <1>5, <2>1, <2>2, <2>4 DEF PosterInv
<1>8. CASE BulkInsertVideos
  <2>1. task.pc = "insert" /\ RecordsOK
    BY <1>4, <1>8 DEF BulkInsertVideos, At
  <2>2. CASE UNCHANGED video /\ Goes([task EXCEPT !.pc = "posters", !.got = Stale(FALSE)])
    <3>1. UNCHANGED plan /\ task'.pc = "posters" /\ task'.got = Stale(FALSE)
      BY <1>3, <2>2 DEF Goes, TaskColumns
    <3>2. \A v \in VideoRows : video[v].thumb # None => video[v].thumb \notin Stale(FALSE)
      BY <2>1 DEF RecordsOK, Stale
    <3>3. VideoRows' = VideoRows /\ video' = video
      BY <2>2 DEF VideoRows
    <3> QED BY <1>1, <1>5, <3>1, <3>2, <3>3 DEF PosterInv
  <2>3. CASE /\ video' = [v \in Videos |-> IF v \in DOMAIN task.recs
                                              THEN UpsertedVideo(video[v], task.recs[v]) ELSE video[v]]
             /\ Goes([task EXCEPT !.pc = "posters", !.got = Stale(TRUE)])
    <3>1. UNCHANGED plan /\ task'.pc = "posters" /\ task'.got = task.old
      BY <1>3, <2>3 DEF Goes, TaskColumns, Stale
    <3> DEFINE Given(v) == v \in DOMAIN task.recs /\ task.recs[v].thumb # None
    <3>2. ASSUME NEW v \in VideoRows'
          PROVE  \/ Given(v) /\ video'[v].thumb = task.recs[v].thumb
                 \/ ~Given(v) /\ v \in VideoRows /\ video'[v].thumb = video[v].thumb
                 \/ video'[v].thumb = None
      <4>1. v \in Videos /\ video'[v] # None
        BY <3>2 DEF VideoRows
      <4>2. CASE v \notin DOMAIN task.recs
        BY <2>3, <4>1, <4>2 DEF VideoRows
      <4>3. CASE v \in DOMAIN task.recs /\ video[v] = None
        BY <2>3, <4>1, <4>3 DEF UpsertedVideo, NewVideo
      <4>4. CASE v \in DOMAIN task.recs /\ video[v] # None
        <5>1. IsVideoRow(video[v]) /\ v \in VideoRows
          BY <1>3, <4>1, <4>4 DEF VideoRows
        <5>2. video'[v].thumb = IF task.recs[v].thumb = None THEN video[v].thumb ELSE task.recs[v].thumb
          BY <2>3, <4>1, <4>4, <5>1 DEF UpsertedVideo, IsVideoRow, VideoColumns
        <5> QED BY <4>4, <5>1, <5>2
      <4> QED BY <4>2, <4>3, <4>4
    <3>3. \A v \in VideoRows' : Thumb(video[v].thumb)'
      BY <1>1, <2>1, <3>2 DEF RecordsOK, Thumb
    <3>4. ASSUME NEW v \in VideoRows', NEW w \in VideoRows', video'[v].thumb = video'[w].thumb, video'[v].thumb # None
          PROVE  v = w
      BY <1>1, <2>1, <3>2, <3>4 DEF RecordsOK
    <3>5. \A v \in VideoRows' : video'[v].thumb # None => video'[v].thumb \notin task.old
      BY <2>1, <3>2 DEF RecordsOK
    <3> QED BY <1>1, <3>1, <3>3, <3>4, <3>5 DEF PosterInv
  <2> QED BY <1>8, <2>2, <2>3 DEF BulkInsertVideos
<1>9. CASE RemovePosters
  <2>1. task' = Idle /\ UNCHANGED video
    BY <1>9 DEF RemovePosters, EndPass, videoVars
  <2>2. ~Running("scanVideos")'
    BY <2>1 DEF Running, Idle
  <2>3. VideoRows' = VideoRows
    BY <2>1 DEF VideoRows
  <2> QED BY <1>1, <1>5, <2>1, <2>2, <2>3 DEF PosterInv
<1> QED BY <1>6, <1>7, <1>8, <1>9 DEF ScansVideos

LEMMA PostersStart == ASSUME Init PROVE PosterInv
BY DEF Init, MediaInit, VideoInit, PosterInv, VideoRows, Running

LEMMA PosterSteps ==
    ASSUME NullHasNoColumns, MediaInv, PosterInv, [Next]_vars PROVE PosterInv'
BY UuidsOnlyGrow, OnlyScansSetThumbs, ScansKeepTheirPlace, ScansKeepPosters, QuietSteps

LEMMA PostersInUse ==
    ASSUME PosterInv, [Next]_vars, At("scanVideos", "posters"), NEW v \in VideoRows, video[v].thumb \in thumbs
    PROVE  video[v].thumb \in thumbs'
<1>1. plan # <<>> /\ Head(plan) = "scanVideos" /\ task.pc = "posters"
  BY DEF At
<1>2. CASE RemovePosters
  <2>1. video[v].thumb # None
    <3> DEFINE t == video[v].thumb
    <3>1. thumbs \subseteq 1..uuids /\ uuids \in Nat /\ t \in thumbs
      BY DEF PosterInv
    <3> HIDE DEF t
    <3>2. t \in 1..uuids
      BY ONLY <3>1, Zenon
    <3>3. t \in Nat
      BY ONLY <3>1, <3>2, SMT
    <3> USE DEF t
    <3>4. None \notin Nat
      BY MediaAssumption DEF MediaAssumption
    <3> QED BY <3>3, <3>4
  <2>2. video[v].thumb \notin task.got
    BY <1>1, <2>1 DEF PosterInv, Running
  <2> QED BY <1>2, <2>2 DEF RemovePosters
<1>3. CASE PhotoStep(installed)
  BY <1>1, <1>3
     DEF PhotoStep, PrepareImages, RemoveObsoleteImages, DeleteImages, BulkInsertImages, GetUntaggedImages,
         ClassifyFails, Classify, DetectFaces, InsertFace, UpdateImageTagged, GetUnembeddedImages,
         EmbedImages, MarkImagesEmbedded, Starts, At
<1>4. CASE VideoStep(installed) /\ ~RemovePosters
  BY <1>1, <1>4 DEF VideoStep, PrepareVideos, RemoveObsoleteVideos, RemoveObsoleteFiles, BulkInsertVideos,
              GetUntaggedVideos, ExtractFrames, DeleteFrames, InsertFrames, WriteVideoClasses, MarkVideoTagged,
              GetUnembeddedFrames, EmbedFrames, MarkFramesEmbedded, Starts, At
<1>5. CASE LabelStep
  BY <1>5 DEF LabelStep, BuildLabelEmbeddings, LoadContext, ReadUnscoredImages, WriteImageScores,
              ReadUnscoredVideos, ScoreFrames, WriteVideoScores
<1>6. CASE Requests
  BY <1>6 DEF Requests, FolderSequence, ModelsInstalled, FolderDeleted, FileChanges, FolderToggles,
              ToggleImageFavourite, ToggleVideoFavourite, IntervalChanges, PurgeFiles, ClearFramePaths
<1>7. CASE Crash \/ UNCHANGED vars
  BY <1>7 DEF Crash, vars, mediaVars
<1> QED BY <1>2, <1>3, <1>4, <1>5, <1>6, <1>7 DEF Next, Worker

(* The clean-up after a scan of videos takes no poster that a row shows,   *)
(* whether the new posters replaced the old ones or the transaction failed *)
(* (video_util_process_folder_videos).                                     *)
THEOREM PostersStay ==
    ASSUME NullHasNoColumns PROVE Spec => PostersInUseStay
<1>1. Init => MediaInv /\ PosterInv
  BY MediaStarts, PostersStart
<1>2. MediaInv /\ PosterInv /\ [Next]_vars => MediaInv' /\ PosterInv'
  BY MediaSteps, PosterSteps
<1>3. PosterInv /\ [Next]_vars =>
        [At("scanVideos", "posters") =>
            \A v \in VideoRows : video[v].thumb \in thumbs => video[v].thumb \in thumbs']_vars
  BY PostersInUse
<1> QED BY <1>1, <1>2, <1>3, PTL DEF Spec, PostersInUseStay

---------------------------------------------------------------------------
(* Faces are stored a second time after a fault only.                      *)

(* Every set of numbers that has any has a least one. *)
LEMMA LeastExists ==
    ASSUME NEW S, S \subseteq Nat, S # {}
    PROVE  \E m \in S : \A k \in S : m <= k
<1>1. PICK m \in S : \A k \in S : <<k, m>> \notin OpToRel(<, Nat)
  BY WFMin, NatLessThanWellFounded, Zenon
<1>2. \A k \in S : ~(k < m)
  BY <1>1, Zenon DEF OpToRel
<1> QED BY <1>2

(* A finite set of numbers has a largest one: the prefixes of a list of    *)
(* them are bounded, as the shortest one that is not would have a shorter  *)
(* one; and the least bound of all is one of them.                         *)
LEMMA MaxExists ==
    ASSUME NEW S, S \subseteq Nat, S # {}, IsFiniteSet(S)
    PROVE  Max(S) \in S /\ \A y \in S : y <= Max(S)
<1>1. PICK n \in Nat : ExistsSurjection(1..n, S)
  BY FS_NatSurjection
<1>2. PICK f \in Surjection(1..n, S) : TRUE
  BY <1>1 DEF ExistsSurjection
<1>3. f \in [1..n -> S] /\ \A y \in S : \E i \in 1..n : f[i] = y
  BY <1>2 DEF Surjection
<1>4. \A i \in 1..n : f[i] \in Nat
  BY <1>3
<1> DEFINE Below(k) == \E m \in Nat : \A i \in 1..k : f[i] <= m
           Unbounded == {k \in 0..n : ~Below(k)}
<1>5. Below(0)
  BY 0 \in Nat
<1>6. ASSUME NEW k \in 1..n, Below(k - 1) PROVE Below(k)
  <2>1. PICK m \in Nat : \A i \in 1..(k - 1) : f[i] <= m
    BY <1>6
  <2>2. PICK b \in {m, f[k]} : b >= m /\ b >= f[k]
    BY <1>4, <2>1
  <2>3. b \in Nat
    BY <1>4, <2>1, <2>2
  <2>4. ASSUME NEW i \in 1..k PROVE f[i] <= b
    <3>1. i \in 1..n /\ (i = k \/ i \in 1..(k - 1))
      OBVIOUS
    <3>2. f[i] \in Nat /\ f[k] \in Nat
      BY <1>4, <3>1
    <3>3. f[i] <= m \/ i = k
      BY <2>1, <3>1
    <3> QED BY ONLY <2>1, <2>2, <2>3, <3>2, <3>3
  <2> QED BY <2>3, <2>4
<1>7. Unbounded = {}
  <2> SUFFICES ASSUME Unbounded # {} PROVE FALSE
    OBVIOUS
  <2>1. PICK k \in Unbounded : \A j \in Unbounded : k <= j
    <3>1. Unbounded \subseteq Nat
      OBVIOUS
    <3> HIDE DEF Unbounded
    <3> QED BY <3>1, LeastExists
  <2> HIDE DEF Below
  <2>2. k \in 1..n /\ k - 1 \in 0..n
    BY <1>5, <2>1
  <2>3. Below(k - 1)
    BY <2>1, <2>2
  <2> QED BY <1>6, <2>1, <2>2, <2>3
<1>8. Below(n)
  <2> HIDE DEF Below
  <2> QED BY <1>7
<1> DEFINE Tops == {m \in Nat : \A y \in S : y <= m}
<1>9. PICK m \in Tops : \A j \in Tops : m <= j
  <2>1. Tops \subseteq Nat /\ Tops # {}
    BY <1>3, <1>8
  <2> HIDE DEF Tops
  <2> QED BY <2>1, LeastExists
<1>10. m \in S
  <2> SUFFICES ASSUME m \notin S PROVE FALSE
    OBVIOUS
  <2>1. \A y \in S : y \in Nat /\ y < m
    BY <1>9
  <2>2. m \in Nat /\ m - 1 \in Nat
    <3>1. PICK y \in S : y \in Nat /\ y < m
      BY <2>1
    <3>2. m \in Nat
      BY <1>9
    <3> QED BY ONLY <3>1, <3>2
  <2>3. m - 1 \in Tops
    BY <2>1, <2>2
  <2> QED BY <1>9, <2>2, <2>3
<1>11. \A y \in S : m >= y
  BY <1>9
<1>12. Max(S) \in S /\ \A y \in S : Max(S) >= y
  BY <1>10, <1>11 DEF Max
<1> QED BY <1>12

MostFaces == Max({FacesIn[c] : c \in Contents})

LEMMA MostFacesBounds == MostFaces \in Nat /\ \A c \in Contents : FacesIn[c] \in Nat /\ FacesIn[c] <= MostFaces
<1> DEFINE S == {FacesIn[c] : c \in Contents}
           f == [c \in Contents |-> FacesIn[c]]
<1>1. S \subseteq Nat /\ S # {}
  BY PhotoAssumption DEF PhotoAssumption
<1>2. IsFiniteSet(S)
  <2>1. f \in Surjection(Contents, S)
    BY DEF Surjection
  <2>2. IsFiniteSet(Contents)
    BY PhotoAssumption DEF PhotoAssumption
  <2> HIDE DEF f, S
  <2> QED BY <2>1, <2>2, FS_Surjection
<1>3. \A c \in Contents : FacesIn[c] \in S
  OBVIOUS
<1>4. MostFaces = Max(S)
  BY DEF MostFaces
<1> HIDE DEF S
<1> QED BY <1>1, <1>2, <1>3, <1>4, MaxExists

Allowed(n) == n * MostFaces

LEMMA AllowedGrows == ASSUME NEW n \in Nat PROVE Allowed(n) \in Nat /\ Allowed(n + 1) = Allowed(n) + MostFaces
BY MostFacesBounds DEF Allowed

(* What has gone wrong, and what has been stored in vain with it.          *)
Troubles == count.faults + count.crashes

(* The worker has read the faces of the photo and has not yet flagged it.  *)
Storing(p) == Running("tagPhotos") /\ task.pc \in {"face", "flag"} /\ task.cur = p

(* A pass may come to detect the faces of the photo.                       *)
Owed(p) ==
    /\ ~Storing(p)
    /\ \/ photo[p] # None /\ ~photo[p].tagged
       \/ photo[p] = None /\ folder # "gone"
       \/ Running("tagPhotos") /\ p \in task.todo

FacesFit ==
    \A p \in Photos : faces[p] <= Allowed(Troubles + 1) /\ (Owed(p) => faces[p] <= Allowed(Troubles))

TaggingPlace ==
    Running("tagPhotos") =>
        /\ folder # "gone" => task.todo \subseteq PhotoRows
        /\ task.pc \in {"detect", "face", "flag"} => task.cur \in task.todo
        /\ task.pc = "face" => task.got \in Nat \ {0} /\ faces[task.cur] + task.got <= Allowed(Troubles + 1)

(* A photo whose faces a pass may still detect has faces of passes that a  *)
(* fault ended, and of no other; while its faces are stored, those that    *)
(* are left fit in with them.                                              *)
FaceInv ==
    /\ {"faults", "crashes"} \subseteq DOMAIN count /\ count.faults \in Nat /\ count.crashes \in Nat
    /\ faces \in [Photos -> Nat]
    /\ FacesFit /\ TaggingPlace

LEMMA TroublesGrow ==
    ASSUME FaceInv, Counted
    PROVE  /\ {"faults", "crashes"} \subseteq DOMAIN count' /\ count'.faults \in Nat /\ count'.crashes \in Nat
           /\ Troubles \in Nat /\ Troubles' \in {Troubles, Troubles + 1}
           /\ Fails \/ count' = [count EXCEPT !.crashes = @ + 1] => Troubles' = Troubles + 1
<1>1. CASE UNCHANGED count \/ Happens
  BY <1>1 DEF FaceInv, Happens, Fails, Troubles
<1>2. CASE Fails
  <2>1. count' = [count EXCEPT !.faults = count.faults + 1]
    BY <1>2 DEF Fails
  <2>2. count'.faults = count.faults + 1 /\ count'.crashes = count.crashes /\ DOMAIN count' = DOMAIN count
    BY <2>1 DEF FaceInv
  <2> QED BY <2>2 DEF FaceInv, Troubles
<1>3. CASE count' = [count EXCEPT !.crashes = @ + 1]
  <2>1. count' = [count EXCEPT !.crashes = count.crashes + 1]
    BY <1>3
  <2>2. count'.crashes = count.crashes + 1 /\ count'.faults = count.faults /\ DOMAIN count' = DOMAIN count
    BY <2>1 DEF FaceInv
  <2> QED BY <2>2 DEF FaceInv, Troubles
<1> QED BY <1>1, <1>2, <1>3 DEF Counted, Works

(* What is allowed now, what is with one more trouble, and what is then.   *)
LEMMA MoreIsAllowed ==
    ASSUME FaceInv, Counted
    PROVE  /\ Allowed(Troubles) \in Nat /\ Allowed(Troubles + 1) = Allowed(Troubles) + MostFaces
           /\ Allowed(Troubles)' \in Nat /\ Allowed(Troubles' + 1) = Allowed(Troubles)' + MostFaces
           /\ Allowed(Troubles)' \in {Allowed(Troubles), Allowed(Troubles + 1)}
           /\ Troubles' = Troubles + 1 => Allowed(Troubles)' = Allowed(Troubles + 1)
           /\ Troubles' = Troubles => Allowed(Troubles)' = Allowed(Troubles)
<1>1. Troubles \in Nat /\ Troubles' \in {Troubles, Troubles + 1}
  BY TroublesGrow
<1>2. Allowed(Troubles)' = Allowed(Troubles')
  BY DEF Allowed, MostFaces
<1>3. Troubles' \in Nat /\ MostFaces \in Nat
  BY <1>1, MostFacesBounds
<1> HIDE DEF Allowed, Troubles, MostFaces
<1>4. /\ Allowed(Troubles) \in Nat /\ Allowed(Troubles + 1) = Allowed(Troubles) + MostFaces
      /\ Allowed(Troubles') \in Nat /\ Allowed(Troubles' + 1) = Allowed(Troubles') + MostFaces
  BY <1>1, <1>3, AllowedGrows
<1> QED BY <1>1, <1>2, <1>4

---------------------------------------------------------------------------
(* Whose steps touch what of this.                                         *)

(* What steps other than the storing of a face do to faces, to the rows of *)
(* photos being there, and to the folder.                                  *)
FacesDrop ==
    /\ faces' \in [Photos -> Nat]
    /\ \A p \in Photos : faces'[p] \in {faces[p], 0}

PhotosListed ==
    /\ folder' # "gone" => folder # "gone"
    /\ \A p \in Photos :
          /\ photo[p] = None /\ photo'[p] # None => folder # "gone"
          /\ photo[p] # None /\ photo'[p] = None =>
                faces'[p] = 0 /\ (folder' = "gone" \/ ~Running("tagPhotos")')

LEMMA RowsStayListed ==
    ASSUME FaceInv, UNCHANGED faces, folder' # "gone" => folder # "gone",
           \A p \in Photos : photo'[p] = None <=> photo[p] = None
    PROVE  FacesDrop /\ PhotosListed
BY DEF FaceInv, FacesDrop, PhotosListed

(* A row with columns changed is a row.                                    *)
LEMMA RowStaysRow ==
    ASSUME NullHasNoColumns, NEW row, NEW new, IsPhotoRow(row), DOMAIN new = DOMAIN row PROVE new # None
BY DEF NullHasNoColumns, IsPhotoRow, PhotoColumns

LEMMA PhotoStepsAndFaces ==
    ASSUME NullHasNoColumns, MediaInv, FaceInv, PhotoStep(installed), ~InsertFace
    PROVE  FacesDrop /\ PhotosListed
<1>0. DOMAIN photo = Photos /\ \A p \in Photos : photo[p] # None => IsPhotoRow(photo[p])
  BY DEF MediaInv, RowsOK, PhotoRows
<1>1. UNCHANGED <<folder, photo, faces>> => FacesDrop /\ PhotosListed
  BY RowsStayListed
<1>2. CASE PrepareImages \/ RemoveObsoleteImages \/ GetUntaggedImages \/ ClassifyFails \/ DetectFaces
           \/ GetUnembeddedImages(installed)
  BY <1>1, <1>2 DEF PrepareImages, RemoveObsoleteImages, GetUntaggedImages, ClassifyFails, DetectFaces,
                    GetUnembeddedImages, photoVars
<1>3. CASE DeleteImages
  <2>1. CASE Delete(task.todo)
    <3>1. FacesDrop /\ \A p \in Photos : photo[p] # None /\ photo'[p] = None => faces'[p] = 0
      BY <2>1 DEF Delete, FacesDrop, FaceInv
    <3>2. \A p \in Photos : photo[p] = None => photo'[p] = None
      BY <2>1 DEF Delete
    <3>3. plan # <<>> /\ Head(plan) = "scanPhotos" /\ UNCHANGED <<plan, folder>>
      BY <1>3 DEF DeleteImages, At, Goto, Goes
    <3> QED BY <3>1, <3>2, <3>3 DEF PhotosListed, Running
  <2> QED BY <1>1, <1>3, <2>1 DEF DeleteImages, photoVars
<1>4. CASE BulkInsertImages
  <2>1. CASE photo' = [p \in Photos |-> IF folder # "gone" /\ p \in DOMAIN task.recs
                                           THEN Upserted(photo[p], task.recs[p]) ELSE photo[p]]
    <3>1. ASSUME NEW p \in Photos, photo[p] # None PROVE photo'[p] # None
      <4>1. CASE photo'[p] = photo[p]
        BY <3>1, <4>1
      <4>2. CASE photo'[p] = Upserted(photo[p], task.recs[p])
        <5>1. DOMAIN photo'[p] = DOMAIN photo[p]
          BY <3>1, <4>2 DEF Upserted
        <5> QED BY <1>0, <3>1, <5>1, RowStaysRow
      <4> QED BY <2>1, <4>1, <4>2
    <3>2. \A p \in Photos : photo[p] = None /\ photo'[p] # None => folder # "gone"
      BY <2>1
    <3> QED BY <1>4, <3>1, <3>2 DEF BulkInsertImages, FacesDrop, PhotosListed, FaceInv
  <2> QED BY <1>1, <1>4, <2>1 DEF BulkInsertImages
<1>5. CASE Classify
  <2>1. PICK p \in task.todo :
            \/ p \in PhotoRows /\ photo' = [photo EXCEPT ![p].objects = @ \cup ObjectsIn[file[p]]]
            \/ UNCHANGED photo
    BY <1>5 DEF Classify
  <2>2. CASE p \in PhotoRows /\ photo' = [photo EXCEPT ![p].objects = @ \cup ObjectsIn[file[p]]]
    <3>1. p \in Photos /\ photo[p] # None
      BY <2>2 DEF PhotoRows
    <3>2. DOMAIN photo'[p] = DOMAIN photo[p] /\ \A q \in Photos : q # p => photo'[q] = photo[q]
      BY <1>0, <2>2, <3>1
    <3>3. photo'[p] # None
      BY <1>0, <3>1, <3>2, RowStaysRow
    <3>4. \A q \in Photos : photo'[q] = None <=> photo[q] = None
      BY <3>1, <3>2, <3>3
    <3> QED BY <1>5, <3>4, RowsStayListed DEF Classify
  <2> QED BY <1>1, <1>5, <2>1, <2>2 DEF Classify
<1>6. CASE UpdateImageTagged
  <2>1. CASE photo' = [photo EXCEPT ![task.cur] = Flagged(photo[task.cur])]
    <3>1. ASSUME NEW p \in Photos PROVE photo'[p] = None <=> photo[p] = None
      <4>1. CASE p # task.cur \/ photo[p] = None
        BY <1>0, <2>1, <4>1 DEF Flagged
      <4>2. CASE p = task.cur /\ photo[p] # None
        <5>1. DOMAIN photo'[p] = DOMAIN photo[p]
          BY <1>0, <2>1, <4>2 DEF Flagged
        <5> QED BY <1>0, <4>2, <5>1, RowStaysRow
      <4> QED BY <4>1, <4>2
    <3> QED BY <1>6, <3>1, RowsStayListed DEF UpdateImageTagged
  <2> QED BY <1>1, <1>6, <2>1 DEF UpdateImageTagged
<1>7. CASE EmbedImages
  <2>1. \/ UNCHANGED photo
        \/ \E good \in SUBSET PhotoRows :
              photo' = [p \in Photos |-> IF p \in good THEN WithVector(photo[p], file[p]) ELSE photo[p]]
    BY <1>7 DEF EmbedImages
  <2>2. ASSUME NEW good \in SUBSET PhotoRows,
               photo' = [p \in Photos |-> IF p \in good THEN WithVector(photo[p], file[p]) ELSE photo[p]],
               NEW p \in Photos
        PROVE  photo'[p] = None <=> photo[p] = None
    <3>1. CASE p \in good
      <4>1. photo[p] # None /\ DOMAIN photo'[p] = DOMAIN photo[p]
        BY <2>2, <3>1 DEF WithVector, PhotoRows
      <4> QED BY <1>0, <4>1, RowStaysRow
    <3> QED BY <2>2, <3>1
  <2> QED BY <1>1, <1>7, <2>1, <2>2, RowsStayListed DEF EmbedImages
<1>8. CASE MarkImagesEmbedded
  <2>1. ASSUME photo' = [p \in Photos |-> IF p \in task.got \cap PhotoRows
                                THEN [photo[p] EXCEPT !.embedded = TRUE] ELSE photo[p]],
               NEW p \in Photos
        PROVE  photo'[p] = None <=> photo[p] = None
    <3>1. CASE p \in task.got \cap PhotoRows
      <4>1. photo[p] # None /\ DOMAIN photo'[p] = DOMAIN photo[p]
        BY <2>1, <3>1 DEF PhotoRows
      <4> QED BY <1>0, <4>1, RowStaysRow
    <3> QED BY <2>1, <3>1
  <2> QED BY <1>1, <1>8, <2>1, RowsStayListed DEF MarkImagesEmbedded
<1> QED BY <1>2, <1>3, <1>4, <1>5, <1>6, <1>7, <1>8 DEF PhotoStep

LEMMA StepsAndFaces ==
    ASSUME NullHasNoColumns, MediaInv, FaceInv, [Next]_vars, ~InsertFace PROVE FacesDrop /\ PhotosListed
<1>0. DOMAIN photo = Photos /\ \A p \in Photos : photo[p] # None => IsPhotoRow(photo[p])
  BY DEF MediaInv, RowsOK, PhotoRows
<1>1. UNCHANGED <<photo, faces>> /\ (folder' # "gone" => folder # "gone") => FacesDrop /\ PhotosListed
  BY RowsStayListed
<1>2. CASE VideoStep(installed) /\ UNCHANGED photoVars
  BY <1>1, <1>2 DEF VideoStep, PrepareVideos, RemoveObsoleteVideos, RemoveObsoleteFiles, BulkInsertVideos, RemovePosters,
              GetUntaggedVideos, ExtractFrames, DeleteFrames, InsertFrames, WriteVideoClasses, MarkVideoTagged,
              GetUnembeddedFrames, EmbedFrames, MarkFramesEmbedded, photoVars
<1>3. CASE LabelStep /\ ~WriteImageScores
  BY <1>1, <1>3 DEF LabelStep, BuildLabelEmbeddings, LoadContext, ReadUnscoredImages,
              ReadUnscoredVideos, ScoreFrames, WriteVideoScores, photoVars
<1>4. CASE WriteImageScores
  <2>1. ASSUME photo' = [p \in Photos |-> IF p \in DOMAIN task.got \cap PhotoRows
                              THEN [photo[p] EXCEPT !.tags = task.got[p], !.stamp = task.ctx] ELSE photo[p]],
               NEW p \in Photos
        PROVE  photo'[p] = None <=> photo[p] = None
    <3>1. CASE p \in DOMAIN task.got \cap PhotoRows
      <4>1. photo[p] # None /\ DOMAIN photo'[p] = DOMAIN photo[p]
        BY <2>1, <3>1 DEF PhotoRows
      <4> QED BY <1>0, <4>1, RowStaysRow
    <3> QED BY <2>1, <3>1
  <2> QED BY <1>1, <1>4, <2>1, RowsStayListed DEF WriteImageScores
<1>5. CASE FolderDeleted
  <2>1. Delete(PhotoRows) /\ folder' = "gone" /\ folder # "gone"
    BY <1>5 DEF FolderDeleted
  <2>2. \A p \in Photos : faces'[p] \in {faces[p], 0} /\ (photo[p] # None => faces'[p] = 0)
    BY <2>1 DEF Delete, PhotoRows
  <2>3. faces' \in [Photos -> Nat]
    BY <2>1 DEF Delete, FaceInv
  <2> QED BY <2>1, <2>2, <2>3 DEF FacesDrop, PhotosListed
<1>6. CASE ToggleImageFavourite
  <2>1. PICK p \in PhotoRows : photo' = [photo EXCEPT ![p].favourite = ~@]
    BY <1>6 DEF ToggleImageFavourite
  <2>2. p \in Photos /\ photo[p] # None
    BY <2>1 DEF PhotoRows
  <2>3. DOMAIN photo'[p] = DOMAIN photo[p] /\ \A q \in Photos : q # p => photo'[q] = photo[q]
    BY <1>0, <2>1, <2>2
  <2>4. photo'[p] # None
    BY <1>0, <2>2, <2>3, RowStaysRow
  <2>5. \A q \in Photos : photo'[q] = None <=> photo[q] = None
    BY <2>2, <2>3, <2>4
  <2> QED BY <1>6, <2>5, RowsStayListed DEF ToggleImageFavourite
<1>7. CASE FolderSequence \/ ModelsInstalled \/ Crash \/ UNCHANGED vars
  BY <1>1, <1>7 DEF FolderSequence, ModelsInstalled, Crash, vars, mediaVars, photoVars
<1>8. CASE (FileChanges \/ FolderToggles) /\ UNCHANGED photoVars
  BY <1>1, <1>8 DEF FileChanges, FolderToggles, photoVars
<1>9. CASE (ToggleVideoFavourite \/ IntervalChanges \/ PurgeFiles \/ ClearFramePaths) /\ UNCHANGED photoVars
  BY <1>1, <1>9 DEF ToggleVideoFavourite, IntervalChanges, PurgeFiles, ClearFramePaths, photoVars
<1> QED BY <1>2, <1>3, <1>4, <1>5, <1>6, <1>7, <1>8, <1>9, PhotoStepsAndFaces DEF Next, Worker, Requests

(* The steps of tagging that go on with the pass, and what all others do   *)
(* to the worker's place in it.                                            *)
TagsPhotos == GetUntaggedImages \/ Classify \/ DetectFaces \/ InsertFace \/ UpdateImageTagged

TagPlaceKept ==
    \/ UNCHANGED <<plan, task>>
    \/ /\ ~Running("tagPhotos")'
       /\ \/ ~Running("tagPhotos")
          \/ task.pc \notin {"face", "flag"}
          \/ count' = [count EXCEPT !.crashes = @ + 1]

LEMMA OthersKeepTheTagPlace == ASSUME MediaInv, [Next]_vars PROVE TagsPhotos \/ TagPlaceKept
<1>1. EndPass => ~Running("tagPhotos")'
  BY DEF EndPass, Running, Idle
<1>2. plan # <<>> /\ Head(plan) # "tagPhotos" /\ (UNCHANGED plan \/ EndPass) => TagPlaceKept
  BY <1>1 DEF TagPlaceKept, Running
<1>3. \A rest, pc : NextOf(rest, pc) => EndPass \/ UNCHANGED plan
  BY DEF NextOf, Goes
<1>4. CASE PhotoStep(installed) /\ ~TagsPhotos /\ ~ClassifyFails
  BY <1>2, <1>3, <1>4
     DEF PhotoStep, TagsPhotos, PrepareImages, RemoveObsoleteImages, DeleteImages, BulkInsertImages,
         GetUnembeddedImages, EmbedImages, MarkImagesEmbedded, Starts, At, Goto, Goes
<1>5. CASE ClassifyFails
  BY <1>1, <1>5 DEF ClassifyFails, At, TagPlaceKept
<1>6. CASE VideoStep(installed)
  BY <1>2, <1>3, <1>6
     DEF VideoStep, PrepareVideos, RemoveObsoleteVideos, RemoveObsoleteFiles, BulkInsertVideos, RemovePosters,
         GetUntaggedVideos, ExtractFrames, DeleteFrames, InsertFrames, WriteVideoClasses,
         MarkVideoTagged, GetUnembeddedFrames, EmbedFrames, MarkFramesEmbedded, Starts, At, Goto, Goes
<1>7. CASE LabelStep
  BY <1>2, <1>3, <1>7
     DEF LabelStep, BuildLabelEmbeddings, LoadContext, ReadUnscoredImages, WriteImageScores,
         ReadUnscoredVideos, ScoreFrames, WriteVideoScores, Starts, At, Goto, Goes
<1>8. CASE Requests
  <2>1. UNCHANGED <<plan, task>> => TagPlaceKept
    BY DEF TagPlaceKept
  <2>2. plan = <<>> /\ UNCHANGED task => TagPlaceKept
    BY DEF TagPlaceKept, Running, MediaInv, TaskOK
  <2> QED BY <1>8, <2>1, <2>2
          DEF Requests, FolderSequence, ModelsInstalled, FolderDeleted, FileChanges, FolderToggles, Submit,
              ToggleImageFavourite, ToggleVideoFavourite, IntervalChanges, PurgeFiles, ClearFramePaths
<1>9. CASE Crash
  BY <1>9 DEF Crash, TagPlaceKept, Running, Idle
<1>10. CASE UNCHANGED vars
  BY <1>10 DEF vars, mediaVars, TagPlaceKept
<1> QED BY <1>4, <1>5, <1>6, <1>7, <1>8, <1>9, <1>10 DEF Next, Worker

(* Rows that are there after a step and untagged were so before, if they   *)
(* were there.                                                             *)
LEMMA TagsOnlyGrow ==
    ASSUME RowsAdvance, NEW p \in Photos, photo'[p] # None, ~photo'[p].tagged, photo[p] # None
    PROVE  ~photo[p].tagged
<1>1. photo'[p] = photo[p] \/ Advances(ListedPhoto(photo[p]), ListedPhoto(photo'[p]))
  BY DEF RowsAdvance, PhotoAdvances
<1>2. ASSUME NEW a, NEW b, IsListing(a), IsListing(b), Advances(a, b), ~b.tagged PROVE ~a.tagged
  <2>1. DOMAIN a = {"tagged", "searchable", "favourite", "objects", "tags"}
    BY <1>2 DEF IsListing
  <2> QED BY <1>2, <2>1 DEF Advances
<1> QED BY <1>1, <1>2, PhotoListing

LEMMA FitsStay ==
    ASSUME FaceInv, RowsAdvance, Counted, FacesDrop, PhotosListed,
           \A p \in Photos : Running("tagPhotos")' /\ p \in task'.todo =>
               \/ Running("tagPhotos") /\ p \in task.todo
               \/ photo[p] # None /\ ~photo[p].tagged,
           \A p \in Photos : Storing(p) => Storing(p)' \/ ~Owed(p)' \/ Troubles' = Troubles + 1
    PROVE  FacesFit'
<1> SUFFICES ASSUME NEW p \in Photos
             PROVE  /\ faces'[p] <= Allowed(Troubles' + 1)
                    /\ Owed(p)' => faces'[p] <= Allowed(Troubles)'
  <2>1. Allowed(Troubles + 1)' = Allowed(Troubles' + 1)
    BY DEF Allowed, MostFaces
  <2> QED BY <2>1 DEF FacesFit
<1>1. /\ Allowed(Troubles) \in Nat /\ Allowed(Troubles + 1) = Allowed(Troubles) + MostFaces
      /\ Allowed(Troubles)' \in Nat /\ Allowed(Troubles' + 1) = Allowed(Troubles)' + MostFaces
      /\ Allowed(Troubles)' \in {Allowed(Troubles), Allowed(Troubles + 1)}
      /\ Troubles' = Troubles + 1 => Allowed(Troubles)' = Allowed(Troubles + 1)
      /\ MostFaces \in Nat
  BY MoreIsAllowed, MostFacesBounds
<1>2. faces[p] \in Nat /\ faces[p] <= Allowed(Troubles + 1) /\ (Owed(p) => faces[p] <= Allowed(Troubles))
  BY DEF FaceInv, FacesFit
<1>3. faces'[p] \in {faces[p], 0}
  BY DEF FacesDrop
<1>4. Owed(p)' => Owed(p) \/ faces'[p] = 0 \/ Troubles' = Troubles + 1
  <2> SUFFICES ASSUME Owed(p)', faces'[p] # 0, Troubles' # Troubles + 1 PROVE Owed(p)
    OBVIOUS
  <2>1. ~Storing(p)
    BY DEF Owed
  <2>2. CASE photo'[p] # None /\ ~photo'[p].tagged
    <3>1. CASE photo[p] # None
      BY <2>1, <2>2, <3>1, TagsOnlyGrow DEF Owed
    <3>2. CASE photo[p] = None
      BY <2>1, <2>2, <3>2 DEF Owed, PhotosListed
    <3> QED BY <3>1, <3>2
  <2>3. CASE photo'[p] = None /\ folder' # "gone"
    BY <2>1, <2>3 DEF Owed, PhotosListed
  <2>4. CASE Running("tagPhotos")' /\ p \in task'.todo
    BY <2>1, <2>4 DEF Owed
  <2> QED BY <2>2, <2>3, <2>4 DEF Owed
<1> HIDE DEF Allowed, Troubles, MostFaces, Owed
<1>5. faces'[p] <= Allowed(Troubles' + 1)
  BY <1>1, <1>2, <1>3
<1>6. Owed(p)' => faces'[p] <= Allowed(Troubles)'
  BY <1>1, <1>2, <1>3, <1>4
<1> QED BY <1>5, <1>6

(* The steps of others.                                                    *)
LEMMA OthersKeepFaces ==
    ASSUME MediaInv, FaceInv, RowsAdvance, Counted, FacesDrop, PhotosListed, TagPlaceKept PROVE FaceInv'
<1>1. FacesFit'
  <2>1. \A p \in Photos : Running("tagPhotos")' /\ p \in task'.todo => Running("tagPhotos") /\ p \in task.todo
    BY DEF TagPlaceKept, Running
  <2>2. ASSUME NEW p \in Photos, Storing(p) PROVE Storing(p)' \/ Troubles' = Troubles + 1
    BY <2>2, TroublesGrow DEF TagPlaceKept, Storing, Running
  <2> QED BY <2>1, <2>2, FitsStay
<1>2. TaggingPlace'
  <2> SUFFICES ASSUME Running("tagPhotos")'
               PROVE  /\ folder' # "gone" => task'.todo \subseteq PhotoRows'
                      /\ task'.pc \in {"detect", "face", "flag"} => task'.cur \in task'.todo
                      /\ task'.pc = "face" => /\ task'.got \in Nat \ {0}
                                              /\ faces'[task'.cur] + task'.got <= Allowed(Troubles' + 1)
    <3>1. Allowed(Troubles + 1)' = Allowed(Troubles' + 1)
      BY DEF Allowed, MostFaces
    <3> QED BY <3>1 DEF TaggingPlace
  <2>1. UNCHANGED <<plan, task>> /\ Running("tagPhotos")
    BY DEF TagPlaceKept, Running
  <2>2. folder' # "gone" => task'.todo \subseteq PhotoRows'
    BY <2>1 DEF FaceInv, TaggingPlace, PhotosListed, PhotoRows
  <2>3. task.pc = "face" => faces[task.cur] + task.got <= Allowed(Troubles' + 1)
    <3> SUFFICES ASSUME task.pc = "face" PROVE faces[task.cur] + task.got <= Allowed(Troubles' + 1)
      OBVIOUS
    <3>1. task.cur \in task.todo /\ task.got \in Nat /\ faces[task.cur] + task.got <= Allowed(Troubles + 1)
      BY <2>1 DEF FaceInv, TaggingPlace
    <3>2. task.cur \in Photos
      BY <2>1, <3>1 DEF MediaInv, TaskOK, TaggingPhotos
    <3>3. faces[task.cur] \in Nat
      BY <3>2 DEF FaceInv
    <3>4. Allowed(Troubles + 1) <= Allowed(Troubles' + 1) /\ Allowed(Troubles + 1) \in Nat /\ Allowed(Troubles' + 1) \in Nat
      <4>1. /\ Allowed(Troubles) \in Nat /\ Allowed(Troubles + 1) = Allowed(Troubles) + MostFaces
            /\ Allowed(Troubles)' \in Nat /\ Allowed(Troubles' + 1) = Allowed(Troubles)' + MostFaces
            /\ Allowed(Troubles)' \in {Allowed(Troubles), Allowed(Troubles + 1)} /\ MostFaces \in Nat
        BY MoreIsAllowed, MostFacesBounds
      <4> QED BY ONLY <4>1
    <3> QED BY ONLY <3>1, <3>3, <3>4
  <2>4. task.pc = "face" => faces'[task.cur] \in {faces[task.cur], 0} /\ faces[task.cur] \in Nat
    BY <2>1 DEF FaceInv, TaggingPlace, MediaInv, TaskOK, TaggingPhotos, FacesDrop
  <2>5. /\ task.pc \in {"detect", "face", "flag"} => task.cur \in task.todo
        /\ task.pc = "face" => task.got \in Nat \ {0}
    BY <2>1 DEF FaceInv, TaggingPlace
  <2>6. Allowed(Troubles' + 1) \in Nat
    BY MoreIsAllowed, MostFacesBounds
  <2>7. task.pc = "face" => faces'[task.cur] + task.got <= Allowed(Troubles' + 1)
    BY <2>3, <2>4, <2>5, <2>6
  <2> QED BY <2>1, <2>2, <2>5, <2>7
<1>3. {"faults", "crashes"} \subseteq DOMAIN count' /\ count'.faults \in Nat /\ count'.crashes \in Nat
  BY TroublesGrow
<1> QED BY <1>1, <1>2, <1>3 DEF FaceInv, FacesDrop

(* The same when the worker's place changes, but no face is stored.        *)
LEMMA PlaceAndFits ==
    ASSUME FaceInv, Counted, FacesDrop, FacesFit', TaggingPlace' PROVE FaceInv'
BY TroublesGrow DEF FaceInv, FacesDrop

LEMMA PassOver == ASSUME EndPass PROVE ~Running("tagPhotos")'
BY DEF EndPass, Running, Idle

LEMMA NoPlace == ASSUME ~Running("tagPhotos")' PROVE TaggingPlace'
BY DEF TaggingPlace

(* Reading the untagged photos, and going on after one of them.            *)
LEMMA NextPhotos ==
    ASSUME NEW rest, NextOf(rest, "classify"), folder' # "gone" => rest \subseteq PhotoRows' PROVE TaggingPlace'
<1>1. CASE EndPass
  BY <1>1, PassOver, NoPlace
<1>2. CASE Goes([Idle EXCEPT !.pc = "classify", !.todo = rest, !.ctx = task.ctx])
  BY <1>2 DEF Goes, Idle, TaggingPlace
<1> QED BY <1>1, <1>2 DEF NextOf

LEMMA TaggingKeepsFaces ==
    ASSUME NullHasNoColumns, MediaInv, FaceInv, RowsAdvance, Counted, FacesDrop, PhotosListed,
           GetUntaggedImages \/ Classify \/ DetectFaces \/ UpdateImageTagged
    PROVE  FaceInv'
<1>0. TaskColumns \subseteq DOMAIN task /\ DOMAIN photo = Photos
  BY DEF MediaInv, TaskOK, RowsOK
<1>1. CASE GetUntaggedImages
  <2> DEFINE rest == {p \in PhotoRows : folder = "ai" /\ ~photo[p].tagged}
  <2>1. NextOf(rest, "classify") /\ UNCHANGED <<photo, folder>>
    BY <1>1 DEF GetUntaggedImages, photoVars
  <2>2. ~Running("tagPhotos")
    BY <1>1 DEF GetUntaggedImages, Starts, At, Running
  <2>3. rest \subseteq PhotoRows' /\ \A p \in rest : photo[p] # None /\ ~photo[p].tagged
    BY <2>1 DEF PhotoRows
  <2> HIDE DEF rest
  <2>4. TaggingPlace'
    BY <2>1, <2>3, NextPhotos
  <2>5. Running("tagPhotos")' => task'.todo = rest
    BY <2>1, PassOver DEF NextOf, Goes, Idle
  <2>6. FacesFit'
    BY <2>2, <2>3, <2>5, FitsStay DEF Storing
  <2> QED BY <2>4, <2>6, PlaceAndFits
<1>2. CASE Classify
  <2>1. Running("tagPhotos") /\ task.pc = "classify" /\ UNCHANGED <<plan, folder>>
    BY <1>2 DEF Classify, At, Running, Goes
  <2>2. task'.todo = task.todo /\ task'.cur \in task.todo /\ task'.pc \in {"detect", "flag"}
    BY <1>0, <1>2 DEF Classify, Goes, TaskColumns
  <2>3. FacesFit'
    BY <2>1, <2>2, FitsStay DEF Storing
  <2>4. folder' # "gone" => task'.todo \subseteq PhotoRows'
    BY <2>1, <2>2 DEF FaceInv, TaggingPlace, PhotosListed, PhotoRows, Running
  <2>5. TaggingPlace'
    BY <2>2, <2>4 DEF TaggingPlace
  <2> QED BY <2>3, <2>5, PlaceAndFits
<1>3. CASE DetectFaces
  <2>1. Running("tagPhotos") /\ task.pc = "detect" /\ UNCHANGED <<plan, folder, photo, faces, count>>
    BY <1>3 DEF DetectFaces, At, Running, Goto, Goes, photoVars
  <2>2. /\ task'.todo = task.todo /\ task'.cur = task.cur
        /\ \/ task'.pc = "flag"
           \/ task'.pc = "face" /\ \E c \in Contents : task'.got = FacesIn[c] /\ FacesIn[c] > 0
    BY <1>0, <1>3 DEF DetectFaces, Goes, Goto, TaskColumns, CvReads
  <2>3. task.cur \in task.todo /\ task.cur \in Photos
    BY <2>1 DEF FaceInv, TaggingPlace, MediaInv, TaskOK, TaggingPhotos
  <2>4. FacesFit'
    BY <2>1, <2>2, FitsStay DEF Storing
  <2>5. Owed(task.cur)
    BY <2>1, <2>3 DEF Owed, Storing
  <2>6. faces[task.cur] \in Nat /\ faces[task.cur] <= Allowed(Troubles)
    BY <2>3, <2>5 DEF FaceInv, FacesFit
  <2>7. /\ Allowed(Troubles) \in Nat /\ Allowed(Troubles + 1) = Allowed(Troubles) + MostFaces
        /\ MostFaces \in Nat
    BY MoreIsAllowed, MostFacesBounds
  <2>8. ASSUME task'.pc = "face"
        PROVE  task'.got \in Nat \ {0} /\ faces[task.cur] + task'.got <= Allowed(Troubles + 1)
    <3>1. task'.got \in Nat /\ task'.got > 0 /\ task'.got <= MostFaces
      BY <2>2, <2>8, MostFacesBounds
    <3> QED BY ONLY <3>1, <2>6, <2>7
  <2>9. Allowed(Troubles + 1)' = Allowed(Troubles + 1)
    BY <2>1 DEF Allowed, Troubles, MostFaces
  <2>10. folder' # "gone" => task'.todo \subseteq PhotoRows'
    BY <2>1, <2>2 DEF FaceInv, TaggingPlace, PhotoRows
  <2>11. TaggingPlace'
    BY <2>1, <2>2, <2>3, <2>8, <2>9, <2>10 DEF TaggingPlace
  <2> QED BY <2>4, <2>11, PlaceAndFits
<1>4. CASE UpdateImageTagged
  <2>1. /\ Running("tagPhotos") /\ task.pc = "flag" /\ UNCHANGED <<folder, faces>>
        /\ NextOf(task.todo \ {task.cur}, "classify")
    BY <1>4 DEF UpdateImageTagged, At, Running
  <2>2. task.cur \in task.todo /\ task.cur \in Photos /\ task.todo \subseteq Photos
    BY <2>1 DEF FaceInv, TaggingPlace, MediaInv, TaskOK, TaggingPhotos
  <2>3. Running("tagPhotos")' => task'.todo = task.todo \ {task.cur}
    BY <2>1, PassOver DEF NextOf, Goes, Idle
  <2>4. PICK q \in Photos : q = task.cur
    BY <2>2
  <2>5. \/ Fails
        \/ photo' = [photo EXCEPT ![q] = Flagged(photo[q])]
    BY <1>4, <2>4 DEF UpdateImageTagged
  <2>6. ASSUME photo' = [photo EXCEPT ![q] = Flagged(photo[q])] PROVE ~Owed(q)'
    <3>1. photo'[q] = Flagged(photo[q])
      BY <1>0, <2>6
    <3>2. CASE photo[q] = None
      <4>1. photo'[q] = None /\ folder' = "gone"
        BY <2>1, <2>2, <2>4, <3>1, <3>2 DEF Flagged, FaceInv, TaggingPlace, PhotoRows
      <4> QED BY <2>3, <2>4, <4>1 DEF Owed
    <3>3. CASE photo[q] # None
      <4>1. IsPhotoRow(photo[q])
        BY <3>3 DEF MediaInv, RowsOK, PhotoRows
      <4>2. photo'[q] = [photo[q] EXCEPT !.tagged = TRUE]
        BY <3>1, <3>3 DEF Flagged
      <4>3. photo'[q].tagged /\ DOMAIN photo'[q] = DOMAIN photo[q]
        BY <4>1, <4>2 DEF IsPhotoRow, PhotoColumns
      <4>4. photo'[q] # None
        BY <4>1, <4>3, RowStaysRow
      <4> QED BY <2>3, <2>4, <4>3, <4>4 DEF Owed
    <3> QED BY <3>2, <3>3
  <2>7. ASSUME NEW p \in Photos, Storing(p) PROVE ~Owed(p)' \/ Troubles' = Troubles + 1
    <3>1. p = q
      BY <2>4, <2>7 DEF Storing
    <3> QED BY <2>5, <2>6, <3>1, TroublesGrow
  <2>8. FacesFit'
    BY <2>1, <2>3, <2>7, FitsStay
  <2>9. TaggingPlace'
    <3>1. CASE Running("tagPhotos")'
      <4>1. folder' # "gone" => task.todo \ {task.cur} \subseteq PhotoRows'
        BY <2>1, <3>1 DEF FaceInv, TaggingPlace, PhotosListed, PhotoRows
      <4> QED BY <2>1, <4>1, NextPhotos
    <3>2. CASE ~Running("tagPhotos")'
      BY <3>2, NoPlace
    <3> QED BY <3>1, <3>2
  <2> QED BY <2>8, <2>9, PlaceAndFits
<1> QED BY <1>1, <1>2, <1>3, <1>4

(* One face stored is one less that is left to store; a statement that     *)
(* fails ends the pass, and pays for the next.                             *)
LEMMA StoringKeepsFaces ==
    ASSUME NullHasNoColumns, MediaInv, FaceInv, RowsAdvance, Counted, InsertFace PROVE FaceInv'
<1>0. TaskColumns \subseteq DOMAIN task /\ DOMAIN photo = Photos
  BY DEF MediaInv, TaskOK, RowsOK
<1>1. Running("tagPhotos") /\ task.pc = "face" /\ UNCHANGED <<folder, photo>>
  BY DEF InsertFace, At, Running
<1>2. task.cur \in task.todo /\ task.todo \subseteq Photos /\ task.got \in Nat \ {0}
  BY <1>1 DEF FaceInv, TaggingPlace, MediaInv, TaskOK, TaggingPhotos
<1>3. PICK q \in Photos : q = task.cur
  BY <1>2
<1>4. CASE Fails /\ EndPass /\ UNCHANGED faces
  <2>1. FacesDrop /\ PhotosListed
    BY <1>1, <1>4, RowsStayListed
  <2>2. ~Running("tagPhotos")' /\ Troubles' = Troubles + 1
    BY <1>4, PassOver, TroublesGrow
  <2>3. FacesFit'
    BY <2>1, <2>2, FitsStay
  <2> QED BY <2>1, <2>2, <2>3, NoPlace, PlaceAndFits
<1>5. CASE /\ Works
           /\ faces' = [faces EXCEPT ![task.cur] = @ + 1]
           /\ Goes([task EXCEPT !.got = @ - 1, !.pc = IF task.got = 1 THEN "flag" ELSE "face"])
  <2>1. /\ UNCHANGED <<plan, count>> /\ task'.todo = task.todo /\ task'.cur = q /\ task'.got = task.got - 1
        /\ task'.pc = IF task.got = 1 THEN "flag" ELSE "face"
    BY <1>0, <1>3, <1>5 DEF Goes, Works, TaskColumns
  <2>2. faces' \in [Photos -> Nat] /\ faces'[q] = faces[q] + 1 /\ \A p \in Photos : p # q => faces'[p] = faces[p]
    BY <1>3, <1>5 DEF FaceInv
  <2>3. faces[q] \in Nat /\ faces[q] + task.got <= Allowed(Troubles + 1) /\ Allowed(Troubles + 1) \in Nat
    <3>1. Allowed(Troubles) \in Nat /\ Allowed(Troubles + 1) = Allowed(Troubles) + MostFaces /\ MostFaces \in Nat
      BY MoreIsAllowed, MostFacesBounds
    <3>2. Allowed(Troubles + 1) \in Nat
      BY ONLY <3>1
    <3> QED BY <1>1, <1>3, <3>2 DEF FaceInv, TaggingPlace
  <2>4. faces'[q] <= Allowed(Troubles + 1) /\ faces'[q] + task'.got <= Allowed(Troubles + 1)
    BY ONLY <1>2, <2>1, <2>2, <2>3
  <2>5. Allowed(Troubles + 1)' = Allowed(Troubles + 1) /\ Allowed(Troubles)' = Allowed(Troubles)
    BY <2>1 DEF Allowed, Troubles, MostFaces
  <2>6. \A p \in Photos : Storing(p)' <=> p = q
    BY <1>1, <2>1 DEF Storing, Running
  <2>7. \A p \in Photos : p # q => (Owed(p)' <=> Owed(p))
    BY <1>1, <1>3, <2>1, <2>6 DEF Owed, Storing, Running
  <2>8. ~Owed(q)'
    BY <2>6 DEF Owed
  <2>9. FacesFit'
    BY <2>2, <2>4, <2>5, <2>7, <2>8 DEF FaceInv, FacesFit
  <2>10. folder' # "gone" => task'.todo \subseteq PhotoRows'
    BY <1>1, <2>1 DEF FaceInv, TaggingPlace, PhotoRows
  <2>11. task'.pc = "face" => task'.got \in Nat \ {0}
    BY <1>2, <2>1
  <2>12. TaggingPlace'
    BY <1>2, <1>3, <2>1, <2>4, <2>5, <2>10, <2>11 DEF TaggingPlace
  <2> QED BY <2>1, <2>2, <2>9, <2>12 DEF FaceInv
<1> QED BY <1>4, <1>5 DEF InsertFace

LEMMA FacesStart == ASSUME Init PROVE FaceInv
<1>1. count = [events |-> 0, faults |-> 0, crashes |-> 0] /\ faces = [p \in Photos |-> 0] /\ plan = <<>>
  BY DEF Init, MediaInit, PhotoInit
<1>2. Troubles = 0
  BY <1>1 DEF Troubles
<1>3. Allowed(0) \in Nat /\ Allowed(0 + 1) = Allowed(0) + MostFaces /\ MostFaces \in Nat
  BY AllowedGrows, MostFacesBounds
<1>4. FacesFit
  BY <1>1, <1>2, <1>3 DEF FacesFit
<1> QED BY <1>1, <1>4 DEF FaceInv, TaggingPlace, Running

LEMMA FaceSteps ==
    ASSUME NullHasNoColumns, MediaInv, FaceInv, [Next]_vars PROVE FaceInv'
<1>1. RowsAdvance /\ Counted
  BY MediaSteps, StepsAreCounted
<1>2. CASE InsertFace
  BY <1>1, <1>2, StoringKeepsFaces
<1>3. CASE ~InsertFace
  <2>1. FacesDrop /\ PhotosListed
    BY <1>3, StepsAndFaces
  <2>2. (GetUntaggedImages \/ Classify \/ DetectFaces \/ UpdateImageTagged) \/ TagPlaceKept
    BY <1>3, OthersKeepTheTagPlace DEF TagsPhotos
  <2> QED BY <1>1, <2>1, <2>2, OthersKeepFaces, TaggingKeepsFaces
<1> QED BY <1>2, <1>3

(* However often passes over untagged photos are run, interrupted and run  *)
(* again, a photo has no more rows of faces than passes that a failed      *)
(* statement or a crash ended, and one more, can have stored               *)
(* (image_util_process_untagged_images, face_detector.detect_faces).       *)
THEOREM FacesRepeatForFaultsOnly ==
    ASSUME NullHasNoColumns PROVE Spec => []FacesRepeatOnlyAfterAFault
<1>1. Init => MediaInv /\ FaceInv
  BY MediaStarts, FacesStart
<1>2. MediaInv /\ FaceInv /\ [Next]_vars => MediaInv' /\ FaceInv'
  BY MediaSteps, FaceSteps
<1>3. FaceInv => FacesRepeatOnlyAfterAFault
  <2> SUFFICES ASSUME FaceInv, NEW p \in Photos
               PROVE  faces[p] <= (1 + count.faults + count.crashes) * Max({FacesIn[c] : c \in Contents})
    BY DEF FacesRepeatOnlyAfterAFault
  <2>1. count.faults \in Nat /\ count.crashes \in Nat /\ faces[p] <= Allowed(Troubles + 1)
    BY DEF FaceInv, FacesFit
  <2>2. Troubles + 1 = 1 + count.faults + count.crashes
    BY <2>1 DEF Troubles
  <2>3. Allowed(Troubles + 1) = (1 + count.faults + count.crashes) * Max({FacesIn[c] : c \in Contents})
    BY <2>2 DEF Allowed, MostFaces
  <2> QED BY <2>1, <2>3
<1> QED BY <1>1, <1>2, <1>3, PTL DEF Spec

---------------------------------------------------------------------------
(* The tags of a video follow its vectors.                                 *)

(* The positions of a row's vectors, and what these show.                  *)
VectorsOf(row) == {k \in DOMAIN row.frames : row.frames[k].vector # None}
ShownOf(row) == [k \in VectorsOf(row) |-> <<row.frames[k].vector, row.frames[k].idx>>]

(* If a row's vectors all have the stamp of one fingerprint, current or    *)
(* not, its tags are what they earned it under that one.                   *)
LabelsFit(row) ==
    \A k \in VectorsOf(row) :
        LET sig == row.frames[k].stamp
        IN  sig # None /\ (\A j \in VectorsOf(row) : row.frames[j].stamp = sig) =>
                row.tags = VideoTags(ShownOf(row), sig)

(* Tags that wait to be written are those of the vectors still there.      *)
LabelInv ==
    /\ \A v \in VideoRows : LabelsFit(video[v])
    /\ Running("scoreVideos") /\ task.pc = "write" /\ task.cur \in VideoRows =>
          task.got = VideoTags(ShownOf(video[task.cur]), task.ctx)

(* Rows with the same vectors, stamps and tags.                            *)
SameVectors(a, b) ==
    /\ VectorsOf(b) = VectorsOf(a)
    /\ \A k \in VectorsOf(a) : /\ b.frames[k].vector = a.frames[k].vector
                               /\ b.frames[k].idx = a.frames[k].idx
                               /\ b.frames[k].stamp = a.frames[k].stamp

LEMMA SameVectorsSameLabels ==
    ASSUME NEW a, NEW b, SameVectors(a, b)
    PROVE  ShownOf(b) = ShownOf(a) /\ (b.tags = a.tags /\ LabelsFit(a) => LabelsFit(b))
<1>1. ShownOf(b) = ShownOf(a)
  BY DEF SameVectors, ShownOf
<1> QED BY <1>1 DEF SameVectors, LabelsFit

(* What steps other than those on frames do to the rows of videos.         *)
SameFrames(a, b) ==
    /\ DOMAIN b.frames = DOMAIN a.frames
    /\ \A k \in DOMAIN a.frames : \A c \in {"idx", "embedded", "vector", "stamp"} :
          b.frames[k][c] = a.frames[k][c]

VideosQuiet ==
    \A v \in Videos :
        \/ video'[v] = None
        \/ DOMAIN video'[v].frames = {}
        \/ video[v] # None /\ SameFrames(video[v], video'[v]) /\ video'[v].tags = video[v].tags

FramesTouched == InsertFrames \/ EmbedFrames \/ MarkFramesEmbedded \/ WriteVideoScores

LEMMA OthersLeaveFrames == ASSUME MediaInv, [Next]_vars PROVE FramesTouched \/ VideosQuiet
<1>1. ASSUME UNCHANGED video PROVE VideosQuiet
  BY <1>1 DEF VideosQuiet, SameFrames
<1>2. ASSUME NEW v \in Videos, video[v] # None PROVE IsVideoRow(video[v])
  BY <1>2 DEF MediaInv, RowsOK, VideoRows
<1>3. ASSUME NEW v \in Videos, NEW new, video' = [video EXCEPT ![v] = new], video[v] # None,
             DOMAIN new.frames = {} \/ (new.frames = video[v].frames /\ new.tags = video[v].tags)
      PROVE  VideosQuiet
  <2>1. video'[v] = new /\ \A w \in Videos : w # v => video'[w] = video[w]
    BY <1>3 DEF MediaInv, RowsOK
  <2> QED BY <1>3, <2>1 DEF VideosQuiet, SameFrames
<1>5. CASE RemoveObsoleteVideos
  BY <1>5 DEF RemoveObsoleteVideos, VideosQuiet, SameFrames
<1>6. CASE BulkInsertVideos
  <2>1. CASE video' = [v \in Videos |-> IF v \in DOMAIN task.recs
                                           THEN UpsertedVideo(video[v], task.recs[v]) ELSE video[v]]
    <3>1. ASSUME NEW v \in Videos, video[v] = None
          PROVE  DOMAIN UpsertedVideo(video[v], task.recs[v]).frames = {}
      BY <3>1 DEF UpsertedVideo, NewVideo
    <3>2. ASSUME NEW v \in Videos, video[v] # None
          PROVE  /\ UpsertedVideo(video[v], task.recs[v]).frames = video[v].frames
                 /\ UpsertedVideo(video[v], task.recs[v]).tags = video[v].tags
      BY <1>2, <3>2 DEF UpsertedVideo, IsVideoRow, VideoColumns
    <3> QED BY <2>1, <3>1, <3>2 DEF VideosQuiet, SameFrames
  <2> QED BY <1>1, <1>6, <2>1 DEF BulkInsertVideos
<1>7. CASE DeleteFrames
  <2>1. CASE task.cur \in VideoRows /\ video' = [video EXCEPT ![task.cur] = WithoutFrames(video[task.cur])]
    <3> DEFINE new == WithoutFrames(video[task.cur])
    <3>1. task.cur \in Videos /\ video[task.cur] # None /\ video' = [video EXCEPT ![task.cur] = new]
      BY <2>1 DEF VideoRows
    <3>2. DOMAIN new.frames = {}
      BY <1>2, <3>1 DEF WithoutFrames, IsVideoRow, VideoColumns
    <3> HIDE DEF new
    <3>3. video'[task.cur] = new /\ \A w \in Videos : w # task.cur => video'[w] = video[w]
      BY <3>1 DEF MediaInv, RowsOK
    <3> QED BY <3>1, <3>2, <3>3 DEF VideosQuiet, SameFrames
  <2> QED BY <1>1, <1>7, <2>1 DEF DeleteFrames, SetCurrent
<1>8. CASE WriteVideoClasses
  <2>1. ASSUME NEW x, task.cur \in VideoRows, video' = [video EXCEPT ![task.cur] = [@ EXCEPT !.objects = x]]
        PROVE  VideosQuiet
    <3>1. /\ [video[task.cur] EXCEPT !.objects = x].frames = video[task.cur].frames
          /\ [video[task.cur] EXCEPT !.objects = x].tags = video[task.cur].tags
      BY <1>2, <2>1 DEF VideoRows, IsVideoRow, VideoColumns
    <3> QED BY <1>3, <2>1, <3>1 DEF VideoRows
  <2> QED BY <1>1, <1>8, <2>1 DEF WriteVideoClasses, SetCurrent
<1>9. CASE MarkVideoTagged
  <2>1. CASE task.cur \in VideoRows /\ video' = [video EXCEPT ![task.cur] = FlaggedVideo(video[task.cur])]
    <3>1. /\ FlaggedVideo(video[task.cur]).frames = video[task.cur].frames
          /\ FlaggedVideo(video[task.cur]).tags = video[task.cur].tags
      BY <1>2, <2>1 DEF FlaggedVideo, VideoRows, IsVideoRow, VideoColumns
    <3> QED BY <1>3, <2>1, <3>1 DEF VideoRows
  <2> QED BY <1>1, <1>9, <2>1 DEF MarkVideoTagged, SetCurrent
<1>10. CASE PrepareVideos \/ RemoveObsoleteFiles \/ RemovePosters \/ GetUntaggedVideos \/ ExtractFrames
            \/ GetUnembeddedFrames(installed)
  BY <1>1, <1>10 DEF PrepareVideos, RemoveObsoleteFiles, RemovePosters, GetUntaggedVideos, ExtractFrames,
                     GetUnembeddedFrames, videoVars
<1>11. CASE LabelStep /\ ~WriteVideoScores
  BY <1>1, <1>11 DEF LabelStep, BuildLabelEmbeddings, LoadContext, ReadUnscoredImages, WriteImageScores,
                     ReadUnscoredVideos, ScoreFrames, videoVars
<1>12. CASE FolderDeleted
  BY <1>12 DEF FolderDeleted, VideosQuiet
<1>13. CASE ToggleVideoFavourite
  <2>1. PICK v \in VideoRows : video' = [video EXCEPT ![v].favourite = ~@]
    BY <1>13 DEF ToggleVideoFavourite
  <2> DEFINE new == [video[v] EXCEPT !.favourite = ~@]
  <2>2. v \in Videos /\ video[v] # None /\ video' = [video EXCEPT ![v] = new]
    BY <2>1 DEF VideoRows
  <2>3. new.frames = video[v].frames /\ new.tags = video[v].tags
    BY <1>2, <2>2 DEF IsVideoRow, VideoColumns
  <2> HIDE DEF new
  <2> QED BY <1>3, <2>2, <2>3
<1>14. CASE ClearFramePaths
  <2>1. CASE video' = [v \in Videos |-> IF v \notin VideoRows THEN None
                          ELSE [video[v] EXCEPT !.frames = [k \in DOMAIN @ |-> ClearedFrame(@[k])]]]
    <3> SUFFICES ASSUME NEW v \in Videos, video'[v] # None
                 PROVE  /\ video[v] # None
                        /\ SameFrames(video[v], video'[v]) /\ video'[v].tags = video[v].tags
      BY DEF VideosQuiet
    <3>1. video[v] # None
      BY <2>1 DEF VideoRows
    <3>2. IsVideoRow(video[v]) /\ v \in VideoRows
      BY <1>2, <3>1 DEF VideoRows
    <3> DEFINE x == [k \in DOMAIN video[v].frames |-> ClearedFrame(video[v].frames[k])]
    <3>3. video'[v].frames = x /\ video'[v].tags = video[v].tags
      BY <2>1, <3>2 DEF IsVideoRow, VideoColumns
    <3>4. \A k \in DOMAIN video[v].frames : \A c \in {"idx", "embedded", "vector", "stamp"} :
             x[k][c] = video[v].frames[k][c]
      BY <3>2 DEF ClearedFrame, IsVideoRow, AreFrames, FrameColumns
    <3> QED BY <3>1, <3>3, <3>4 DEF SameFrames
  <2> QED BY <1>1, <1>14, <2>1 DEF ClearFramePaths
<1>15. CASE UNCHANGED videoVars \/ UNCHANGED vars \/ Crash
  BY <1>1, <1>15 DEF Crash, vars, videoVars
<1>16. CASE FolderSequence \/ ModelsInstalled \/ IntervalChanges \/ PurgeFiles
  BY <1>1, <1>16 DEF FolderSequence, ModelsInstalled, IntervalChanges, PurgeFiles, videoVars
<1> QED BY <1>5, <1>6, <1>7, <1>8, <1>9, <1>10, <1>11, <1>12, <1>13, <1>14, <1>15, <1>16
       DEF Next, Worker, VideoStep, Requests, FramesTouched

(* What the steps on frames do to them.                                    *)
Extends(a, b) ==
    /\ DOMAIN a \subseteq DOMAIN b
    /\ \A k \in DOMAIN b : IF k \in DOMAIN a THEN b[k] = a[k]
                                             ELSE b[k].vector = None /\ b[k].embedded = FALSE

LEMMA AddedFramesAreNew ==
    ASSUME NEW row, row # None, IsVideoRow(row), task.got \in Nat
    PROVE  Extends(row.frames, WithFrames(row).frames) /\ WithFrames(row).tags = row.tags
<1> DEFINE kept == {i \in 1..task.got : \E k \in DOMAIN row.frames :
                                        row.frames[k].path /\ row.frames[k].idx = i}
           news == {i \in 1..task.got : i \notin kept}
           nth(k) == CHOOSE i \in news : Cardinality({j \in news : j < i}) = k - 1
           added == [k \in 1..Cardinality(news) |-> NewFrame(nth(k))]
           all == row.frames \o added
<1>1. WithFrames(row).frames = all /\ WithFrames(row).tags = row.tags
  BY DEF WithFrames, IsVideoRow, VideoColumns
<1>2. Cardinality(news) \in Nat
  <2>1. IsFiniteSet(1..task.got)
    BY FS_Interval
  <2>2. news \in SUBSET (1..task.got)
    OBVIOUS
  <2> HIDE DEF news
  <2> QED BY <2>1, <2>2, FS_Subset, FS_CardinalityType
<1> DEFINE n == Cardinality(news)
           T == {NewFrame(nth(k)) : k \in 1..n}
<1>3. \A k \in 1..n : added[k].vector = None /\ added[k].embedded = FALSE
  BY DEF NewFrame
<1>4. added \in [1..n -> T] /\ DOMAIN added = 1..n
  OBVIOUS
<1> HIDE DEF added, T, n, news, kept
<1>5. n \in Nat
  BY <1>2 DEF n
<1>6. added \in Seq(T) /\ Len(added) = n
  BY <1>4, <1>5
<1>7. PICK S : row.frames \in Seq(S)
  BY DEF IsVideoRow, AreFrames, IsSequence
<1>8. row.frames \in Seq(S \cup T) /\ added \in Seq(S \cup T) /\ Len(row.frames) \in Nat
  BY <1>6, <1>7
<1>9. DOMAIN all = 1..(Len(row.frames) + n) /\ DOMAIN row.frames = 1..Len(row.frames)
  BY <1>6, <1>8
<1>10. ASSUME NEW k \in DOMAIN all
       PROVE  IF k \in DOMAIN row.frames THEN all[k] = row.frames[k]
                                         ELSE all[k].vector = None /\ all[k].embedded = FALSE
  <2>1. k \in Nat /\ k <= Len(row.frames) + n /\ k >= 1
    BY <1>5, <1>8, <1>9, <1>10
  <2>2. CASE k <= Len(row.frames)
    BY <1>6, <1>8, <1>9, <2>1, <2>2
  <2>3. CASE k > Len(row.frames)
    <3>1. all[k] = added[k - Len(row.frames)] /\ k - Len(row.frames) \in 1..n
      BY <1>5, <1>6, <1>8, <2>1, <2>3
    <3>2. k \notin DOMAIN row.frames
      BY <1>8, <1>9, <2>1, <2>3
    <3> QED BY <1>3, <3>1, <3>2
  <2>4. k <= Len(row.frames) \/ k > Len(row.frames)
    BY ONLY <1>8, <2>1
  <2> QED BY <2>2, <2>3, <2>4
<1>11. DOMAIN row.frames \subseteq DOMAIN all
  BY <1>5, <1>8, <1>9
<1> HIDE DEF all
<1> QED BY <1>1, <1>10, <1>11 DEF Extends

FramesExtended ==
    \A v \in Videos :
        \/ video'[v] = video[v]
        \/ /\ video[v] # None /\ video'[v].tags = video[v].tags
           /\ Extends(video[v].frames, video'[v].frames)

LEMMA FramesAreInserted == ASSUME MediaInv, InsertFrames PROVE FramesExtended
<1>1. task.got \in Nat
  BY DEF InsertFrames, At, MediaInv, TaskOK, TaggingVideos, Running
<1>2. CASE task.cur \in VideoRows /\ video' = [video EXCEPT ![task.cur] = WithFrames(video[task.cur])]
  <2> DEFINE new == WithFrames(video[task.cur])
  <2>1. task.cur \in Videos /\ video[task.cur] # None /\ IsVideoRow(video[task.cur])
    BY <1>2 DEF MediaInv, RowsOK, VideoRows
  <2>2. Extends(video[task.cur].frames, new.frames) /\ new.tags = video[task.cur].tags
    BY <1>1, <2>1, AddedFramesAreNew
  <2>3. video' = [video EXCEPT ![task.cur] = new]
    BY <1>2
  <2> HIDE DEF new
  <2>4. video'[task.cur] = new /\ \A v \in Videos : v # task.cur => video'[v] = video[v]
    BY <2>1, <2>3 DEF MediaInv, RowsOK
  <2> QED BY <2>1, <2>2, <2>4 DEF FramesExtended
<1> QED BY <1>2 DEF InsertFrames, SetCurrent, FramesExtended

(* Some frames get a vector of a keyframe, which has not been scored.      *)
Revectored(a, b) ==
    /\ DOMAIN b.frames = DOMAIN a.frames /\ b.tags = a.tags
    /\ \A k \in DOMAIN a.frames :
          \/ b.frames[k] = a.frames[k]
          \/ b.frames[k].vector # None /\ b.frames[k].stamp = None

LEMMA VectorsAreStored ==
    ASSUME MediaInv, EmbedFrames
    PROVE  \/ UNCHANGED video /\ (task'.pc # "mark" \/ ~Running("embedFrames")')
           \/ /\ \A v \in Videos : IF v \in VideoRows THEN video'[v] # None => Revectored(video[v], video'[v])
                                                      ELSE video'[v] = None
              /\ \A f \in task'.got : f[1] \in VideoRows /\ f[2] \in DOMAIN video[f[1]].frames =>
                    video'[f[1]].frames[f[2]].vector # None
<1>1. task.pc = "embed" /\ plan # <<>> /\ Head(plan) = "embedFrames" /\ TaskColumns \subseteq DOMAIN task
  BY DEF EmbedFrames, At, MediaInv, TaskOK
<1>2. \A f \in task.todo : Matches(f)
  BY <1>1 DEF MediaInv, TaskOK, EmbeddingFrames, Running
<1>3. PICK batch \in BatchesOf(task.todo) :
          LET good == {f \in batch : OnDisk(f) # {}}
              rest == task.todo \ batch
          IN  \/ NextOf(rest, "embed") /\ UNCHANGED video
              \/ /\ video' = ForFrames(good, NewVector)
                 /\ Goes([task EXCEPT !.pc = "mark", !.todo = rest, !.got = good])
              \/ EndPass /\ UNCHANGED video
  BY DEF EmbedFrames
<1> DEFINE good == {f \in batch : OnDisk(f) # {}}
           rest == task.todo \ batch
<1>4. CASE NextOf(rest, "embed") /\ UNCHANGED video
  <2>1. EndPass => task'.pc # "mark"
    BY DEF EndPass, Idle
  <2>2. \A S : Goes([Idle EXCEPT !.pc = "embed", !.todo = S, !.ctx = task.ctx]) => task'.pc # "mark"
    BY DEF Goes, Idle
  <2>3. task'.pc # "mark"
    BY <1>4, <2>1, <2>2 DEF NextOf
  <2> QED BY <1>4, <2>3
<1>5. CASE EndPass /\ UNCHANGED video
  BY <1>5 DEF EndPass, Idle
<1>6. CASE /\ video' = ForFrames(good, NewVector)
           /\ Goes([task EXCEPT !.pc = "mark", !.todo = rest, !.got = good])
  <2>1. task'.got = good /\ batch \subseteq task.todo
    BY <1>1, <1>3, <1>6 DEF Goes, TaskColumns, BatchesOf, kSubset
  <2> DEFINE New(v, k) == NewVector(video[v].frames[k], <<v, k, video[v].frames[k].idx>>)
             Hit(v, k) == \E f \in good : f[1] = v /\ f[2] = k
  <2>2. ASSUME NEW v \in VideoRows, NEW k \in DOMAIN video[v].frames, Hit(v, k)
        PROVE  New(v, k).vector # None /\ New(v, k).stamp = None
    <3> DEFINE frame == video[v].frames[k]
               g == CHOOSE h \in OnDisk(<<v, k, frame.idx>>) : TRUE
    <3>1. PICK f \in good : f[1] = v /\ f[2] = k
      BY <2>2
    <3>2. f[3] = frame.idx /\ OnDisk(f) # {}
      BY <1>2, <2>1, <3>1 DEF Matches
    <3>3. OnDisk(<<v, k, frame.idx>>) = OnDisk(f)
      BY <3>1, <3>2 DEF OnDisk
    <3>4. g \in jpegs[v] /\ v \in Videos
      BY <3>2, <3>3 DEF OnDisk, VideoRows
    <3>5. g[2] # None
      BY <3>4, MediaAssumption DEF MediaInv, RowsOK, MediaAssumption
    <3>6. FrameColumns \subseteq DOMAIN frame
      BY DEF MediaInv, RowsOK, IsVideoRow, AreFrames
    <3>7. New(v, k) = [frame EXCEPT !.vector = g[2], !.stamp = None]
      BY DEF NewVector
    <3> HIDE DEF g, frame, New
    <3> QED BY <3>5, <3>6, <3>7 DEF FrameColumns
  <2>3. ASSUME NEW v \in VideoRows
        PROVE  /\ video'[v].tags = video[v].tags
               /\ video'[v].frames = [k \in DOMAIN video[v].frames |->
                                         IF Hit(v, k) THEN New(v, k) ELSE video[v].frames[k]]
    <3>1. IsVideoRow(video[v]) /\ v \in Videos
      BY DEF MediaInv, RowsOK, VideoRows
    <3> HIDE DEF good
    <3>2. video'[v] = [video[v] EXCEPT !.frames = [k \in DOMAIN video[v].frames |->
                                         IF Hit(v, k) THEN New(v, k) ELSE video[v].frames[k]]]
      BY <1>6, <3>1 DEF ForFrames, IsVideoRow, VideoColumns
    <3> HIDE DEF Hit, New
    <3> QED BY <3>1, <3>2 DEF IsVideoRow, VideoColumns
  <2>4. \A v \in Videos : v \notin VideoRows => video'[v] = None
    BY <1>6 DEF ForFrames
  <2>5. \A v \in VideoRows : Revectored(video[v], video'[v])
    <3> HIDE DEF Hit, New
    <3> QED BY <2>2, <2>3 DEF Revectored
  <2>6. ASSUME NEW f \in good, f[1] \in VideoRows, f[2] \in DOMAIN video[f[1]].frames
        PROVE  video'[f[1]].frames[f[2]].vector # None
    <3>1. Hit(f[1], f[2])
      OBVIOUS
    <3> HIDE DEF Hit, New, good
    <3> QED BY <2>2, <2>3, <2>6, <3>1
  <2> QED BY <2>1, <2>4, <2>5, <2>6
<1> QED BY <1>3, <1>4, <1>5, <1>6

(* Frames are marked, and nothing else about them changes.                 *)
FramesMarked ==
    \A v \in Videos :
        \/ video'[v] = video[v]
        \/ video'[v] = None
        \/ /\ video[v] # None /\ video'[v].tags = video[v].tags
           /\ DOMAIN video'[v].frames = DOMAIN video[v].frames
           /\ \A k \in DOMAIN video[v].frames :
                 /\ \A c \in {"idx", "vector", "stamp"} : video'[v].frames[k][c] = video[v].frames[k][c]
                 /\ \/ video'[v].frames[k].embedded = video[v].frames[k].embedded
                    \/ \E f \in task.got : f[1] = v /\ f[2] = k

LEMMA FramesAreMarked == ASSUME MediaInv, MarkFramesEmbedded PROVE FramesMarked
<1>1. CASE video' = ForFrames(task.got, MarkedFrame)
  <2> DEFINE New(v, k) == MarkedFrame(video[v].frames[k], <<v, k, video[v].frames[k].idx>>)
             Hit(v, k) == \E f \in task.got : f[1] = v /\ f[2] = k
  <2>1. ASSUME NEW v \in VideoRows, NEW k \in DOMAIN video[v].frames
        PROVE  \A c \in {"idx", "vector", "stamp"} : New(v, k)[c] = video[v].frames[k][c]
    BY DEF MarkedFrame, FrameColumns, MediaInv, RowsOK, IsVideoRow, AreFrames
  <2>2. ASSUME NEW v \in VideoRows
        PROVE  /\ video'[v].tags = video[v].tags
               /\ video'[v].frames = [k \in DOMAIN video[v].frames |->
                                         IF Hit(v, k) THEN New(v, k) ELSE video[v].frames[k]]
    <3>1. IsVideoRow(video[v]) /\ v \in Videos
      BY DEF MediaInv, RowsOK, VideoRows
    <3>2. video'[v] = [video[v] EXCEPT !.frames = [k \in DOMAIN video[v].frames |->
                                         IF Hit(v, k) THEN New(v, k) ELSE video[v].frames[k]]]
      BY <1>1, <3>1 DEF ForFrames, IsVideoRow, VideoColumns
    <3> HIDE DEF Hit, New
    <3> QED BY <3>1, <3>2 DEF IsVideoRow, VideoColumns
  <2>3. \A v \in Videos : v \notin VideoRows => video'[v] = None
    BY <1>1 DEF ForFrames
  <2> HIDE DEF New
  <2>4. ASSUME NEW v \in VideoRows, NEW k \in DOMAIN video[v].frames
        PROVE  /\ \A c \in {"idx", "vector", "stamp"} : video'[v].frames[k][c] = video[v].frames[k][c]
               /\ video'[v].frames[k] = video[v].frames[k] \/ Hit(v, k)
    <3> HIDE DEF Hit
    <3>1. video'[v].frames[k] = IF Hit(v, k) THEN New(v, k) ELSE video[v].frames[k]
      BY <2>2
    <3>2. CASE Hit(v, k)
      BY <2>1, <3>1, <3>2
    <3>3. CASE ~Hit(v, k)
      BY <3>1, <3>3
    <3> QED BY <3>2, <3>3
  <2>5. \A v \in VideoRows : video[v] # None /\ DOMAIN video'[v].frames = DOMAIN video[v].frames
    BY <2>2 DEF VideoRows
  <2>6. ASSUME NEW v \in VideoRows
        PROVE  /\ video[v] # None /\ video'[v].tags = video[v].tags
               /\ DOMAIN video'[v].frames = DOMAIN video[v].frames
               /\ \A k \in DOMAIN video[v].frames :
                     /\ \A c \in {"idx", "vector", "stamp"} : video'[v].frames[k][c] = video[v].frames[k][c]
                     /\ \/ video'[v].frames[k].embedded = video[v].frames[k].embedded
                        \/ \E f \in task.got : f[1] = v /\ f[2] = k
    <3>1. \A k \in DOMAIN video[v].frames :
             video'[v].frames[k] = video[v].frames[k] \/ \E f \in task.got : f[1] = v /\ f[2] = k
      BY <2>4
    <3> HIDE DEF Hit
    <3> QED BY <2>2, <2>4, <2>5, <3>1
  <2> QED BY <2>3, <2>6 DEF FramesMarked, VideoRows
<1> QED BY <1>1 DEF MarkFramesEmbedded, FramesMarked

(* The tags of the video at hand are written, and its vectors stamped.     *)
Relabelled(a, b, tags, sig) ==
    /\ DOMAIN b.frames = DOMAIN a.frames /\ b.tags = tags
    /\ \A k \in DOMAIN a.frames :
          /\ \A c \in {"idx", "embedded", "vector"} : b.frames[k][c] = a.frames[k][c]
          /\ a.frames[k].vector # None => b.frames[k].stamp = sig

LEMMA ScoresAreWritten ==
    ASSUME MediaInv, WriteVideoScores
    PROVE  \/ UNCHANGED video
           \/ /\ task.cur \in VideoRows /\ \A v \in Videos : v # task.cur => video'[v] = video[v]
              /\ Relabelled(video[task.cur], video'[task.cur], task.got, task.ctx)
<1>1. CASE task.cur \in VideoRows /\ video' = [video EXCEPT ![task.cur] = Scored(video[task.cur], task.got, task.ctx)]
  <2> DEFINE row == video[task.cur]
             x == [k \in DOMAIN row.frames |-> IF row.frames[k].vector = None THEN row.frames[k]
                                               ELSE [row.frames[k] EXCEPT !.stamp = task.ctx]]
             new == Scored(row, task.got, task.ctx)
  <2>1. task.cur \in Videos /\ row # None /\ IsVideoRow(row)
    BY <1>1 DEF MediaInv, RowsOK, VideoRows
  <2>2. new.frames = x /\ new.tags = task.got
    BY <2>1 DEF Scored, IsVideoRow, VideoColumns
  <2>3. \A k \in DOMAIN row.frames :
           /\ \A c \in {"idx", "embedded", "vector"} : x[k][c] = row.frames[k][c]
           /\ row.frames[k].vector # None => x[k].stamp = task.ctx
    BY <2>1 DEF IsVideoRow, AreFrames, FrameColumns
  <2>4. DOMAIN x = DOMAIN row.frames
    OBVIOUS
  <2> HIDE DEF x, new
  <2>5. video'[task.cur] = new /\ \A v \in Videos : v # task.cur => video'[v] = video[v]
    BY <1>1, <2>1 DEF MediaInv, RowsOK, new
  <2> QED BY <1>1, <2>2, <2>3, <2>4, <2>5 DEF Relabelled
<1> QED BY <1>1 DEF WriteVideoScores

(* The worker comes to the writing of tags from their computation only.    *)
LEMMA WritingFollowsScoring ==
    ASSUME MediaInv, [Next]_vars, Running("scoreVideos")', task'.pc = "write"
    PROVE  ScoreFrames \/ (UNCHANGED <<plan, task>> /\ ~FramesTouched)
<1>0. TaskColumns \subseteq DOMAIN task
  BY DEF MediaInv, TaskOK
<1>1. ~EndPass
  BY DEF EndPass, Idle
<1>2. ~LoadContext("scoreVideos", "score") /\ ~ReadUnscoredVideos /\ ~WriteVideoScores
  BY <1>0, <1>1 DEF LoadContext, ReadUnscoredVideos, WriteVideoScores, Goes, TaskColumns
<1>3. UNCHANGED <<plan, task>> /\ Running("scoreVideos") => ~FramesTouched
  BY <1>2 DEF FramesTouched, InsertFrames, EmbedFrames, MarkFramesEmbedded, At, Running
<1> QED BY <1>2, <1>3, PassesAreRun, StepsOfPasses

(* What each of these changes does to the labels of a row.                 *)
LEMMA ExtendedRows ==
    ASSUME NEW a, NEW b, Extends(a.frames, b.frames) PROVE SameVectors(a, b)
<1>1. VectorsOf(b) = VectorsOf(a)
  <2>1. \A k : k \in VectorsOf(b) <=> k \in VectorsOf(a)
    BY DEF Extends, VectorsOf
  <2> QED BY <2>1
<1>2. \A k \in VectorsOf(a) : b.frames[k] = a.frames[k]
  BY DEF Extends, VectorsOf
<1> QED BY <1>1, <1>2 DEF SameVectors

LEMMA RowsWithTheSameFrames ==
    ASSUME NEW a, NEW b, DOMAIN b.frames = DOMAIN a.frames,
           \A k \in DOMAIN a.frames : /\ b.frames[k].vector = a.frames[k].vector
                                      /\ b.frames[k].idx = a.frames[k].idx
                                      /\ b.frames[k].stamp = a.frames[k].stamp
    PROVE  SameVectors(a, b)
<1>1. VectorsOf(b) = VectorsOf(a)
  <2>1. \A k : k \in VectorsOf(b) <=> k \in VectorsOf(a)
    BY DEF VectorsOf
  <2> QED BY <2>1
<1> QED BY <1>1 DEF SameVectors, VectorsOf

LEMMA RevectoredRows ==
    ASSUME NEW a, NEW b, Revectored(a, b), LabelsFit(a) PROVE LabelsFit(b)
<1>1. CASE \A k \in DOMAIN a.frames : b.frames[k] = a.frames[k]
  <2>1. SameVectors(a, b)
    BY <1>1, RowsWithTheSameFrames DEF Revectored
  <2> QED BY <2>1, SameVectorsSameLabels DEF Revectored
<1>2. CASE \E k \in DOMAIN a.frames : b.frames[k] # a.frames[k]
  <2>1. PICK k \in DOMAIN a.frames : b.frames[k].vector # None /\ b.frames[k].stamp = None
    BY <1>2 DEF Revectored
  <2>2. k \in VectorsOf(b) /\ b.frames[k].stamp = None
    BY <2>1 DEF Revectored, VectorsOf
  <2> QED BY <2>2 DEF LabelsFit
<1> QED BY <1>1, <1>2

LEMMA RelabelledRows ==
    ASSUME NEW a, NEW b, NEW tags, NEW sig, Relabelled(a, b, tags, sig), tags = VideoTags(ShownOf(a), sig)
    PROVE  LabelsFit(b)
<1>1. VectorsOf(b) = VectorsOf(a)
  <2>1. \A k : k \in VectorsOf(b) <=> k \in VectorsOf(a)
    BY DEF Relabelled, VectorsOf
  <2> QED BY <2>1
<1>2. ShownOf(b) = ShownOf(a)
  BY <1>1 DEF Relabelled, ShownOf, VectorsOf
<1>3. \A k \in VectorsOf(b) : b.frames[k].stamp = sig
  BY <1>1 DEF Relabelled, VectorsOf
<1>4. b.tags = VideoTags(ShownOf(b), sig)
  BY <1>2 DEF Relabelled
<1> QED BY <1>3, <1>4 DEF LabelsFit

LEMMA EmptyRows == ASSUME NEW a, DOMAIN a.frames = {} PROVE LabelsFit(a)
BY DEF LabelsFit, VectorsOf

LEMMA LabelsStart == ASSUME Init PROVE LabelInv
BY DEF Init, MediaInit, VideoInit, LabelInv, VideoRows, Running

LEMMA LabelSteps ==
    ASSUME MediaInv, MediaInv', LabelInv, [Next]_vars PROVE LabelInv'
<1>1. ASSUME NEW v \in Videos, video'[v] # None PROVE LabelsFit(video'[v])
  <2>0. video[v] # None => LabelsFit(video[v])
    BY DEF LabelInv, VideoRows
  <2>1. CASE VideosQuiet
    <3>1. CASE DOMAIN video'[v].frames = {}
      BY <3>1, EmptyRows
    <3>2. CASE video[v] # None /\ SameFrames(video[v], video'[v]) /\ video'[v].tags = video[v].tags
      <4>1. SameVectors(video[v], video'[v])
        BY <3>2, RowsWithTheSameFrames DEF SameFrames
      <4> QED BY <2>0, <3>2, <4>1, SameVectorsSameLabels
    <3> QED BY <1>1, <2>1, <3>1, <3>2 DEF VideosQuiet
  <2>2. CASE InsertFrames
    <3>1. FramesExtended
      BY <2>2, FramesAreInserted
    <3>2. CASE video'[v] = video[v]
      BY <1>1, <2>0, <3>2
    <3>3. CASE video[v] # None /\ video'[v].tags = video[v].tags /\ Extends(video[v].frames, video'[v].frames)
      BY <2>0, <3>3, ExtendedRows, SameVectorsSameLabels
    <3> QED BY <3>1, <3>2, <3>3 DEF FramesExtended
  <2>3. CASE EmbedFrames
    <3>1. video'[v] = video[v] \/ (video[v] # None /\ Revectored(video[v], video'[v]))
      BY <1>1, <2>3, VectorsAreStored DEF VideoRows
    <3> QED BY <1>1, <2>0, <3>1, RevectoredRows
  <2>4. CASE MarkFramesEmbedded
    <3>1. FramesMarked
      BY <2>4, FramesAreMarked
    <3>2. CASE video'[v] = video[v]
      BY <1>1, <2>0, <3>2
    <3>3. CASE video'[v] # video[v]
      <4>1. /\ video[v] # None /\ video'[v].tags = video[v].tags
            /\ DOMAIN video'[v].frames = DOMAIN video[v].frames
            /\ \A k \in DOMAIN video[v].frames : \A c \in {"idx", "vector", "stamp"} :
                  video'[v].frames[k][c] = video[v].frames[k][c]
        BY <1>1, <3>1, <3>3 DEF FramesMarked
      <4>2. SameVectors(video[v], video'[v])
        BY <4>1, RowsWithTheSameFrames
      <4> QED BY <2>0, <4>1, <4>2, SameVectorsSameLabels
    <3> QED BY <3>2, <3>3
  <2>5. CASE WriteVideoScores
    <3>1. CASE v = task.cur /\ Relabelled(video[v], video'[v], task.got, task.ctx) /\ v \in VideoRows
      <4>1. task.got = VideoTags(ShownOf(video[v]), task.ctx)
        BY <2>5, <3>1 DEF WriteVideoScores, At, LabelInv, Running
      <4> QED BY <3>1, <4>1, RelabelledRows
    <3> QED BY <1>1, <2>0, <2>5, <3>1, ScoresAreWritten
  <2> QED BY <2>1, <2>2, <2>3, <2>4, <2>5, OthersLeaveFrames DEF FramesTouched
<1>2. ASSUME Running("scoreVideos")', task'.pc = "write", task'.cur \in Videos, video'[task'.cur] # None
      PROVE  task'.got = VideoTags(ShownOf(video'[task'.cur]), task'.ctx)
  <2>0. TaskColumns \subseteq DOMAIN task
    BY DEF MediaInv, TaskOK
  <2>1. CASE UNCHANGED <<plan, task>> /\ ~FramesTouched
    <3> DEFINE a == video[task.cur]
               b == video'[task.cur]
    <3>1. VideosQuiet
      BY <2>1, OthersLeaveFrames
    <3>2. Running("scoreVideos") /\ task.pc = "write" /\ task.cur \in Videos /\ b # None
      BY <1>2, <2>1 DEF Running
    <3>3. HasVector(b.frames)
      BY <1>2, <2>1 DEF MediaInv, TaskOK, ScoringVideos, VideoRows
    <3>4. a # None /\ SameFrames(a, b)
      BY <3>1, <3>2, <3>3 DEF VideosQuiet, HasVector
    <3> HIDE DEF a, b
    <3>5. ShownOf(b) = ShownOf(a)
      BY <3>4, RowsWithTheSameFrames, SameVectorsSameLabels DEF SameFrames
    <3>6. task.got = VideoTags(ShownOf(a), task.ctx)
      BY <3>2, <3>4 DEF LabelInv, VideoRows, a
    <3> QED BY <2>1, <3>5, <3>6 DEF b
  <2>2. CASE ScoreFrames
    <3>1. UNCHANGED video
      BY <2>2 DEF ScoreFrames, videoVars
    <3>2. PICK v \in task.todo :
             Goes([task EXCEPT !.pc = "write", !.cur = v, !.todo = @ \ {v},
                        !.got = IF v \in VideoRows THEN VideoTags(Shown(v), task.ctx) ELSE {}])
      BY <1>2, <2>0, <2>2 DEF ScoreFrames, Goto, Goes, TaskColumns
    <3>3. /\ task'.cur = v /\ task'.ctx = task.ctx
          /\ task'.got = IF v \in VideoRows THEN VideoTags(Shown(v), task.ctx) ELSE {}
      BY <2>0, <3>2 DEF Goes, TaskColumns
    <3>4. v \in VideoRows
      BY <1>2, <3>1, <3>3 DEF VideoRows
    <3>5. Shown(v) = ShownOf(video[v])
      BY DEF Shown, Embedded, ShownOf, VectorsOf
    <3> QED BY <3>1, <3>3, <3>4, <3>5
  <2> QED BY <1>2, <2>1, <2>2, WritingFollowsScoring
<1>3. \A v \in VideoRows' : LabelsFit(video'[v])
  BY <1>1 DEF VideoRows
<1>4. Running("scoreVideos")' /\ task'.pc = "write" /\ task'.cur \in VideoRows' =>
         task'.got = VideoTags(ShownOf(video'[task'.cur]), task'.ctx)
  BY <1>2 DEF VideoRows
<1> QED BY <1>3, <1>4 DEF LabelInv

(* NULL in a stamp is not a fingerprint; these are functions.              *)
NullIsNoFingerprint == None # [x \in DOMAIN None |-> None[x]]

(* When all vectors of a video carry the current fingerprint, its tags are *)
(* what these vectors earn it under the current labels: so the scoring     *)
(* that skips such a video misses nothing, whatever other passes, crashes  *)
(* and releases came between (semantic_labels.py, video_frames.py).        *)
THEOREM TagsFollowVectors ==
    ASSUME NullHasNoColumns, NullIsNoFingerprint PROVE Spec => []VideoTagsFollowFrames
<1>1. Init => MediaInv /\ LabelInv
  BY MediaStarts, LabelsStart
<1>2. MediaInv /\ LabelInv /\ [Next]_vars => MediaInv' /\ LabelInv'
  BY MediaSteps, LabelSteps
<1>3. LabelInv => VideoTagsFollowFrames
  <2> SUFFICES ASSUME LabelInv, NEW v \in VideoRows, Embedded(v) # {},
                      \A k \in Embedded(v) : video[v].frames[k].stamp = Signature
               PROVE  video[v].tags = VideoTags(Shown(v), Signature)
    BY DEF VideoTagsFollowFrames
  <2>1. Embedded(v) = VectorsOf(video[v]) /\ Shown(v) = ShownOf(video[v])
    BY DEF Shown, Embedded, ShownOf, VectorsOf
  <2>2. Signature # None
    BY DEF Signature, NullIsNoFingerprint
  <2>3. PICK k \in VectorsOf(video[v]) : video[v].frames[k].stamp = Signature
    BY <2>1
  <2>4. LabelsFit(video[v])
    BY DEF LabelInv
  <2> HIDE DEF Signature
  <2> QED BY <2>1, <2>2, <2>3, <2>4 DEF LabelsFit
<1> QED BY <1>1, <1>2, <1>3, PTL DEF Spec

---------------------------------------------------------------------------
(* What is marked as done has its effect.                                  *)

(* What steps other than those of tagging and embedding do to the rows of  *)
(* photos.                                                                 *)
PhotoQuiet(old, new) ==
    \/ new = None
    \/ old = None /\ ~new.tagged /\ ~new.embedded /\ new.objects = {}
    \/ /\ old # None
       /\ \A c \in {"tagged", "embedded", "objects", "vector"} : new[c] = old[c]

PhotosQuiet == \A p \in Photos : PhotoQuiet(photo[p], photo'[p])

LEMMA SamePhotosAreQuiet == ASSUME UNCHANGED photo PROVE PhotosQuiet
BY DEF PhotosQuiet, PhotoQuiet

LEMMA RequestsLeavePhotos == ASSUME MediaInv, Requests \/ Crash \/ UNCHANGED vars PROVE PhotosQuiet
<1>0. DOMAIN photo = Photos /\ \A p \in Photos : photo[p] # None => IsPhotoRow(photo[p])
  BY DEF MediaInv, RowsOK, PhotoRows
<1>1. CASE ToggleImageFavourite
  <2>1. PICK p \in PhotoRows : photo' = [photo EXCEPT ![p].favourite = ~@]
    BY <1>1 DEF ToggleImageFavourite
  <2> DEFINE new == [photo[p] EXCEPT !.favourite = ~@]
  <2>2. p \in Photos /\ photo[p] # None /\ IsPhotoRow(photo[p])
    BY <1>0, <2>1 DEF PhotoRows
  <2>3. \A c \in {"tagged", "embedded", "objects", "vector"} : new[c] = photo[p][c]
    BY <2>2 DEF IsPhotoRow, PhotoColumns
  <2> HIDE DEF new
  <2>4. photo'[p] = new /\ \A q \in Photos : q # p => photo'[q] = photo[q]
    BY <1>0, <2>1, <2>2 DEF new
  <2> QED BY <2>2, <2>3, <2>4 DEF PhotosQuiet, PhotoQuiet
<1>2. CASE FolderDeleted
  BY <1>2 DEF FolderDeleted, Delete, PhotosQuiet, PhotoQuiet
<1>3. CASE UNCHANGED photo
  BY <1>3, SamePhotosAreQuiet
<1> QED BY <1>1, <1>2, <1>3
        DEF Requests, Crash, vars, photoVars, FolderSequence, ModelsInstalled

PhotosTouched == Classify \/ UpdateImageTagged \/ EmbedImages \/ MarkImagesEmbedded

LEMMA OthersLeavePhotos == ASSUME MediaInv, [Next]_vars PROVE PhotosTouched \/ PhotosQuiet
<1>0. DOMAIN photo = Photos /\ \A p \in Photos : photo[p] # None => IsPhotoRow(photo[p])
  BY DEF MediaInv, RowsOK, PhotoRows
<1>1. CASE PrepareImages \/ RemoveObsoleteImages \/ GetUntaggedImages \/ ClassifyFails \/ DetectFaces
           \/ InsertFace \/ GetUnembeddedImages(installed)
  <2>1. UNCHANGED photo
    BY <1>1 DEF PrepareImages, RemoveObsoleteImages, GetUntaggedImages, ClassifyFails, DetectFaces, InsertFace,
                GetUnembeddedImages, photoVars
  <2> QED BY <2>1, SamePhotosAreQuiet
<1>2. CASE DeleteImages
  <2>1. CASE Delete(task.todo)
    BY <2>1 DEF Delete, PhotosQuiet, PhotoQuiet
  <2> QED BY <1>2, <2>1, SamePhotosAreQuiet DEF DeleteImages, photoVars
<1>3. CASE BulkInsertImages
  <2>1. ASSUME NEW row, NEW thumb, row # None => IsPhotoRow(row) PROVE PhotoQuiet(row, Upserted(row, thumb))
    <3>1. CASE row = None
      BY <3>1 DEF Upserted, NewPhoto, PhotoQuiet
    <3>2. CASE row # None
      BY <2>1, <3>2 DEF Upserted, PhotoQuiet, IsPhotoRow, PhotoColumns
    <3> QED BY <3>1, <3>2
  <2>2. CASE photo' = [p \in Photos |-> IF folder # "gone" /\ p \in DOMAIN task.recs
                                           THEN Upserted(photo[p], task.recs[p]) ELSE photo[p]]
    <3>1. ASSUME NEW p \in Photos PROVE photo'[p] = photo[p] \/ \E t : photo'[p] = Upserted(photo[p], t)
      BY <2>2
    <3>2. \A row : PhotoQuiet(row, row)
      BY DEF PhotoQuiet
    <3> QED BY <1>0, <2>1, <3>1, <3>2 DEF PhotosQuiet
  <2> QED BY <1>3, <2>2, SamePhotosAreQuiet DEF BulkInsertImages
<1>4. CASE VideoStep(installed) /\ UNCHANGED photoVars
  BY <1>4, SamePhotosAreQuiet DEF photoVars
<1>5. CASE LabelStep /\ ~WriteImageScores
  <2>1. UNCHANGED photo
    BY <1>5 DEF LabelStep, BuildLabelEmbeddings, LoadContext, ReadUnscoredImages,
                ReadUnscoredVideos, ScoreFrames, WriteVideoScores, photoVars
  <2> QED BY <2>1, SamePhotosAreQuiet
<1>6. CASE WriteImageScores
  <2>1. CASE photo' = [p \in Photos |-> IF p \in DOMAIN task.got \cap PhotoRows
                              THEN [photo[p] EXCEPT !.tags = task.got[p], !.stamp = task.ctx] ELSE photo[p]]
    <3>1. ASSUME NEW p \in Photos PROVE PhotoQuiet(photo[p], photo'[p])
      <4>1. CASE p \in DOMAIN task.got \cap PhotoRows
        <5>1. photo[p] # None /\ IsPhotoRow(photo[p])
          BY <1>0, <4>1 DEF PhotoRows
        <5>2. photo'[p] = [photo[p] EXCEPT !.tags = task.got[p], !.stamp = task.ctx]
          BY <2>1, <4>1
        <5> QED BY <5>1, <5>2 DEF PhotoQuiet, IsPhotoRow, PhotoColumns
      <4>2. CASE p \notin DOMAIN task.got \cap PhotoRows
        BY <2>1, <4>2 DEF PhotoQuiet
      <4> QED BY <4>1, <4>2
    <3> QED BY <3>1 DEF PhotosQuiet
  <2> QED BY <1>6, <2>1, SamePhotosAreQuiet DEF WriteImageScores
<1> QED BY <1>1, <1>2, <1>3, <1>4, <1>5, <1>6, RequestsLeavePhotos DEF Next, Worker, PhotoStep, PhotosTouched

(* The steps on photos, row by row.                                        *)
LEMMA PhotosAreTouched ==
    ASSUME MediaInv, PhotosTouched, NEW p \in Photos
    PROVE  \/ photo'[p] = photo[p]
           \/ /\ photo[p] # None
              /\ \/ /\ Classify /\ p = task'.cur /\ CvReads(file[p])
                    /\ photo'[p] = [photo[p] EXCEPT !.objects = @ \cup ObjectsIn[file[p]]]
                 \/ UpdateImageTagged /\ p = task.cur /\ photo'[p] = [photo[p] EXCEPT !.tagged = TRUE]
                 \/ /\ EmbedImages /\ PilReads(file[p])
                    /\ photo'[p] = [photo[p] EXCEPT !.vector = file[p]]
                 \/ MarkImagesEmbedded /\ p \in task.got /\ photo'[p] = [photo[p] EXCEPT !.embedded = TRUE]
<1>0. DOMAIN photo = Photos /\ TaskColumns \subseteq DOMAIN task
  BY DEF MediaInv, RowsOK, TaskOK
<1>1. CASE Classify
  <2>1. PICK q \in task.todo :
          /\ CvReads(file[q]) /\ task' = [task EXCEPT !.cur = q,
                                             !.pc = IF Person \in ObjectsIn[file[q]] THEN "detect" ELSE "flag"]
          /\ \/ q \in PhotoRows /\ photo' = [photo EXCEPT ![q].objects = @ \cup ObjectsIn[file[q]]]
             \/ UNCHANGED photo
    BY <1>1 DEF Classify, Goes
  <2>2. task'.cur = q
    BY <1>0, <2>1 DEF TaskColumns
  <2> QED BY <1>0, <1>1, <2>1, <2>2 DEF PhotoRows
<1>2. CASE UpdateImageTagged
  BY <1>0, <1>2 DEF UpdateImageTagged, Flagged
<1>3. CASE EmbedImages
  <2>1. \/ UNCHANGED photo
        \/ \E good : /\ \A q \in good : PilReads(file[q])
                     /\ good \subseteq PhotoRows
                     /\ photo' = [q \in Photos |-> IF q \in good THEN WithVector(photo[q], file[q]) ELSE photo[q]]
    BY <1>3 DEF EmbedImages
  <2> QED BY <1>3, <2>1 DEF WithVector, PhotoRows
<1>4. CASE MarkImagesEmbedded
  BY <1>4 DEF MarkImagesEmbedded, PhotoRows
<1> QED BY <1>1, <1>2, <1>3, <1>4 DEF PhotosTouched

(* Nobody but the worker inserts a photo.                                  *)
LEMMA RequestsInsertNothing ==
    ASSUME NullHasNoColumns, MediaInv, Requests \/ UNCHANGED vars, NEW p \in Photos, photo[p] = None
    PROVE  photo'[p] = None
<1>1. CASE ToggleImageFavourite
  BY <1>1 DEF ToggleImageFavourite, PhotoRows, MediaInv, RowsOK
<1>2. CASE FolderDeleted
  BY <1>2 DEF FolderDeleted, Delete
<1>3. CASE UNCHANGED photo
  BY <1>3
<1> QED BY <1>1, <1>2, <1>3 DEF Requests, vars, photoVars, FolderSequence, ModelsInstalled

(* A photo marked as embedded has a vector, and those about to be marked   *)
(* have one.                                                               *)
EmbeddedPhotos ==
    /\ \A p \in PhotoRows : photo[p].embedded => photo[p].vector # None
    /\ At("embedPhotos", "mark") => \A p \in task.got : p \in PhotoRows => photo[p].vector # None

LEMMA EmbeddedPhotosStart == ASSUME Init PROVE EmbeddedPhotos
BY DEF Init, MediaInit, PhotoInit, EmbeddedPhotos, PhotoRows, At

LEMMA EmbeddedPhotosStep ==
    ASSUME NullHasNoColumns, MediaInv, EmbeddedPhotos, [Next]_vars PROVE EmbeddedPhotos'
<1>0. \A p \in Photos : photo[p] # None => IsPhotoRow(photo[p])
  BY DEF MediaInv, RowsOK, PhotoRows
<1>a. TaskColumns \subseteq DOMAIN task
  BY DEF MediaInv, TaskOK
<1>1. ASSUME NEW p \in Photos, photo'[p] # None, photo'[p].embedded PROVE photo'[p].vector # None
  <2>1. CASE PhotosQuiet
    BY <1>1, <2>1 DEF PhotosQuiet, PhotoQuiet, EmbeddedPhotos, PhotoRows
  <2>2. CASE PhotosTouched
    <3>1. CASE photo'[p] = photo[p]
      BY <1>1, <3>1 DEF EmbeddedPhotos, PhotoRows
    <3>2. CASE photo[p] # None /\ photo'[p] = [photo[p] EXCEPT !.objects = @ \cup ObjectsIn[file[p]]]
      BY <1>0, <1>1, <3>2 DEF EmbeddedPhotos, PhotoRows, IsPhotoRow, PhotoColumns
    <3>3. CASE photo[p] # None /\ photo'[p] = [photo[p] EXCEPT !.tagged = TRUE]
      BY <1>0, <1>1, <3>3 DEF EmbeddedPhotos, PhotoRows, IsPhotoRow, PhotoColumns
    <3>4. CASE photo[p] # None /\ PilReads(file[p]) /\ photo'[p] = [photo[p] EXCEPT !.vector = file[p]]
      BY <1>0, <3>4, MediaAssumption DEF PilReads, IsPhotoRow, PhotoColumns, MediaAssumption
    <3>5. CASE /\ photo[p] # None /\ MarkImagesEmbedded /\ p \in task.got
               /\ photo'[p] = [photo[p] EXCEPT !.embedded = TRUE]
      BY <1>0, <3>5 DEF EmbeddedPhotos, PhotoRows, IsPhotoRow, PhotoColumns, MarkImagesEmbedded
    <3> QED BY <2>2, <3>1, <3>2, <3>3, <3>4, <3>5, PhotosAreTouched
  <2> QED BY <2>1, <2>2, OthersLeavePhotos
<1>2. ASSUME At("embedPhotos", "mark")', NEW p \in Photos, p \in task'.got, photo'[p] # None
      PROVE  photo'[p].vector # None
  <2>0. Running("embedPhotos")' /\ task'.pc = "mark"
    BY <1>2 DEF Running, At
  <2>1. CASE (Requests \/ UNCHANGED vars) /\ UNCHANGED <<plan, task>>
    <3>1. PhotosQuiet /\ photo[p] # None
      BY <1>2, <2>1, RequestsLeavePhotos, RequestsInsertNothing
    <3>2. p \in task.got /\ At("embedPhotos", "mark")
      BY <1>2, <2>1 DEF At
    <3> QED BY <1>2, <3>1, <3>2 DEF PhotosQuiet, PhotoQuiet, EmbeddedPhotos, PhotoRows
  <2>2. CASE Worker /\ UNCHANGED plan /\ Head(plan) = "embedPhotos"
    <3>0. ~EndPass
      BY <2>0 DEF EndPass, Idle
    <3>1. \A S, x : ~Goes([Idle EXCEPT !.pc = "embed", !.todo = S, !.ctx = x])
      BY <2>0 DEF Goes, Idle
    <3>2. \A S : ~NextOf(S, "embed")
      BY <3>0, <3>1 DEF NextOf
    <3>3. EmbedImages
      BY <2>2, <3>2, StepsOfPasses DEF GetUnembeddedImages, MarkImagesEmbedded
    <3>4. PICK good, rest :
             /\ \A q \in good : PilReads(file[q])
             /\ good \subseteq PhotoRows
             /\ photo' = [q \in Photos |-> IF q \in good THEN WithVector(photo[q], file[q]) ELSE photo[q]]
             /\ Goes([task EXCEPT !.pc = "mark", !.todo = rest, !.got = good])
      BY <3>0, <3>2, <3>3 DEF EmbedImages
    <3>5. p \in good /\ photo[p] # None
      BY <1>2, <1>a, <3>4 DEF Goes, TaskColumns, PhotoRows
    <3>6. photo'[p] = [photo[p] EXCEPT !.vector = file[p]]
      BY <3>4, <3>5 DEF WithVector
    <3> QED BY <1>0, <3>4, <3>5, <3>6, MediaAssumption DEF PilReads, IsPhotoRow, PhotoColumns, MediaAssumption
  <2> QED BY <2>0, <2>1, <2>2, PassesAreRun
<1> QED BY <1>1, <1>2 DEF EmbeddedPhotos, PhotoRows

(* While nobody touches files or cache and no statement fails.             *)
Undisturbed == count.events = 0 /\ count.faults = 0

CountOK == {"events", "faults"} \subseteq DOMAIN count /\ count.events \in Nat /\ count.faults \in Nat

LEMMA CountsStay == ASSUME CountOK, [Next]_vars PROVE CountOK'
<1>1. Counted
  BY StepsAreCounted
<1> QED BY <1>1 DEF Counted, Works, Fails, Happens, CountOK

LEMMA FilesStay == ASSUME [Next]_vars PROVE Happens \/ UNCHANGED file
<1>1. CASE PhotoStep(installed)
  BY <1>1 DEF PhotoStep, PrepareImages, RemoveObsoleteImages, DeleteImages, BulkInsertImages, GetUntaggedImages,
              ClassifyFails, Classify, DetectFaces, InsertFace, UpdateImageTagged, GetUnembeddedImages,
              EmbedImages, MarkImagesEmbedded
<1>2. CASE VideoStep(installed)
  BY <1>2 DEF VideoStep, PrepareVideos, RemoveObsoleteVideos, RemoveObsoleteFiles, BulkInsertVideos, RemovePosters,
              GetUntaggedVideos, ExtractFrames, DeleteFrames, InsertFrames, WriteVideoClasses, MarkVideoTagged,
              GetUnembeddedFrames, EmbedFrames, MarkFramesEmbedded
<1>3. CASE LabelStep
  BY <1>3 DEF LabelStep, BuildLabelEmbeddings, LoadContext, ReadUnscoredImages, WriteImageScores,
              ReadUnscoredVideos, ScoreFrames, WriteVideoScores
<1>4. CASE Requests
  BY <1>4 DEF Requests, FolderSequence, ModelsInstalled, FolderDeleted, FileChanges, FolderToggles,
              ToggleImageFavourite, ToggleVideoFavourite, IntervalChanges, PurgeFiles, ClearFramePaths
<1> QED BY <1>1, <1>2, <1>3, <1>4 DEF Next, Worker, Crash, vars, mediaVars

LEMMA NothingHappened ==
    ASSUME CountOK, [Next]_vars, Undisturbed'
    PROVE  Undisturbed /\ ~Fails /\ ~Happens /\ UNCHANGED file
<1>1. Counted
  BY StepsAreCounted
<1>2. ~Happens
  BY DEF Happens, CountOK, Undisturbed
<1>3. ~Fails
  BY DEF Fails, CountOK, Undisturbed
<1>4. Undisturbed
  BY <1>1, <1>2, <1>3 DEF Counted, Works, CountOK, Undisturbed
<1> QED BY <1>2, <1>3, <1>4, FilesStay

(* While nothing interferes, the objects of a photo are none or those its  *)
(* file shows, and the latter once it is tagged or about to be.            *)
Tagging(pass, pcs) == Running(pass) /\ task.pc \in pcs

ShownPhotos ==
    Undisturbed =>
        /\ \A p \in PhotoRows : /\ photo[p].objects = {} \/ photo[p].objects = ObjectsIn[file[p]]
                                /\ photo[p].tagged => photo[p].objects = ObjectsIn[file[p]]
        /\ Tagging("tagPhotos", {"detect", "face", "flag"}) /\ task.cur \in PhotoRows =>
              photo[task.cur].objects = ObjectsIn[file[task.cur]]

LEMMA ShownPhotosStart == ASSUME Init PROVE CountOK /\ ShownPhotos
BY DEF Init, MediaInit, PhotoInit, ShownPhotos, PhotoRows, Tagging, Running, CountOK

LEMMA ShownPhotosStep ==
    ASSUME NullHasNoColumns, MediaInv, CountOK, ShownPhotos, [Next]_vars PROVE ShownPhotos'
<1> SUFFICES ASSUME Undisturbed'
             PROVE  /\ \A p \in Photos : photo'[p] # None =>
                          /\ photo'[p].objects = {} \/ photo'[p].objects = ObjectsIn[file'[p]]
                          /\ photo'[p].tagged => photo'[p].objects = ObjectsIn[file'[p]]
                    /\ \A p \in Photos :
                          Tagging("tagPhotos", {"detect", "face", "flag"})' /\ p = task'.cur /\ photo'[p] # None =>
                              photo'[p].objects = ObjectsIn[file'[p]]
  BY DEF ShownPhotos, PhotoRows
<1>a. \A p \in Photos : photo[p] # None => IsPhotoRow(photo[p])
  BY DEF MediaInv, RowsOK, PhotoRows
<1>b. TaskColumns \subseteq DOMAIN task
  BY DEF MediaInv, TaskOK
<1>c. Undisturbed /\ ~Fails /\ ~Happens /\ file' = file
  BY NothingHappened
<1>d. \A p \in Photos : photo[p] # None =>
          /\ photo[p].objects = {} \/ photo[p].objects = ObjectsIn[file[p]]
          /\ photo[p].tagged => photo[p].objects = ObjectsIn[file[p]]
  BY <1>c DEF ShownPhotos, PhotoRows
<1>e. \A p \in Photos : Tagging("tagPhotos", {"detect", "face", "flag"}) /\ p = task.cur /\ photo[p] # None =>
          photo[p].objects = ObjectsIn[file[p]]
  BY <1>c DEF ShownPhotos, PhotoRows
<1>1. ASSUME NEW p \in Photos, photo'[p] # None
      PROVE  /\ photo'[p].objects = {} \/ photo'[p].objects = ObjectsIn[file[p]]
             /\ photo'[p].tagged => photo'[p].objects = ObjectsIn[file[p]]
  <2>1. CASE PhotosQuiet
    BY <1>1, <1>d, <2>1 DEF PhotosQuiet, PhotoQuiet
  <2>2. CASE PhotosTouched
    <3>1. CASE photo'[p] = photo[p]
      BY <1>1, <1>d, <3>1
    <3>2. CASE photo[p] # None /\ photo'[p] = [photo[p] EXCEPT !.objects = @ \cup ObjectsIn[file[p]]]
      <4>1. photo'[p].objects = photo[p].objects \cup ObjectsIn[file[p]]
        BY <1>a, <3>2 DEF IsPhotoRow, PhotoColumns
      <4> QED BY <1>d, <3>2, <4>1
    <3>3. CASE /\ photo[p] # None /\ UpdateImageTagged /\ p = task.cur
               /\ photo'[p] = [photo[p] EXCEPT !.tagged = TRUE]
      <4>1. photo[p].objects = ObjectsIn[file[p]]
        BY <1>e, <3>3 DEF UpdateImageTagged, At, Tagging, Running
      <4> QED BY <1>a, <3>3, <4>1 DEF IsPhotoRow, PhotoColumns
    <3>4. CASE photo[p] # None /\ photo'[p] = [photo[p] EXCEPT !.vector = file[p]]
      BY <1>a, <1>d, <3>4 DEF IsPhotoRow, PhotoColumns
    <3>5. CASE photo[p] # None /\ photo'[p] = [photo[p] EXCEPT !.embedded = TRUE]
      BY <1>a, <1>d, <3>5 DEF IsPhotoRow, PhotoColumns
    <3> QED BY <2>2, <3>1, <3>2, <3>3, <3>4, <3>5, PhotosAreTouched
  <2> QED BY <2>1, <2>2, OthersLeavePhotos
<1>2. ASSUME NEW p \in Photos, Tagging("tagPhotos", {"detect", "face", "flag"})', p = task'.cur, photo'[p] # None
      PROVE  photo'[p].objects = ObjectsIn[file[p]]
  <2>0. Running("tagPhotos")' /\ task'.pc \in {"detect", "face", "flag"}
    BY <1>2 DEF Tagging
  <2>1. CASE (Requests \/ UNCHANGED vars) /\ UNCHANGED <<plan, task>>
    <3>1. PhotosQuiet /\ photo[p] # None
      BY <1>2, <2>1, RequestsLeavePhotos, RequestsInsertNothing
    <3>2. Tagging("tagPhotos", {"detect", "face", "flag"}) /\ p = task.cur
      BY <1>2, <2>1 DEF Tagging, Running
    <3> QED BY <1>2, <1>e, <3>1, <3>2 DEF PhotosQuiet, PhotoQuiet
  <2>2. CASE Worker /\ UNCHANGED plan /\ plan # <<>> /\ Head(plan) = "tagPhotos"
    <3>0. ~EndPass
      BY <2>0 DEF EndPass, Idle
    <3>1. \A S, x : ~Goes([Idle EXCEPT !.pc = "classify", !.todo = S, !.ctx = x])
      BY <2>0 DEF Goes, Idle
    <3>2. \A S : ~NextOf(S, "classify")
      BY <3>0, <3>1 DEF NextOf
    <3>3. Classify \/ DetectFaces \/ InsertFace
      BY <2>2, <3>0, <3>2, StepsOfPasses DEF GetUntaggedImages, UpdateImageTagged, ClassifyFails
    <3>4. CASE Classify
      <4>1. PICK q \in task.todo :
              /\ Goes([task EXCEPT !.cur = q, !.pc = IF Person \in ObjectsIn[file[q]] THEN "detect" ELSE "flag"])
              /\ photo' = IF q \in PhotoRows THEN [photo EXCEPT ![q].objects = @ \cup ObjectsIn[file[q]]] ELSE photo
        BY <1>c, <3>4 DEF Classify
      <4>2. p = q
        BY <1>2, <1>b, <4>1 DEF Goes, TaskColumns
      <4>3. photo[p] # None /\ photo'[p] = [photo[p] EXCEPT !.objects = @ \cup ObjectsIn[file[p]]]
        BY <1>2, <4>1, <4>2 DEF PhotoRows, MediaInv, RowsOK
      <4>4. photo'[p].objects = photo[p].objects \cup ObjectsIn[file[p]]
        BY <1>a, <4>3 DEF IsPhotoRow, PhotoColumns
      <4> QED BY <1>d, <4>3, <4>4
    <3>5. CASE DetectFaces \/ InsertFace
      <4>1. photo' = photo /\ task.pc \in {"detect", "face"} /\ Running("tagPhotos")
        BY <3>5 DEF DetectFaces, InsertFace, photoVars, At, Running
      <4>2. task'.cur = task.cur
        BY <1>b, <3>0, <3>5 DEF DetectFaces, InsertFace, Goto, Goes, TaskColumns
      <4> QED BY <1>2, <1>e, <4>1, <4>2 DEF Tagging
    <3> QED BY <3>3, <3>4, <3>5
  <2> QED BY <2>0, <2>1, <2>2, PassesAreRun
<1> QED BY <1>1, <1>2, <1>c

(* A keyframe marked as embedded has a vector, and those about to be       *)
(* marked have one.                                                        *)
EmbeddedVideos ==
    /\ \A v \in VideoRows : \A k \in DOMAIN video[v].frames :
          video[v].frames[k].embedded => video[v].frames[k].vector # None
    /\ At("embedFrames", "mark") =>
          \A f \in task.got : f[1] \in VideoRows /\ f[2] \in DOMAIN video[f[1]].frames =>
              video[f[1]].frames[f[2]].vector # None

LEMMA EmbeddedVideosStart == ASSUME Init PROVE EmbeddedVideos
BY DEF Init, MediaInit, VideoInit, EmbeddedVideos, VideoRows, At

(* Nobody but the worker inserts a video or adds frames to one.            *)
LEMMA RequestsAddNoFrames ==
    ASSUME NullHasNoColumns, MediaInv, Requests \/ UNCHANGED vars, NEW v \in Videos, video'[v] # None
    PROVE  video[v] # None /\ SameFrames(video[v], video'[v])
<1>a. DOMAIN video = Videos /\ \A w \in Videos : video[w] # None => IsVideoRow(video[w])
  BY DEF MediaInv, RowsOK, VideoRows
<1>1. CASE ToggleVideoFavourite
  <2>1. PICK w \in VideoRows : video' = [video EXCEPT ![w].favourite = ~@]
    BY <1>1 DEF ToggleVideoFavourite
  <2> DEFINE new == [video[w] EXCEPT !.favourite = ~@]
  <2>2. w \in Videos /\ video[w] # None /\ video' = [video EXCEPT ![w] = new]
    BY <2>1 DEF VideoRows
  <2>3. new.frames = video[w].frames
    BY <1>a, <2>2 DEF IsVideoRow, VideoColumns
  <2> HIDE DEF new
  <2>4. video'[w] = new /\ \A u \in Videos : u # w => video'[u] = video[u]
    BY <1>a, <2>2
  <2> QED BY <2>2, <2>3, <2>4 DEF SameFrames
<1>2. CASE FolderDeleted
  BY <1>2 DEF FolderDeleted
<1>3. CASE ClearFramePaths
  <2>1. CASE video' = [u \in Videos |-> IF u \notin VideoRows THEN None
                          ELSE [video[u] EXCEPT !.frames = [k \in DOMAIN @ |-> ClearedFrame(@[k])]]]
    <3>1. v \in VideoRows /\ video[v] # None
      BY <2>1 DEF VideoRows
    <3> DEFINE x == [k \in DOMAIN video[v].frames |-> ClearedFrame(video[v].frames[k])]
    <3>2. video'[v].frames = x /\ IsVideoRow(video[v])
      BY <1>a, <2>1, <3>1 DEF IsVideoRow, VideoColumns
    <3>3. \A k \in DOMAIN video[v].frames : \A c \in {"idx", "embedded", "vector", "stamp"} :
             x[k][c] = video[v].frames[k][c]
      BY <3>2 DEF ClearedFrame, IsVideoRow, AreFrames, FrameColumns
    <3> QED BY <3>1, <3>2, <3>3 DEF SameFrames
  <2> QED BY <1>3, <2>1 DEF ClearFramePaths, SameFrames
<1>4. CASE UNCHANGED video
  BY <1>4 DEF SameFrames
<1> QED BY <1>1, <1>2, <1>3, <1>4
        DEF Requests, vars, videoVars, FolderSequence, ModelsInstalled, IntervalChanges, PurgeFiles

LEMMA EmbeddedVideosStep ==
    ASSUME NullHasNoColumns, MediaInv, EmbeddedVideos, [Next]_vars PROVE EmbeddedVideos'
<1>a. TaskColumns \subseteq DOMAIN task
  BY DEF MediaInv, TaskOK
<1>b. \A v \in Videos : video[v] # None =>
         \A k \in DOMAIN video[v].frames : video[v].frames[k].embedded => video[v].frames[k].vector # None
  BY DEF EmbeddedVideos, VideoRows
<1>1. ASSUME NEW v \in Videos, video'[v] # None, NEW k \in DOMAIN video'[v].frames, video'[v].frames[k].embedded
      PROVE  video'[v].frames[k].vector # None
  <2> DEFINE a == video[v]
             b == video'[v]
  <2>0. video[v] # None => \A j \in DOMAIN a.frames : a.frames[j].embedded => a.frames[j].vector # None
    BY <1>b
  <2>1. CASE VideosQuiet
    <3>1. video[v] # None /\ SameFrames(a, b)
      BY <1>1, <2>1 DEF VideosQuiet
    <3> QED BY <1>1, <2>0, <3>1 DEF SameFrames
  <2>2. CASE InsertFrames
    <3>1. FramesExtended
      BY <2>2, FramesAreInserted
    <3>2. CASE b = a
      BY <1>1, <2>0, <3>2
    <3>3. CASE video[v] # None /\ Extends(a.frames, b.frames)
      BY <1>1, <2>0, <3>3 DEF Extends
    <3> QED BY <3>1, <3>2, <3>3 DEF FramesExtended
  <2>3. CASE EmbedFrames
    <3>1. b = a \/ (video[v] # None /\ Revectored(a, b))
      BY <1>1, <2>3, VectorsAreStored DEF VideoRows
    <3> QED BY <1>1, <2>0, <3>1 DEF Revectored
  <2>4. CASE MarkFramesEmbedded
    <3>1. FramesMarked
      BY <2>4, FramesAreMarked
    <3>2. CASE b = a
      BY <1>1, <2>0, <3>2
    <3>3. CASE video[v] # None /\ DOMAIN b.frames = DOMAIN a.frames /\ b.frames[k].vector = a.frames[k].vector
      <4>1. CASE b.frames[k].embedded = a.frames[k].embedded
        BY <1>1, <2>0, <3>3, <4>1
      <4>2. CASE \E f \in task.got : f[1] = v /\ f[2] = k
        BY <1>1, <2>4, <3>3, <4>2 DEF EmbeddedVideos, MarkFramesEmbedded, VideoRows
      <4>3. \/ b.frames[k].embedded = a.frames[k].embedded
            \/ \E f \in task.got : f[1] = v /\ f[2] = k
            \/ b = a
        BY <1>1, <3>1, <3>3 DEF FramesMarked
      <4> QED BY <3>2, <4>1, <4>2, <4>3
    <3> QED BY <1>1, <3>1, <3>2, <3>3 DEF FramesMarked
  <2>5. CASE WriteVideoScores
    <3>1. CASE video[v] # None /\ Relabelled(a, b, task.got, task.ctx)
      BY <1>1, <2>0, <3>1 DEF Relabelled
    <3>2. CASE b = a
      BY <1>1, <2>0, <3>2
    <3> QED BY <1>1, <2>5, <3>1, <3>2, ScoresAreWritten DEF VideoRows
  <2> QED BY <2>1, <2>2, <2>3, <2>4, <2>5, OthersLeaveFrames DEF FramesTouched
<1>2. ASSUME At("embedFrames", "mark")', NEW f \in task'.got, f[1] \in Videos, video'[f[1]] # None,
             f[2] \in DOMAIN video'[f[1]].frames
      PROVE  video'[f[1]].frames[f[2]].vector # None
  <2>0. Running("embedFrames")' /\ task'.pc = "mark"
    BY <1>2 DEF Running, At
  <2>1. CASE (Requests \/ UNCHANGED vars) /\ UNCHANGED <<plan, task>>
    <3>1. video[f[1]] # None /\ SameFrames(video[f[1]], video'[f[1]])
      BY <1>2, <2>1, RequestsAddNoFrames
    <3>2. f \in task.got /\ At("embedFrames", "mark")
      BY <1>2, <2>1 DEF At
    <3> QED BY <1>2, <3>1, <3>2 DEF SameFrames, EmbeddedVideos, VideoRows
  <2>2. CASE Worker /\ UNCHANGED plan /\ Head(plan) = "embedFrames"
    <3>0. ~EndPass
      BY <2>0 DEF EndPass, Idle
    <3>1. \A S, x : ~Goes([Idle EXCEPT !.pc = "embed", !.todo = S, !.ctx = x])
      BY <2>0 DEF Goes, Idle
    <3>2. \A S : ~NextOf(S, "embed")
      BY <3>0, <3>1 DEF NextOf
    <3>3. EmbedFrames
      BY <2>2, <3>2, StepsOfPasses DEF GetUnembeddedFrames, MarkFramesEmbedded
    <3>4. /\ \A v \in Videos : IF v \in VideoRows THEN video'[v] # None => Revectored(video[v], video'[v])
                                                  ELSE video'[v] = None
          /\ \A g \in task'.got : g[1] \in VideoRows /\ g[2] \in DOMAIN video[g[1]].frames =>
                    video'[g[1]].frames[g[2]].vector # None
      BY <2>0, <3>3, VectorsAreStored
    <3>5. f[1] \in VideoRows /\ Revectored(video[f[1]], video'[f[1]])
      BY <1>2, <3>4
    <3> QED BY <1>2, <3>4, <3>5 DEF Revectored
  <2> QED BY <2>0, <2>1, <2>2, PassesAreRun
<1> QED BY <1>1, <1>2 DEF EmbeddedVideos, VideoRows

(* What steps other than those of tagging do to a video's flag, objects    *)
(* and number of frames.                                                   *)
VideoKept(old, new) ==
    \/ new = None
    \/ old = None /\ ~new.tagged
    \/ /\ old # None /\ new.tagged = old.tagged /\ new.objects = old.objects
       /\ DOMAIN new.frames = DOMAIN old.frames

VideosKept == \A v \in Videos : VideoKept(video[v], video'[v])

TagsAVideo == DeleteFrames \/ InsertFrames \/ WriteVideoClasses \/ MarkVideoTagged

LEMMA OthersKeepVideos == ASSUME MediaInv, [Next]_vars PROVE TagsAVideo \/ VideosKept
<1>a. DOMAIN video = Videos /\ \A v \in Videos : video[v] # None => IsVideoRow(video[v])
  BY DEF MediaInv, RowsOK, VideoRows
<1>1. ASSUME UNCHANGED video PROVE VideosKept
  BY <1>1 DEF VideosKept, VideoKept
<1>2. ASSUME NEW row, row # None, IsVideoRow(row), NEW x, DOMAIN x = DOMAIN row.frames
      PROVE  VideoKept(row, [row EXCEPT !.frames = x])
  BY <1>2 DEF VideoKept, IsVideoRow, VideoColumns
<1>3. ASSUME NEW v \in Videos, NEW new, video' = [video EXCEPT ![v] = new], VideoKept(video[v], new)
      PROVE  VideosKept
  <2>1. video'[v] = new /\ \A w \in Videos : w # v => video'[w] = video[w]
    BY <1>a, <1>3
  <2> QED BY <1>3, <2>1 DEF VideosKept, VideoKept
<1>4. CASE RemoveObsoleteVideos
  BY <1>4 DEF RemoveObsoleteVideos, VideosKept, VideoKept
<1>5. CASE BulkInsertVideos
  <2>1. CASE video' = [v \in Videos |-> IF v \in DOMAIN task.recs
                                           THEN UpsertedVideo(video[v], task.recs[v]) ELSE video[v]]
    <3>1. ASSUME NEW v \in Videos PROVE VideoKept(video[v], UpsertedVideo(video[v], task.recs[v]))
      <4>1. CASE video[v] = None
        BY <4>1 DEF UpsertedVideo, NewVideo, VideoKept
      <4>2. CASE video[v] # None
        BY <1>a, <4>2 DEF UpsertedVideo, VideoKept, IsVideoRow, VideoColumns
      <4> QED BY <4>1, <4>2
    <3>2. \A row : VideoKept(row, row)
      BY DEF VideoKept
    <3> QED BY <2>1, <3>1, <3>2 DEF VideosKept
  <2> QED BY <1>1, <1>5, <2>1 DEF BulkInsertVideos
<1>6. CASE EmbedFrames
  <2>1. UNCHANGED video \/ \E good : video' = ForFrames(good, NewVector)
    BY <1>6 DEF EmbedFrames
  <2>2. ASSUME NEW good, video' = ForFrames(good, NewVector), NEW v \in Videos PROVE VideoKept(video[v], video'[v])
    <3>1. CASE v \in VideoRows
      <4> DEFINE x == [k \in DOMAIN video[v].frames |->
                          IF \E f \in good : f[1] = v /\ f[2] = k
                          THEN NewVector(video[v].frames[k], <<v, k, video[v].frames[k].idx>>) ELSE video[v].frames[k]]
      <4>1. video'[v] = [video[v] EXCEPT !.frames = x]
        BY <1>a, <2>2, <3>1 DEF ForFrames, IsVideoRow, VideoColumns, VideoRows
      <4>2. DOMAIN x = DOMAIN video[v].frames
        OBVIOUS
      <4> HIDE DEF x
      <4> QED BY <1>a, <1>2, <3>1, <4>1, <4>2 DEF VideoRows
    <3>2. CASE v \notin VideoRows
      BY <2>2, <3>2 DEF ForFrames, VideoKept
    <3> QED BY <3>1, <3>2
  <2> QED BY <1>1, <2>1, <2>2 DEF VideosKept
<1>7. CASE MarkFramesEmbedded
  <2>2. ASSUME video' = ForFrames(task.got, MarkedFrame), NEW v \in Videos PROVE VideoKept(video[v], video'[v])
    <3>1. CASE v \in VideoRows
      <4> DEFINE x == [k \in DOMAIN video[v].frames |->
                          IF \E f \in task.got : f[1] = v /\ f[2] = k
                          THEN MarkedFrame(video[v].frames[k], <<v, k, video[v].frames[k].idx>>) ELSE video[v].frames[k]]
      <4>1. video'[v] = [video[v] EXCEPT !.frames = x]
        BY <1>a, <2>2, <3>1 DEF ForFrames, IsVideoRow, VideoColumns, VideoRows
      <4>2. DOMAIN x = DOMAIN video[v].frames
        OBVIOUS
      <4> HIDE DEF x
      <4> QED BY <1>a, <1>2, <3>1, <4>1, <4>2 DEF VideoRows
    <3>2. CASE v \notin VideoRows
      BY <2>2, <3>2 DEF ForFrames, VideoKept
    <3> QED BY <3>1, <3>2
  <2> QED BY <1>1, <1>7, <2>2 DEF MarkFramesEmbedded, VideosKept
<1>8. CASE WriteVideoScores
  <2>1. CASE task.cur \in VideoRows /\ video' = [video EXCEPT ![task.cur] = Scored(video[task.cur], task.got, task.ctx)]
    <3>1. task.cur \in Videos /\ video[task.cur] # None /\ IsVideoRow(video[task.cur])
      BY <1>a, <2>1 DEF VideoRows
    <3>2. VideoKept(video[task.cur], Scored(video[task.cur], task.got, task.ctx))
      BY <3>1 DEF Scored, VideoKept, IsVideoRow, VideoColumns
    <3> QED BY <1>3, <2>1, <3>1, <3>2
  <2> QED BY <1>1, <1>8, <2>1 DEF WriteVideoScores
<1>9. CASE PrepareVideos \/ RemoveObsoleteFiles \/ RemovePosters \/ GetUntaggedVideos \/ ExtractFrames
            \/ GetUnembeddedFrames(installed)
  BY <1>1, <1>9 DEF PrepareVideos, RemoveObsoleteFiles, RemovePosters, GetUntaggedVideos, ExtractFrames,
                     GetUnembeddedFrames, videoVars
<1>10. CASE LabelStep /\ ~WriteVideoScores
  BY <1>1, <1>10 DEF LabelStep, BuildLabelEmbeddings, LoadContext, ReadUnscoredImages, WriteImageScores,
                     ReadUnscoredVideos, ScoreFrames, videoVars
<1>11. CASE FolderDeleted
  BY <1>11 DEF FolderDeleted, VideosKept, VideoKept
<1>12. CASE ToggleVideoFavourite
  <2>1. PICK v \in VideoRows : video' = [video EXCEPT ![v].favourite = ~@]
    BY <1>12 DEF ToggleVideoFavourite
  <2> DEFINE new == [video[v] EXCEPT !.favourite = ~@]
  <2>2. v \in Videos /\ video[v] # None /\ video' = [video EXCEPT ![v] = new]
    BY <2>1 DEF VideoRows
  <2>3. VideoKept(video[v], new)
    BY <1>a, <2>2 DEF VideoKept, IsVideoRow, VideoColumns
  <2> HIDE DEF new
  <2> QED BY <1>3, <2>2, <2>3
<1>13. CASE ClearFramePaths
  <2>1. ASSUME video' = [v \in Videos |-> IF v \notin VideoRows THEN None
                          ELSE [video[v] EXCEPT !.frames = [k \in DOMAIN @ |-> ClearedFrame(@[k])]]],
               NEW v \in VideoRows
        PROVE  VideoKept(video[v], video'[v])
    <3> DEFINE x == [k \in DOMAIN video[v].frames |-> ClearedFrame(video[v].frames[k])]
    <3>1. video'[v] = [video[v] EXCEPT !.frames = x] /\ DOMAIN x = DOMAIN video[v].frames
      BY <1>a, <2>1 DEF IsVideoRow, VideoColumns, VideoRows
    <3> HIDE DEF x
    <3> QED BY <1>a, <1>2, <3>1 DEF VideoRows
  <2>2. ASSUME video' = [v \in Videos |-> IF v \notin VideoRows THEN None
                          ELSE [video[v] EXCEPT !.frames = [k \in DOMAIN @ |-> ClearedFrame(@[k])]]],
               NEW v \in Videos, v \notin VideoRows
        PROVE  VideoKept(video[v], video'[v])
    BY <2>2 DEF VideoKept
  <2> QED BY <1>1, <1>13, <2>1, <2>2 DEF ClearFramePaths, VideosKept
<1>14. CASE UNCHANGED videoVars \/ UNCHANGED vars \/ Crash
  BY <1>1, <1>14 DEF Crash, vars, videoVars
<1>15. CASE FolderSequence \/ ModelsInstalled \/ IntervalChanges \/ PurgeFiles
  BY <1>1, <1>15 DEF FolderSequence, ModelsInstalled, IntervalChanges, PurgeFiles, videoVars
<1> QED BY <1>4, <1>5, <1>6, <1>7, <1>8, <1>9, <1>10, <1>11, <1>12, <1>13, <1>14, <1>15
       DEF Next, Worker, VideoStep, Requests, TagsAVideo

(* What detection shows on keyframes of some content.                      *)
ClassesOf(c, D) == AggregateClasses([i \in D |-> FrameObjects[c][i]])

(* While nothing interferes, a tagged video that can be read has the       *)
(* classes of its keyframes; and what the tagging of a video has done so   *)
(* far is there: the files of the keyframes, as many rows as files, and    *)
(* the classes before the flag.                                            *)
ShownVideos ==
    Undisturbed =>
        /\ \A v \in VideoRows : video[v].tagged /\ CvReads(file[v]) =>
              video[v].objects = ClassesOf(file[v], DOMAIN video[v].frames)
        /\ Tagging("tagVideos", {"deleteFrames", "insertFrames", "classes"}) =>
              /\ CvReads(file[task.cur]) /\ task.got \in Nat
              /\ jpegs[task.cur] = {<<i, file[task.cur]>> : i \in 1..task.got}
        /\ Tagging("tagVideos", {"insertFrames"}) /\ task.cur \in VideoRows => DOMAIN video[task.cur].frames = {}
        /\ Tagging("tagVideos", {"classes"}) /\ task.cur \in VideoRows =>
              DOMAIN video[task.cur].frames = 1..task.got
        /\ Tagging("tagVideos", {"flag"}) /\ task.cur \in VideoRows /\ CvReads(file[task.cur]) =>
              video[task.cur].objects = ClassesOf(file[task.cur], DOMAIN video[task.cur].frames)

LEMMA ShownVideosStart == ASSUME Init PROVE ShownVideos
BY DEF Init, MediaInit, VideoInit, ShownVideos, VideoRows, Tagging, Running

(* The steps of tagging a video, on its row, when no statement fails.      *)
LEMMA VideoIsTagged ==
    ASSUME NullHasNoColumns, MediaInv, CountOK, ShownVideos, Undisturbed, ~Fails, TagsAVideo
    PROVE  /\ task.pc \in {"deleteFrames", "insertFrames", "classes"} => task.cur \in Videos
           /\ \A v \in Videos : v # task.cur => video'[v] = video[v]
           /\ task.cur \in Videos /\ task.cur \notin VideoRows => video'[task.cur] = None
           /\ task.cur \in VideoRows =>
                /\ DeleteFrames => ~video'[task.cur].tagged /\ DOMAIN video'[task.cur].frames = {}
                /\ InsertFrames => ~video'[task.cur].tagged /\ DOMAIN video'[task.cur].frames = 1..task.got
                /\ WriteVideoClasses =>
                     /\ ~video'[task.cur].tagged /\ DOMAIN video'[task.cur].frames = DOMAIN video[task.cur].frames
                     /\ video'[task.cur].objects = AggregateClasses(SeenIn(task.cur))
                /\ MarkVideoTagged =>
                     /\ DOMAIN video'[task.cur].frames = DOMAIN video[task.cur].frames
                     /\ video'[task.cur].objects = video[task.cur].objects
<1>a. DOMAIN video = Videos /\ \A w \in Videos : video[w] # None => IsVideoRow(video[w])
  BY DEF MediaInv, RowsOK, VideoRows
<1>1. task.pc \in {"deleteFrames", "insertFrames", "classes"} => task.cur \in Videos /\ VideoUntagged(task.cur)
  BY DEF TagsAVideo, DeleteFrames, InsertFrames, WriteVideoClasses, MarkVideoTagged, At,
         MediaInv, TaskOK, TaggingVideos, Running
<1>2. CASE task.cur \notin VideoRows
  <2>1. video' = video
    BY <1>2 DEF TagsAVideo, DeleteFrames, InsertFrames, WriteVideoClasses, MarkVideoTagged, SetCurrent
  <2> QED BY <1>1, <1>2, <2>1 DEF VideoRows
<1>3. CASE task.cur \in VideoRows
  <2> DEFINE row == video[task.cur]
  <2>0. task.cur \in Videos /\ row # None /\ IsVideoRow(row)
    BY <1>a, <1>3 DEF VideoRows
  <2>1. ASSUME NEW new, video' = [video EXCEPT ![task.cur] = new]
        PROVE  video'[task.cur] = new /\ \A v \in Videos : v # task.cur => video'[v] = video[v]
    BY <1>a, <2>0, <2>1
  <2>2. CASE DeleteFrames
    <3> DEFINE new == WithoutFrames(row)
    <3>1. video' = [video EXCEPT ![task.cur] = new] /\ task.pc = "deleteFrames"
      BY <1>3, <2>2 DEF DeleteFrames, SetCurrent, At
    <3>2. ~new.tagged /\ DOMAIN new.frames = {}
      BY <1>1, <2>0, <3>1 DEF WithoutFrames, IsVideoRow, VideoColumns, VideoUntagged
    <3>3. ~InsertFrames /\ ~WriteVideoClasses /\ ~MarkVideoTagged
      BY <3>1 DEF InsertFrames, WriteVideoClasses, MarkVideoTagged, At
    <3> HIDE DEF new
    <3> QED BY <1>1, <1>3, <2>1, <3>1, <3>2, <3>3
  <2>3. CASE InsertFrames
    <3> DEFINE new == WithFrames(row)
    <3>1. video' = [video EXCEPT ![task.cur] = new] /\ task.pc = "insertFrames"
      BY <1>3, <2>3 DEF InsertFrames, SetCurrent, At
    <3>2. task.got \in Nat /\ DOMAIN row.frames = {}
      BY <1>3, <2>3 DEF InsertFrames, At, ShownVideos, Tagging, Running
    <3>3. DOMAIN new.frames = 1..task.got
      BY <2>0, <3>2, FirstSample
    <3>4. ~new.tagged
      BY <1>1, <2>0, <3>1 DEF WithFrames, IsVideoRow, VideoColumns, VideoUntagged
    <3>5. ~DeleteFrames /\ ~WriteVideoClasses /\ ~MarkVideoTagged
      BY <3>1 DEF DeleteFrames, WriteVideoClasses, MarkVideoTagged, At
    <3> HIDE DEF new
    <3> QED BY <1>1, <1>3, <2>1, <3>1, <3>3, <3>4, <3>5
  <2>4. CASE WriteVideoClasses
    <3> DEFINE classes == AggregateClasses(SeenIn(task.cur))
               new == [row EXCEPT !.objects = classes]
    <3>1. video' = [video EXCEPT ![task.cur] = new] /\ task.pc = "classes"
      BY <1>3, <2>4 DEF WriteVideoClasses, SetCurrent, At
    <3>2. ~new.tagged /\ new.frames = row.frames /\ new.objects = classes
      BY <1>1, <2>0, <3>1 DEF IsVideoRow, VideoColumns, VideoUntagged
    <3>3. ~DeleteFrames /\ ~InsertFrames /\ ~MarkVideoTagged
      BY <3>1 DEF DeleteFrames, InsertFrames, MarkVideoTagged, At
    <3> HIDE DEF new
    <3> QED BY <1>1, <1>3, <2>1, <3>1, <3>2, <3>3
  <2>5. CASE MarkVideoTagged
    <3> DEFINE new == FlaggedVideo(row)
    <3>1. video' = [video EXCEPT ![task.cur] = new] /\ task.pc = "flag"
      BY <1>3, <2>5 DEF MarkVideoTagged, SetCurrent, At
    <3>2. new.frames = row.frames /\ new.objects = row.objects
      BY <2>0 DEF FlaggedVideo, IsVideoRow, VideoColumns
    <3>3. ~DeleteFrames /\ ~InsertFrames /\ ~WriteVideoClasses
      BY <3>1 DEF DeleteFrames, InsertFrames, WriteVideoClasses, At
    <3> HIDE DEF new
    <3> QED BY <1>1, <1>3, <2>1, <3>1, <3>2, <3>3
  <2> QED BY <2>2, <2>3, <2>4, <2>5 DEF TagsAVideo
<1> QED BY <1>2, <1>3

(* What is detected on the keyframes that lie on disk.                     *)
LEMMA KeyframesAreRead ==
    ASSUME NEW v, jpegs[v] = {<<i, file[v]>> : i \in 1..task.got}, task.got \in Nat
    PROVE  AggregateClasses(SeenIn(v)) = ClassesOf(file[v], 1..task.got)
<1>1. ASSUME NEW i \in 1..task.got PROVE {g \in jpegs[v] : g[1] = i} = {<<i, file[v]>>}
  OBVIOUS
<1>2. ASSUME NEW i \in 1..task.got
      PROVE  UNION {FrameObjects[f[2]][i] : f \in {g \in jpegs[v] : g[1] = i}} = FrameObjects[file[v]][i]
  <2> DEFINE x == FrameObjects[file[v]][i]
  <2>1. {FrameObjects[f[2]][i] : f \in {<<i, file[v]>>}} = {x}
    OBVIOUS
  <2>2. \A y : UNION {y} = y
    OBVIOUS
  <2> HIDE DEF x
  <2>3. UNION {FrameObjects[f[2]][i] : f \in {<<i, file[v]>>}} = x
    BY <2>1, <2>2
  <2> QED BY <1>1, <2>3 DEF x
<1>3. SeenIn(v) = [i \in 1..task.got |-> FrameObjects[file[v]][i]]
  BY <1>2 DEF SeenIn
<1> QED BY <1>3 DEF ClassesOf

(* Others leave the place of tagging, and the files, alone.                *)
LEMMA RequestsKeepJpegs ==
    ASSUME Requests \/ UNCHANGED vars, ~Happens PROVE UNCHANGED jpegs
BY DEF Requests, vars, videoVars, FolderSequence, ModelsInstalled, FolderDeleted, FileChanges, FolderToggles,
       ToggleImageFavourite, ToggleVideoFavourite, IntervalChanges, PurgeFiles, ClearFramePaths

LEMMA ShownVideosStep ==
    ASSUME NullHasNoColumns, MediaInv, CountOK, ShownVideos, [Next]_vars PROVE ShownVideos'
<1> SUFFICES ASSUME Undisturbed'
             PROVE  /\ \A v \in Videos : video'[v] # None /\ video'[v].tagged /\ CvReads(file'[v]) =>
                          video'[v].objects = ClassesOf(file'[v], DOMAIN video'[v].frames)
                    /\ Running("tagVideos")' =>
                         /\ task'.pc \in {"deleteFrames", "insertFrames", "classes"} =>
                              /\ CvReads(file'[task'.cur]) /\ task'.got \in Nat
                              /\ jpegs'[task'.cur] = {<<i, file'[task'.cur]>> : i \in 1..task'.got}
                         /\ task'.cur \in Videos /\ video'[task'.cur] # None =>
                              /\ task'.pc = "insertFrames" => DOMAIN video'[task'.cur].frames = {}
                              /\ task'.pc = "classes" => DOMAIN video'[task'.cur].frames = 1..task'.got
                              /\ task'.pc = "flag" /\ CvReads(file'[task'.cur]) =>
                                   video'[task'.cur].objects = ClassesOf(file'[task'.cur], DOMAIN video'[task'.cur].frames)
  BY DEF ShownVideos, Tagging, VideoRows
<1>a. TaskColumns \subseteq DOMAIN task /\ DOMAIN jpegs = Videos
  BY DEF MediaInv, TaskOK, RowsOK
<1>b. Undisturbed /\ ~Fails /\ ~Happens /\ file' = file
  BY NothingHappened
<1>1. \A v \in Videos : video[v] # None /\ video[v].tagged /\ CvReads(file[v]) =>
          video[v].objects = ClassesOf(file[v], DOMAIN video[v].frames)
  BY <1>b DEF ShownVideos, VideoRows
<1>2. Running("tagVideos") =>
         /\ task.pc \in {"deleteFrames", "insertFrames", "classes"} =>
              /\ CvReads(file[task.cur]) /\ task.got \in Nat
              /\ jpegs[task.cur] = {<<i, file[task.cur]>> : i \in 1..task.got}
         /\ task.cur \in Videos /\ video[task.cur] # None =>
              /\ task.pc = "insertFrames" => DOMAIN video[task.cur].frames = {}
              /\ task.pc = "classes" => DOMAIN video[task.cur].frames = 1..task.got
              /\ task.pc = "flag" /\ CvReads(file[task.cur]) =>
                   video[task.cur].objects = ClassesOf(file[task.cur], DOMAIN video[task.cur].frames)
  BY <1>b DEF ShownVideos, Tagging, VideoRows
<1>3. ASSUME NEW v \in Videos, video'[v] # None, video'[v].tagged, CvReads(file[v])
      PROVE  video'[v].objects = ClassesOf(file[v], DOMAIN video'[v].frames)
  <2>1. CASE VideosKept
    BY <1>1, <1>3, <2>1 DEF VideosKept, VideoKept
  <2>2. CASE TagsAVideo /\ v # task.cur
    BY <1>1, <1>3, <1>b, <2>2, VideoIsTagged
  <2>3. CASE TagsAVideo /\ v = task.cur
    <3>1. v \in VideoRows /\ MarkVideoTagged
      BY <1>3, <1>b, <2>3, VideoIsTagged DEF TagsAVideo
    <3>2. Running("tagVideos") /\ task.pc = "flag" /\ video[v] # None
      BY <3>1 DEF MarkVideoTagged, At, Running, VideoRows
    <3>3. /\ DOMAIN video'[v].frames = DOMAIN video[v].frames
          /\ video'[v].objects = video[v].objects
      BY <1>b, <2>3, <3>1, VideoIsTagged
    <3> QED BY <1>2, <1>3, <2>3, <3>2, <3>3
  <2> QED BY <2>1, <2>2, <2>3, OthersKeepVideos
<1>4. ASSUME Running("tagVideos")'
      PROVE  /\ task'.pc \in {"deleteFrames", "insertFrames", "classes"} =>
                  /\ CvReads(file[task'.cur]) /\ task'.got \in Nat
                  /\ jpegs'[task'.cur] = {<<i, file[task'.cur]>> : i \in 1..task'.got}
             /\ task'.cur \in Videos /\ video'[task'.cur] # None =>
                  /\ task'.pc = "insertFrames" => DOMAIN video'[task'.cur].frames = {}
                  /\ task'.pc = "classes" => DOMAIN video'[task'.cur].frames = 1..task'.got
                  /\ task'.pc = "flag" /\ CvReads(file[task'.cur]) =>
                       video'[task'.cur].objects = ClassesOf(file[task'.cur], DOMAIN video'[task'.cur].frames)
  <2>1. CASE (Requests \/ UNCHANGED vars) /\ UNCHANGED <<plan, task>> /\ Running("tagVideos")
    <3>1. UNCHANGED jpegs
      BY <1>b, <2>1, RequestsKeepJpegs
    <3>2. ASSUME NEW v \in Videos, video'[v] # None
          PROVE  /\ video[v] # None /\ DOMAIN video'[v].frames = DOMAIN video[v].frames
                 /\ video'[v].objects = video[v].objects \/ TagsAVideo
      BY <2>1, <3>2, RequestsAddNoFrames, OthersKeepVideos DEF SameFrames, VideosKept, VideoKept
    <3>3. CASE ~TagsAVideo
      BY <1>2, <2>1, <3>1, <3>2, <3>3
    <3>4. CASE TagsAVideo
      <4>1. task.pc # "flag"
        <5>1. MarkVideoTagged => ~UNCHANGED <<plan, task>> \/ task.pc # "flag"
          <6>1. EndPass => task'.pc = "idle"
            BY DEF EndPass, Idle
          <6>2. \A S, x : Goes([Idle EXCEPT !.pc = "extract", !.todo = S, !.ctx = x]) => task'.pc = "extract"
            BY DEF Goes, Idle
          <6> QED BY <6>1, <6>2 DEF MarkVideoTagged, NextOf
        <5> QED BY <2>1, <3>4, <5>1 DEF TagsAVideo, DeleteFrames, InsertFrames, WriteVideoClasses, At
      <4> QED BY <1>2, <2>1, <3>1, <3>2, <4>1
    <3> QED BY <3>3, <3>4
  <2>2. CASE Worker /\ UNCHANGED plan /\ plan # <<>> /\ Head(plan) = "tagVideos"
    <3>0. ~EndPass
      BY <1>4 DEF EndPass, Idle, Running
    <3>1. CASE GetUntaggedVideos
      <4>1. task'.pc = "extract"
        BY <1>a, <3>0, <3>1 DEF GetUntaggedVideos, Goes, TaskColumns
      <4> QED BY <4>1
    <3>2. CASE MarkVideoTagged
      <4>1. \A S, x : Goes([Idle EXCEPT !.pc = "extract", !.todo = S, !.ctx = x]) => task'.pc = "extract"
        BY DEF Goes, Idle
      <4>2. task'.pc = "extract"
        BY <3>0, <3>2, <4>1 DEF MarkVideoTagged, NextOf
      <4> QED BY <4>2
    <3>3. CASE ExtractFrames
      <4>1. PICK v \in task.todo :
          LET n == Cardinality(SampleTimestamps(Duration[file[v]], task.ctx))
          IN  IF CvReads(file[v])
              THEN /\ jpegs' = [jpegs EXCEPT ![v] = {<<i, file[v]>> : i \in 1..n}]
                   /\ Goes([task EXCEPT !.pc = "deleteFrames", !.cur = v, !.got = n])
              ELSE Goes([task EXCEPT !.pc = "flag", !.cur = v])
        BY <3>3 DEF ExtractFrames
      <4>2. v \in Videos
        BY <3>3 DEF ExtractFrames, At, Running, MediaInv, TaskOK, TaggingVideos
      <4> DEFINE n == Cardinality(SampleTimestamps(Duration[file[v]], task.ctx))
      <4>3. n \in Nat
        BY SamplesAreFinite
      <4> HIDE DEF n
      <4>4. CASE CvReads(file[v])
        <5>1. task' = [task EXCEPT !.pc = "deleteFrames", !.cur = v, !.got = n]
          BY <4>1, <4>4 DEF Goes, n
        <5>2. task'.pc = "deleteFrames" /\ task'.cur = v /\ task'.got = n
          BY <1>a, <5>1 DEF TaskColumns
        <5>3. jpegs' = [jpegs EXCEPT ![v] = {<<i, file[v]>> : i \in 1..n}]
          BY <4>1, <4>4 DEF n
        <5>4. jpegs'[v] = {<<i, file[v]>> : i \in 1..n}
          BY <1>a, <4>2, <5>3
        <5> QED BY <4>3, <4>4, <5>2, <5>4
      <4>5. CASE ~CvReads(file[v])
        <5>1. task' = [task EXCEPT !.pc = "flag", !.cur = v]
          BY <4>1, <4>5 DEF Goes
        <5>2. task'.pc = "flag" /\ task'.cur = v
          BY <1>a, <5>1 DEF TaskColumns
        <5> QED BY <4>5, <5>2
      <4> QED BY <4>4, <4>5
    <3>4. CASE DeleteFrames
      <4>1. task'.pc = "insertFrames" /\ task'.cur = task.cur /\ task'.got = task.got /\ jpegs' = jpegs
        BY <1>a, <3>4 DEF DeleteFrames, Goto, Goes, TaskColumns
      <4>2. Running("tagVideos") /\ task.pc = "deleteFrames"
        BY <3>4 DEF DeleteFrames, At, Running
      <4>3. video'[task.cur] # None /\ task.cur \in Videos => DOMAIN video'[task.cur].frames = {}
        BY <1>b, <3>4, VideoIsTagged DEF TagsAVideo
      <4> QED BY <1>2, <4>1, <4>2, <4>3
    <3>5. CASE InsertFrames
      <4>1. task'.pc = "classes" /\ task'.cur = task.cur /\ task'.got = task.got /\ jpegs' = jpegs
        BY <1>a, <3>5 DEF InsertFrames, Goto, Goes, TaskColumns
      <4>2. Running("tagVideos") /\ task.pc = "insertFrames"
        BY <3>5 DEF InsertFrames, At, Running
      <4>3. video'[task.cur] # None /\ task.cur \in Videos => DOMAIN video'[task.cur].frames = 1..task.got
        BY <1>b, <3>5, VideoIsTagged DEF TagsAVideo
      <4> QED BY <1>2, <4>1, <4>2, <4>3
    <3>6. CASE WriteVideoClasses
      <4>1. task'.pc = "flag" /\ task'.cur = task.cur
        BY <1>a, <1>b, <3>0, <3>6 DEF WriteVideoClasses, Goto, Goes, TaskColumns
      <4>2. Running("tagVideos") /\ task.pc = "classes"
        BY <3>6 DEF WriteVideoClasses, At, Running
      <4>3. ASSUME task.cur \in Videos, video'[task.cur] # None
            PROVE  video'[task.cur].objects = ClassesOf(file[task.cur], DOMAIN video'[task.cur].frames)
        <5>1. /\ task.cur \in VideoRows
              /\ DOMAIN video'[task.cur].frames = DOMAIN video[task.cur].frames
              /\ video'[task.cur].objects = AggregateClasses(SeenIn(task.cur))
          BY <1>b, <3>6, <4>3, VideoIsTagged DEF TagsAVideo
        <5>2. DOMAIN video[task.cur].frames = 1..task.got
          BY <1>2, <4>2, <4>3, <5>1 DEF VideoRows
        <5>3. AggregateClasses(SeenIn(task.cur)) = ClassesOf(file[task.cur], 1..task.got)
          BY <1>2, <4>2, KeyframesAreRead
        <5> QED BY <5>1, <5>2, <5>3
      <4> QED BY <4>1, <4>3
    <3> QED BY <2>2, <3>1, <3>2, <3>3, <3>4, <3>5, <3>6, StepsOfPasses
  <2> QED BY <1>4, <2>1, <2>2, PassesAreRun
<1> QED BY <1>3, <1>4, <1>b

(* What is marked as done has its effect in the database, across crashes,  *)
(* failed statements and deletions: an embedded photo or keyframe has its  *)
(* vector, and while nothing interferes a tagged photo or video has the    *)
(* objects that its file shows (images.py, videos.py: the flag is set in a *)
(* statement of its own after those that store what it stands for).        *)
THEOREM FlagsMeanDone == ASSUME NullHasNoColumns PROVE Spec => []FlagsFollowEffects
<1> DEFINE FlagInv == CountOK /\ EmbeddedPhotos /\ ShownPhotos /\ EmbeddedVideos /\ ShownVideos
<1>1. Init => MediaInv /\ FlagInv
  BY MediaStarts, EmbeddedPhotosStart, ShownPhotosStart, EmbeddedVideosStart, ShownVideosStart
<1>2. MediaInv /\ FlagInv /\ [Next]_vars => MediaInv' /\ FlagInv'
  BY MediaSteps, CountsStay, EmbeddedPhotosStep, ShownPhotosStep, EmbeddedVideosStep, ShownVideosStep
<1>3. MediaInv /\ FlagInv => FlagsFollowEffects
  <2> SUFFICES ASSUME MediaInv, FlagInv PROVE FlagsFollowEffects
    OBVIOUS
  <2>1. ASSUME NEW v \in VideoRows
        PROVE  ClassesOf(file[v], DOMAIN video[v].frames)
                 = AggregateClasses([i \in 1..Len(video[v].frames) |-> FrameObjects[file[v]][i]])
    <3>1. PICK S : video[v].frames \in Seq(S)
      BY DEF MediaInv, RowsOK, IsVideoRow, AreFrames, IsSequence
    <3>2. DOMAIN video[v].frames = 1..Len(video[v].frames)
      BY <3>1
    <3> QED BY <3>2 DEF ClassesOf
  <2>2. \A p \in PhotoRows :
          /\ photo[p].embedded => photo[p].vector # None
          /\ photo[p].tagged /\ count.events = 0 /\ count.faults = 0 => photo[p].objects = ObjectsIn[file[p]]
    BY DEF EmbeddedPhotos, ShownPhotos, Undisturbed
  <2>3. \A v \in VideoRows : \A k \in DOMAIN video[v].frames :
          video[v].frames[k].embedded => video[v].frames[k].vector # None
    BY DEF EmbeddedVideos
  <2>4. \A v \in VideoRows : video[v].tagged /\ CvReads(file[v]) /\ count.events = 0 /\ count.faults = 0 =>
          video[v].objects = AggregateClasses([i \in 1..Len(video[v].frames) |-> FrameObjects[file[v]][i]])
    BY <2>1 DEF ShownVideos, Undisturbed
  <2> QED BY <2>2, <2>3, <2>4 DEF FlagsFollowEffects
<1> QED BY <1>1, <1>2, <1>3, PTL DEF Spec

---------------------------------------------------------------------------
(* The rows of photos.                                                     *)

(* What a step does to a photo's row, up to objects, tags and stamps.      *)
PhotoMoves(p, old, new) ==
    \/ new = old
    \/ new = None
    \/ old = None /\ At("scanPhotos", "insert") /\ p \in DOMAIN task.recs /\ new = NewPhoto(task.recs[p])
    \/ /\ old # None /\ At("scanPhotos", "insert") /\ p \in DOMAIN task.recs
       /\ new = [old EXCEPT !.thumb = task.recs[p]]
    \/ /\ old # None
       /\ \/ \E x : new = [old EXCEPT !.objects = x]
          \/ \E x, y : new = [old EXCEPT !.tags = x, !.stamp = y]
          \/ new = [old EXCEPT !.tagged = TRUE]
          \/ new = [old EXCEPT !.embedded = TRUE]
          \/ PilReads(file[p]) /\ new = [old EXCEPT !.vector = file[p]]
          \/ new = [old EXCEPT !.favourite = ~@]

(* No step of the pipeline does more to a row of photos.                 *)
LEMMA PhotosMove == ASSUME MediaInv, [Next]_vars, NEW p \in Photos PROVE PhotoMoves(p, photo[p], photo'[p])
<1>0. DOMAIN photo = Photos
  BY DEF MediaInv, RowsOK
<1>1. ASSUME UNCHANGED photo PROVE PhotoMoves(p, photo[p], photo'[p])
  BY <1>1 DEF PhotoMoves
<1>2. CASE PhotosTouched
  BY <1>2, PhotosAreTouched DEF PhotoMoves
<1>3. CASE PrepareImages \/ RemoveObsoleteImages \/ GetUntaggedImages \/ ClassifyFails \/ DetectFaces
           \/ InsertFace \/ GetUnembeddedImages(installed)
  BY <1>1, <1>3 DEF PrepareImages, RemoveObsoleteImages, GetUntaggedImages, ClassifyFails, DetectFaces, InsertFace,
                    GetUnembeddedImages, photoVars
<1>4. CASE DeleteImages
  <2>1. CASE Delete(task.todo)
    BY <2>1 DEF Delete, PhotoMoves
  <2> QED BY <1>1, <1>4, <2>1 DEF DeleteImages, photoVars
<1>5. CASE BulkInsertImages
  <2>1. CASE photo' = [q \in Photos |-> IF folder # "gone" /\ q \in DOMAIN task.recs
                                           THEN Upserted(photo[q], task.recs[q]) ELSE photo[q]]
    <3>1. photo'[p] = photo[p] \/ (p \in DOMAIN task.recs /\ photo'[p] = Upserted(photo[p], task.recs[p]))
      BY <2>1
    <3> QED BY <1>5, <3>1 DEF BulkInsertImages, Upserted, PhotoMoves
  <2> QED BY <1>1, <1>5, <2>1 DEF BulkInsertImages
<1>6. CASE VideoStep(installed) /\ UNCHANGED photoVars
  BY <1>1, <1>6 DEF photoVars
<1>7. CASE LabelStep /\ ~WriteImageScores
  BY <1>1, <1>7 DEF LabelStep, BuildLabelEmbeddings, LoadContext, ReadUnscoredImages,
                ReadUnscoredVideos, ScoreFrames, WriteVideoScores, photoVars
<1>8. CASE WriteImageScores
  <2>1. CASE photo' = [q \in Photos |-> IF q \in DOMAIN task.got \cap PhotoRows
                              THEN [photo[q] EXCEPT !.tags = task.got[q], !.stamp = task.ctx] ELSE photo[q]]
    <3>1. photo'[p] = photo[p] \/ (photo[p] # None /\ \E x, y : photo'[p] = [photo[p] EXCEPT !.tags = x, !.stamp = y])
      BY <2>1 DEF PhotoRows
    <3> QED BY <3>1 DEF PhotoMoves
  <2> QED BY <1>1, <1>8, <2>1 DEF WriteImageScores
<1>9. CASE ToggleImageFavourite
  BY <1>0, <1>9 DEF ToggleImageFavourite, PhotoMoves, PhotoRows
<1>10. CASE FolderDeleted
  BY <1>10 DEF FolderDeleted, Delete, PhotoMoves
<1>11. CASE (Requests /\ ~ToggleImageFavourite /\ ~FolderDeleted) \/ Crash \/ UNCHANGED vars
  BY <1>1, <1>11 DEF Requests, Crash, vars, photoVars, FolderSequence, ModelsInstalled
<1> QED BY <1>2, <1>3, <1>4, <1>5, <1>6, <1>7, <1>8, <1>9, <1>10, <1>11 DEF Next, Worker, PhotoStep, PhotosTouched

(* What is on disk, and what the passes and preferences are.               *)
SettingsOK ==
    /\ plan \in Seq(Passes) /\ folder \in {"plain", "ai", "gone"}
    /\ \A m \in Photos \cup Videos : file[m] \in Contents \cup {Opaque, Corrupt, NoFile}
    /\ DOMAIN file = Photos \cup Videos
    /\ library \subseteq Photos \cup Videos
    /\ uuids <= MaxUuids

(* A row of photos when n uuids have been drawn.                         *)
PhotoIs(row, n) ==
    /\ row.thumb \in 1..n /\ {row.tagged, row.embedded, row.favourite} \subseteq BOOLEAN
    /\ row.vector \in Contents \cup {Opaque, None}

(* The records of a scan have been drawn. *)
PhotosTyped ==
    /\ \A p \in PhotoRows : PhotoIs(photo[p], uuids)
    /\ Running("scanPhotos") => \A p \in DOMAIN task.recs : task.recs[p] \in 1..uuids

(* Such a step keeps the types of the row it changes.                    *)
LEMMA MovedPhotosAreTyped ==
    ASSUME NEW p, NEW old, NEW new, PhotoMoves(p, old, new), new # None, NEW n \in Nat, NEW m \in Nat, n <= m,
           old # None => IsPhotoRow(old) /\ PhotoIs(old, n),
           At("scanPhotos", "insert") /\ p \in DOMAIN task.recs => task.recs[p] \in 1..n
    PROVE  PhotoIs(new, m)
<1>1. 1..n \subseteq 1..m
  OBVIOUS
<1>2. CASE old = None
  <2>1. PICK t : t \in 1..n /\ new = NewPhoto(t)
    BY <1>2 DEF PhotoMoves
  <2> QED BY <1>1, <2>1 DEF PhotoIs, NewPhoto
<1>3. CASE old # None
  <2>1. /\ old.thumb \in 1..n /\ old.tagged \in BOOLEAN /\ old.embedded \in BOOLEAN /\ old.favourite \in BOOLEAN
        /\ old.vector \in Contents \cup {Opaque, None} /\ PhotoColumns \subseteq DOMAIN old
    BY <1>3 DEF PhotoIs, IsPhotoRow
  <2>2. /\ new.thumb \in 1..n /\ new.tagged \in BOOLEAN /\ new.embedded \in BOOLEAN /\ new.favourite \in BOOLEAN
        /\ new.vector \in Contents \cup {Opaque, None}
    <3>1. CASE new = old
      BY <2>1, <3>1
    <3>2. CASE At("scanPhotos", "insert") /\ p \in DOMAIN task.recs /\ new = [old EXCEPT !.thumb = task.recs[p]]
      BY <2>1, <3>2 DEF PhotoColumns
    <3>3. CASE \E x : new = [old EXCEPT !.objects = x]
      BY <2>1, <3>3 DEF PhotoColumns
    <3>4. CASE \E x, y : new = [old EXCEPT !.tags = x, !.stamp = y]
      BY <2>1, <3>4 DEF PhotoColumns
    <3>5. CASE new = [old EXCEPT !.tagged = TRUE]
      BY <2>1, <3>5 DEF PhotoColumns
    <3>6. CASE new = [old EXCEPT !.embedded = TRUE]
      BY <2>1, <3>6 DEF PhotoColumns
    <3>7. CASE PilReads(file[p]) /\ new = [old EXCEPT !.vector = file[p]]
      BY <2>1, <3>7 DEF PhotoColumns, PilReads
    <3>8. CASE new = [old EXCEPT !.favourite = ~@]
      BY <2>1, <3>8 DEF PhotoColumns
    <3> QED BY <1>3, <3>1, <3>2, <3>3, <3>4, <3>5, <3>6, <3>7, <3>8 DEF PhotoMoves
  <2> QED BY <1>1, <2>2 DEF PhotoIs
<1> QED BY <1>2, <1>3

(* Every step keeps the types of photos, and a scan draws its records    *)
(* before it inserts them (image_util_prepare_image_records).            *)
LEMMA PhotosStayTyped ==
    ASSUME MediaInv, PosterInv, PhotosTyped, [Next]_vars PROVE PhotosTyped'
<1>0. TaskColumns \subseteq DOMAIN task
  BY DEF MediaInv, TaskOK
<1>1. uuids \in Nat /\ uuids' \in Nat /\ uuids <= uuids'
  BY UuidsOnlyGrow DEF PosterInv, UuidsGrow
<1>2. ASSUME NEW p \in Photos, photo'[p] # None PROVE PhotoIs(photo'[p], uuids')
  <2>1. PhotoMoves(p, photo[p], photo'[p])
    BY PhotosMove
  <2>2. photo[p] # None => IsPhotoRow(photo[p]) /\ PhotoIs(photo[p], uuids)
    BY DEF PhotosTyped, MediaInv, RowsOK, PhotoRows
  <2>3. At("scanPhotos", "insert") /\ p \in DOMAIN task.recs => task.recs[p] \in 1..uuids
    BY DEF PhotosTyped, At, Running
  <2> QED BY <1>1, <1>2, <2>1, <2>2, <2>3, MovedPhotosAreTyped
<1>3. ASSUME Running("scanPhotos")' PROVE \A p \in DOMAIN task'.recs : task'.recs[p] \in 1..uuids'
  <2>0. 1..uuids \subseteq 1..uuids'
    BY <1>1
  <2>1. CASE UNCHANGED <<plan, task>>
    BY <1>3, <2>0, <2>1 DEF PhotosTyped, Running
  <2>2. CASE Worker /\ plan # <<>> /\ Head(plan) = "scanPhotos"
    <3>1. PrepareImages \/ RemoveObsoleteImages \/ DeleteImages \/ BulkInsertImages
      BY <2>2 DEF Worker, PhotoStep, VideoStep, LabelStep, GetUntaggedImages,
         ClassifyFails, Classify, DetectFaces, InsertFace, UpdateImageTagged, GetUnembeddedImages,
         EmbedImages, MarkImagesEmbedded, PrepareVideos, RemoveObsoleteVideos, RemoveObsoleteFiles, BulkInsertVideos,
         RemovePosters, GetUntaggedVideos, ExtractFrames, DeleteFrames, InsertFrames, WriteVideoClasses,
         MarkVideoTagged, GetUnembeddedFrames, EmbedFrames, MarkFramesEmbedded, BuildLabelEmbeddings, LoadContext,
         ReadUnscoredImages, WriteImageScores, ReadUnscoredVideos, ScoreFrames, WriteVideoScores, Starts, At
    <3>2. ~BulkInsertImages
      BY <1>3 DEF BulkInsertImages, EndPass, Idle, Running
    <3>3. CASE PrepareImages
      <4> DEFINE found == {p \in Photos : PilReads(file[p])}
                 fresh == (uuids + 1)..(uuids + Cardinality(found))
      <4>1. PICK recs \in [found -> fresh] : task' = [task EXCEPT !.pc = "obsolete", !.recs = recs]
        BY <3>3 DEF PrepareImages, Goes
      <4>2. uuids' = uuids + Cardinality(found)
        BY <3>3 DEF PrepareImages
      <4>3. fresh \subseteq 1..uuids'
        <5> HIDE DEF found
        <5> QED BY <1>1, <4>2
      <4> HIDE DEF fresh, found
      <4>4. task'.recs = recs
        BY <1>0, <4>1 DEF TaskColumns
      <4> QED BY <4>3, <4>4
    <3>4. CASE RemoveObsoleteImages \/ DeleteImages
      <4>1. task'.recs = task.recs /\ Running("scanPhotos")
        BY <1>0, <3>4 DEF RemoveObsoleteImages, DeleteImages, Goto, Goes, TaskColumns, At, Running
      <4> QED BY <2>0, <4>1 DEF PhotosTyped
    <3> QED BY <3>1, <3>2, <3>3, <3>4
  <2> QED BY <1>3, <2>1, <2>2, PassesAreRun
<1> QED BY <1>2, <1>3 DEF PhotosTyped, PhotoRows

---------------------------------------------------------------------------
(* The sample of a video and its frames.                                   *)

(* Whoever counts the members of a finite set of numbers below each of     *)
(* them meets every count.                                                 *)
LEMMA NthExists ==
    ASSUME NEW S, S \subseteq Nat, IsFiniteSet(S), NEW k \in 1..Cardinality(S)
    PROVE  \E i \in S : Cardinality({j \in S : j < i}) = k - 1
<1> DEFINE n == Cardinality(S)
           rank == [i \in S |-> Cardinality({j \in S : j < i})]
<1>1. n \in Nat
  BY FS_CardinalityType
<1>2. ASSUME NEW i \in S
      PROVE  IsFiniteSet({j \in S : j < i}) /\ rank[i] \in Nat /\ rank[i] <= n - 1
  <2> DEFINE below == {j \in S : j < i}
  <2>1. below \in SUBSET (S \ {i})
    <3>1. i \in Nat
      OBVIOUS
    <3> QED BY <3>1
  <2>2. IsFiniteSet(S \ {i}) /\ Cardinality(S \ {i}) = n - 1
    BY FS_RemoveElement
  <2>3. rank[i] = Cardinality(below)
    OBVIOUS
  <2> HIDE DEF below, rank, n
  <2>4. IsFiniteSet(below) /\ Cardinality(below) \in Nat /\ Cardinality(below) <= n - 1
    BY <2>1, <2>2, FS_Subset, FS_CardinalityType
  <2> QED BY <2>3, <2>4 DEF below
<1>3. ASSUME NEW i \in S, NEW j \in S, i < j PROVE rank[i] < rank[j]
  <2> DEFINE A == {x \in S : x < i}
             B == {x \in S : x < j}
  <2>0. i \in Nat /\ j \in Nat /\ \A x \in S : x \in Nat
    OBVIOUS
  <2>1. IsFiniteSet(A) /\ IsFiniteSet(B) /\ rank[i] = Cardinality(A) /\ rank[j] = Cardinality(B)
    BY <1>2
  <2>2. A \subseteq B /\ i \in B /\ i \notin A
    <3> HIDE DEF rank, n
    <3>1. \A x \in S : x < i => x < j
      BY ONLY <1>3, <2>0
    <3>2. ~(i < i)
      BY ONLY <2>0
    <3> QED BY ONLY <1>3, <3>1, <3>2, i \in S
  <2> HIDE DEF A, B, rank, n
  <2>3. A # B /\ A \in SUBSET B
    BY <2>2
  <2>4. Cardinality(A) <= Cardinality(B) /\ Cardinality(A) # Cardinality(B)
    BY <2>1, <2>3, FS_Subset
  <2>5. Cardinality(A) \in Nat /\ Cardinality(B) \in Nat
    BY <2>1, FS_CardinalityType
  <2> QED BY <2>1, <2>4, <2>5
<1>4. rank \in [S -> 0..(n - 1)]
  <2>1. rank = [i \in S |-> rank[i]]
    OBVIOUS
  <2> HIDE DEF rank, n
  <2>2. \A i \in S : rank[i] \in Nat /\ rank[i] <= n - 1
    BY <1>2
  <2>3. \A i \in S : rank[i] \in 0..(n - 1)
    BY ONLY <1>1, <2>2
  <2> QED BY ONLY <2>1, <2>3
<1> HIDE DEF rank, n
<1>5. rank \in Injection(S, 0..(n - 1))
  <2>1. ASSUME NEW i \in S, NEW j \in S, rank[i] = rank[j] PROVE i = j
    <3>1. i \in Nat /\ j \in Nat /\ rank[i] \in Int /\ rank[j] \in Int
      BY <1>4
    <3>2. ~(rank[i] < rank[j]) /\ ~(rank[j] < rank[i])
      BY <2>1, <3>1
    <3> QED BY <1>3, <3>1, <3>2
  <2> QED BY <1>4, <2>1 DEF Injection, IsInjective
<1>6. IsFiniteSet(0..(n - 1)) /\ Cardinality(0..(n - 1)) = n
  BY <1>1, FS_Interval
<1>7. rank \in Surjection(S, 0..(n - 1))
  <2> DEFINE T == 0..(n - 1)
  <2> HIDE DEF T
  <2>1. rank \in Injection(S, T) /\ IsFiniteSet(T) /\ Cardinality(T) = n
    BY <1>5, <1>6 DEF T
  <2>2. Cardinality(S) = Cardinality(T)
    BY <2>1 DEF n
  <2>3. rank \in Surjection(S, T)
    BY <2>1, <2>2, FS_Injection
  <2> QED BY <2>3 DEF T
<1>8. k - 1 \in 0..(n - 1)
  BY <1>1 DEF n
<1>9. PICK i \in S : rank[i] = k - 1
  BY <1>7, <1>8 DEF Surjection
<1> QED BY <1>9 DEF rank

(* The interval is stretched until no more than MaxFrames keyframes are    *)
(* sampled, however long the video is.                                     *)
LEMMA SamplesAreCapped ==
    ASSUME NEW duration, NEW every
    PROVE  Cardinality(SampleTimestamps(duration, every)) <= MaxFrames
<1> DEFINE chunk == 2 * Max({every * MaxFrames, duration})
           whole == 2 * MaxFrames * duration
           mid == [k \in 0..(MaxFrames - 1) |-> (chunk \div 2) + k * chunk]
           all == {(chunk \div 2) + k * chunk : k \in 0..(MaxFrames - 1)}
<1>0. MaxFrames \in Nat /\ 1 <= MaxFrames
  BY VideoAssumption DEF VideoAssumption
<1>1. IsFiniteSet(all) /\ Cardinality(all) <= MaxFrames
  <2>1. IsFiniteSet(0..(MaxFrames - 1)) /\ Cardinality(0..(MaxFrames - 1)) = MaxFrames
    BY <1>0, FS_Interval
  <2>2. mid \in Surjection(0..(MaxFrames - 1), all)
    BY DEF Surjection
  <2> QED BY <2>1, <2>2, FS_Surjection
<1> HIDE DEF chunk, whole
<1>2. Cardinality({t \in all : t < whole}) <= MaxFrames
  <2> DEFINE some == {t \in all : t < whole}
  <2>1. some \in SUBSET all
    OBVIOUS
  <2> HIDE DEF all, some
  <2>2. IsFiniteSet(some) /\ Cardinality(some) <= Cardinality(all) /\ Cardinality(some) \in Nat /\ Cardinality(all) \in Nat
    BY <1>1, <2>1, FS_Subset, FS_CardinalityType
  <2>3. Cardinality(some) <= MaxFrames
    BY <1>0, <1>1, <2>2
  <2> QED BY <2>3 DEF some
<1>3. SampleTimestamps(duration, every) \in {{0}, {whole \div 2}, {t \in all : t < whole}}
  BY DEF SampleTimestamps, chunk, whole
<1>4. Cardinality({0}) = 1 /\ Cardinality({whole \div 2}) = 1
  BY FS_Singleton
<1> HIDE DEF all
<1> QED BY <1>0, <1>2, <1>3, <1>4

---------------------------------------------------------------------------
(* The rows of videos.                                                     *)

(* A row of videos, but for its poster, which PosterInv speaks about.    *)
VideoIs(row) ==
    /\ row.tagged \in BOOLEAN /\ row.favourite \in BOOLEAN
    /\ \A k \in DOMAIN row.frames : Frame(row.frames[k])

(* A sample in memory keeps to the cap.                                    *)
SampleCapped ==
    Running("tagVideos") /\ task.pc \in {"deleteFrames", "insertFrames"} => task.got <= MaxFrames

(* The rows of videos, and the sample that is about to become a row.     *)
VideosTyped == (\A v \in VideoRows : VideoIs(video[v])) /\ SampleCapped

(* The rows of videos after a step have their types.                     *)
AllVideosAre == \A v \in Videos : video'[v] # None => VideoIs(video'[v])

(* A step that writes one row of videos, and writes it well.             *)
LEMMA OneVideoChanges ==
    ASSUME MediaInv, VideosTyped, NEW v \in VideoRows, NEW new, video' = [video EXCEPT ![v] = new], VideoIs(new)
    PROVE  AllVideosAre
<1>1. DOMAIN video = Videos /\ v \in Videos
  BY DEF MediaInv, RowsOK, VideoRows
<1>2. video'[v] = new /\ \A w \in Videos : w # v => video'[w] = video[w]
  BY <1>1
<1> QED BY <1>2 DEF AllVideosAre, VideosTyped, VideoRows

(* Frames that change one by one. *)
LEMMA FramesChangeTyped ==
    ASSUME MediaInv, VideosTyped, NEW v \in VideoRows, NEW x, DOMAIN x = DOMAIN video[v].frames,
           NEW tags,
           \A k \in DOMAIN x : Frame(x[k])
    PROVE  /\ VideoIs([video[v] EXCEPT !.frames = x])
           /\ VideoIs([video[v] EXCEPT !.tags = tags, !.frames = x])
<1> DEFINE row == video[v]
<1>1. VideoColumns \subseteq DOMAIN row /\ row.tagged \in BOOLEAN /\ row.favourite \in BOOLEAN
  BY DEF MediaInv, RowsOK, IsVideoRow, VideosTyped, VideoIs
<1> HIDE DEF row
<1>2. /\ [row EXCEPT !.frames = x].frames = x
      /\ [row EXCEPT !.frames = x].tagged = row.tagged
      /\ [row EXCEPT !.frames = x].favourite = row.favourite
  BY <1>1 DEF VideoColumns
<1>3. /\ [row EXCEPT !.tags = tags, !.frames = x].frames = x
      /\ [row EXCEPT !.tags = tags, !.frames = x].tagged = row.tagged
      /\ [row EXCEPT !.tags = tags, !.frames = x].favourite = row.favourite
  BY <1>1 DEF VideoColumns
<1>4. VideoIs([row EXCEPT !.frames = x])
  BY <1>1, <1>2 DEF VideoIs
<1>5. VideoIs([row EXCEPT !.tags = tags, !.frames = x])
  BY <1>1, <1>3 DEF VideoIs
<1> QED BY <1>4, <1>5 DEF row

(* The columns of a frame that the steps on frames set. *)
LEMMA FramesStayFrames ==
    ASSUME NEW f, FrameColumns \subseteq DOMAIN f, Frame(f), NEW stamp, NEW c \in Contents
    PROVE  /\ Frame([f EXCEPT !.embedded = TRUE]) /\ Frame([f EXCEPT !.path = FALSE])
           /\ Frame([f EXCEPT !.stamp = stamp]) /\ Frame([f EXCEPT !.vector = c, !.stamp = None])
<1>1. f.idx \in 1..MaxFrames /\ f.path \in BOOLEAN /\ f.embedded \in BOOLEAN /\ f.vector \in Contents \cup {None}
  BY DEF Frame
<1>2. ASSUME NEW g, g = [f EXCEPT !.embedded = TRUE] PROVE Frame(g)
  BY <1>1, <1>2 DEF Frame, FrameColumns
<1>3. ASSUME NEW g, g = [f EXCEPT !.path = FALSE] PROVE Frame(g)
  BY <1>1, <1>3 DEF Frame, FrameColumns
<1>4. ASSUME NEW g, g = [f EXCEPT !.stamp = stamp] PROVE Frame(g)
  BY <1>1, <1>4 DEF Frame, FrameColumns
<1>5. ASSUME NEW g, g = [f EXCEPT !.vector = c, !.stamp = None] PROVE Frame(g)
  BY <1>1, <1>5 DEF Frame, FrameColumns
<1> QED BY <1>2, <1>3, <1>4, <1>5

(* The frames that are added have the indexes of keyframes of the sample.  *)
LEMMA AddedFramesAreTyped ==
    ASSUME NEW row, row # None, IsVideoRow(row), VideoIs(row), task.got \in Nat, task.got <= MaxFrames
    PROVE  VideoIs(WithFrames(row))
<1> DEFINE kept == {i \in 1..task.got : \E k \in DOMAIN row.frames :
                                        row.frames[k].path /\ row.frames[k].idx = i}
           news == {i \in 1..task.got : i \notin kept}
           nth(k) == CHOOSE i \in news : Cardinality({j \in news : j < i}) = k - 1
           added == [k \in 1..Cardinality(news) |-> NewFrame(nth(k))]
           all == row.frames \o added
<1>0. MaxFrames \in Nat
  BY VideoAssumption DEF VideoAssumption
<1>1. /\ WithFrames(row).frames = all /\ WithFrames(row).tagged = row.tagged
      /\ WithFrames(row).favourite = row.favourite
  BY DEF WithFrames, IsVideoRow, VideoColumns
<1>2. IsFiniteSet(news) /\ Cardinality(news) \in Nat /\ news \subseteq Nat
  <2>1. IsFiniteSet(1..task.got)
    BY FS_Interval
  <2>2. news \in SUBSET (1..task.got) /\ news \subseteq Nat
    OBVIOUS
  <2> HIDE DEF news
  <2> QED BY <2>1, <2>2, FS_Subset, FS_CardinalityType
<1>3. ASSUME NEW k \in 1..Cardinality(news) PROVE nth(k) \in 1..MaxFrames
  <2>1. news \subseteq 1..MaxFrames
    BY <1>0
  <2> HIDE DEF news
  <2>2. \E i \in news : Cardinality({j \in news : j < i}) = k - 1
    BY <1>2, NthExists
  <2> QED BY <2>1, <2>2
<1> DEFINE n == Cardinality(news)
           T == {NewFrame(nth(k)) : k \in 1..n}
<1>4. \A k \in 1..n : Frame(added[k])
  <2> HIDE DEF nth
  <2> QED BY <1>3 DEF NewFrame, Frame
<1>5. added \in [1..n -> T] /\ DOMAIN added = 1..n
  OBVIOUS
<1> HIDE DEF added, T, n, news, kept, nth
<1>6. n \in Nat
  BY <1>2 DEF n
<1>7. added \in Seq(T) /\ Len(added) = n
  BY <1>5, <1>6
<1>8. PICK S : row.frames \in Seq(S)
  BY DEF IsVideoRow, AreFrames, IsSequence
<1>9. row.frames \in Seq(S \cup T) /\ added \in Seq(S \cup T) /\ Len(row.frames) \in Nat
  BY <1>7, <1>8
<1>10. DOMAIN all = 1..(Len(row.frames) + n) /\ DOMAIN row.frames = 1..Len(row.frames)
  BY <1>7, <1>9
<1>11. ASSUME NEW k \in DOMAIN all PROVE Frame(all[k])
  <2>1. k \in Nat /\ k <= Len(row.frames) + n /\ k >= 1
    BY <1>6, <1>9, <1>10, <1>11
  <2>2. CASE k <= Len(row.frames)
    <3>1. k \in DOMAIN row.frames /\ all[k] = row.frames[k]
      BY <1>7, <1>9, <1>10, <2>1, <2>2
    <3> QED BY <3>1 DEF VideoIs
  <2>3. CASE k > Len(row.frames)
    <3>1. all[k] = added[k - Len(row.frames)] /\ k - Len(row.frames) \in 1..n
      BY <1>6, <1>7, <1>9, <2>1, <2>3
    <3> QED BY <1>4, <3>1
  <2>4. k <= Len(row.frames) \/ k > Len(row.frames)
    BY ONLY <1>9, <2>1
  <2> QED BY <2>2, <2>3, <2>4
<1> HIDE DEF all
<1> QED BY <1>1, <1>11 DEF VideoIs

(* Every step keeps the types of videos.                                 *)
LEMMA VideosStayTyped == ASSUME MediaInv, VideosTyped, [Next]_vars PROVE AllVideosAre
<1>0. \A v \in Videos : video[v] # None => IsVideoRow(video[v]) /\ VideoIs(video[v]) /\ v \in VideoRows
  BY DEF MediaInv, RowsOK, VideosTyped, VideoRows
<1>a. ASSUME NEW v \in VideoRows PROVE VideoColumns \subseteq DOMAIN video[v] /\ VideoIs(video[v]) /\ v \in Videos
  BY <1>0 DEF VideoRows, IsVideoRow
<1>b. ASSUME NEW v \in VideoRows, NEW k \in DOMAIN video[v].frames
      PROVE  FrameColumns \subseteq DOMAIN video[v].frames[k] /\ Frame(video[v].frames[k])
  BY <1>0 DEF VideoRows, IsVideoRow, AreFrames, VideoIs
<1>1. ASSUME UNCHANGED video PROVE AllVideosAre
  BY <1>0, <1>1 DEF AllVideosAre
<1>2. ASSUME \A v \in Videos : video'[v] = None \/ video'[v] = video[v] PROVE AllVideosAre
  BY <1>0, <1>2 DEF AllVideosAre
<1>3. CASE RemoveObsoleteVideos
  BY <1>1, <1>2, <1>3 DEF RemoveObsoleteVideos
<1>4. CASE BulkInsertVideos
  <2>1. CASE video' = [v \in Videos |-> IF v \in DOMAIN task.recs
                                           THEN UpsertedVideo(video[v], task.recs[v]) ELSE video[v]]
    <3>1. ASSUME NEW v \in Videos, NEW rec PROVE VideoIs(UpsertedVideo(video[v], rec))
      <4>1. CASE video[v] = None
        BY <4>1 DEF UpsertedVideo, NewVideo, VideoIs
      <4>2. CASE video[v] # None
        <5> DEFINE new == UpsertedVideo(video[v], rec)
        <5>1. new.frames = video[v].frames /\ new.tagged = video[v].tagged /\ new.favourite = video[v].favourite
          BY <1>0, <4>2 DEF UpsertedVideo, IsVideoRow, VideoColumns
        <5> HIDE DEF new
        <5>2. VideoIs(new)
          BY <1>0, <4>2, <5>1 DEF VideoIs
        <5> QED BY <5>2 DEF new
      <4> QED BY <4>1, <4>2
    <3> QED BY <1>0, <2>1, <3>1 DEF AllVideosAre
  <2> QED BY <1>1, <1>4, <2>1 DEF BulkInsertVideos
<1>5. CASE DeleteFrames
  <2>1. ASSUME task.cur \in VideoRows PROVE VideoIs(WithoutFrames(video[task.cur]))
    BY <1>a, <2>1 DEF WithoutFrames, VideoColumns, VideoIs
  <2> QED BY <1>1, <1>5, <2>1, OneVideoChanges DEF DeleteFrames, SetCurrent
<1>6. CASE InsertFrames
  <2>1. task.got \in Nat /\ task.got <= MaxFrames
    BY <1>6 DEF InsertFrames, At, MediaInv, TaskOK, TaggingVideos, Running, VideosTyped, SampleCapped
  <2>2. ASSUME task.cur \in VideoRows PROVE VideoIs(WithFrames(video[task.cur]))
    BY <1>0, <2>1, <2>2, AddedFramesAreTyped DEF VideoRows
  <2> QED BY <1>1, <1>6, <2>2, OneVideoChanges DEF InsertFrames, SetCurrent
<1>7. CASE WriteVideoClasses
  <2>1. ASSUME task.cur \in VideoRows, NEW x PROVE VideoIs([video[task.cur] EXCEPT !.objects = x])
    BY <1>a, <2>1 DEF VideoColumns, VideoIs
  <2>2. UNCHANGED video \/ \E x : task.cur \in VideoRows /\ video' = [video EXCEPT ![task.cur] = [@ EXCEPT !.objects = x]]
    BY <1>7 DEF WriteVideoClasses, SetCurrent
  <2> QED BY <1>1, <2>1, <2>2, OneVideoChanges
<1>8. CASE MarkVideoTagged
  <2>1. ASSUME task.cur \in VideoRows PROVE VideoIs(FlaggedVideo(video[task.cur]))
    BY <1>a, <2>1 DEF FlaggedVideo, VideoColumns, VideoIs
  <2> QED BY <1>1, <1>8, <2>1, OneVideoChanges DEF MarkVideoTagged, SetCurrent
<1>9. CASE PrepareVideos \/ RemoveObsoleteFiles \/ RemovePosters \/ GetUntaggedVideos \/ ExtractFrames
            \/ GetUnembeddedFrames(installed)
  BY <1>1, <1>9 DEF PrepareVideos, RemoveObsoleteFiles, RemovePosters, GetUntaggedVideos, ExtractFrames,
                     GetUnembeddedFrames, videoVars
<1>10. CASE LabelStep /\ ~WriteVideoScores
  BY <1>1, <1>10 DEF LabelStep, BuildLabelEmbeddings, LoadContext, ReadUnscoredImages, WriteImageScores,
                     ReadUnscoredVideos, ScoreFrames, videoVars
<1>11. CASE WriteVideoScores
  <2>1. ASSUME task.cur \in VideoRows PROVE VideoIs(Scored(video[task.cur], task.got, task.ctx))
    <3> DEFINE row == video[task.cur]
               x == [k \in DOMAIN row.frames |-> IF row.frames[k].vector = None THEN row.frames[k]
                                                 ELSE [row.frames[k] EXCEPT !.stamp = task.ctx]]
    <3>1. \A k \in DOMAIN x : Frame(x[k])
      BY <1>b, <2>1, FramesStayFrames, PhotoAssumption DEF PhotoAssumption
    <3>2. DOMAIN x = DOMAIN row.frames
      OBVIOUS
    <3>3. Scored(row, task.got, task.ctx) = [row EXCEPT !.tags = task.got, !.frames = x]
      BY <1>a, <2>1 DEF Scored, VideoColumns
    <3> HIDE DEF x
    <3>4. \A tags : VideoIs([video[task.cur] EXCEPT !.tags = tags, !.frames = x])
      BY <2>1, <3>1, <3>2, FramesChangeTyped
    <3> QED BY <3>3, <3>4
  <2> QED BY <1>1, <1>11, <2>1, OneVideoChanges DEF WriteVideoScores
<1>12. ASSUME NEW x, \A v \in Videos : IF v \in VideoRows THEN DOMAIN x[v] = DOMAIN video[v].frames
                                          /\ (\A k \in DOMAIN x[v] : Frame(x[v][k]))
                                          /\ video'[v] = [video[v] EXCEPT !.frames = x[v]]
                                       ELSE video'[v] = None
       PROVE  AllVideosAre
  <2>1. ASSUME NEW v \in VideoRows PROVE VideoIs(video'[v])
    <3>1. PICK y : y = x[v]
      OBVIOUS
    <3> QED BY <1>a, <1>12, <3>1, FramesChangeTyped
  <2> QED BY <1>12, <2>1 DEF AllVideosAre
<1>13. CASE EmbedFrames
  <2>1. PICK good : UNCHANGED video \/ (video' = ForFrames(good, NewVector) /\ \A f \in good : OnDisk(f) # {} /\ f \in task.todo)
    <3>1. PICK batch \in BatchesOf(task.todo) :
            UNCHANGED video \/ video' = ForFrames({f \in batch : OnDisk(f) # {}}, NewVector)
      BY <1>13 DEF EmbedFrames
    <3>2. batch \subseteq task.todo
      BY DEF BatchesOf, kSubset
    <3> QED BY <3>1, <3>2
  <2>2. \A f \in task.todo : Matches(f)
    BY <1>13 DEF EmbedFrames, At, MediaInv, TaskOK, EmbeddingFrames, Running
  <2> DEFINE Hit(v, k) == \E f \in good : f[1] = v /\ f[2] = k
             New(v, k) == NewVector(video[v].frames[k], <<v, k, video[v].frames[k].idx>>)
             x == [v \in Videos |-> [k \in DOMAIN video[v].frames |->
                                       IF Hit(v, k) THEN New(v, k) ELSE video[v].frames[k]]]
  <2>3. CASE video' = ForFrames(good, NewVector) /\ \A f \in good : OnDisk(f) # {} /\ f \in task.todo
    <3>1. ASSUME NEW v \in VideoRows, NEW k \in DOMAIN video[v].frames, Hit(v, k) PROVE Frame(New(v, k))
      <4> DEFINE frame == video[v].frames[k]
                 g == CHOOSE h \in OnDisk(<<v, k, frame.idx>>) : TRUE
      <4>1. PICK f \in good : f[1] = v /\ f[2] = k
        BY <3>1
      <4>2. f[3] = frame.idx /\ OnDisk(f) # {}
        BY <2>2, <2>3, <4>1 DEF Matches
      <4>3. OnDisk(<<v, k, frame.idx>>) = OnDisk(f)
        BY <4>1, <4>2 DEF OnDisk
      <4>4. g \in jpegs[v] /\ v \in Videos
        BY <4>2, <4>3 DEF OnDisk, VideoRows
      <4>5. g[2] \in Contents
        BY <4>4 DEF MediaInv, RowsOK
      <4>6. New(v, k) = [frame EXCEPT !.vector = g[2], !.stamp = None]
        BY DEF NewVector
      <4>7. FrameColumns \subseteq DOMAIN frame /\ Frame(frame)
        BY <1>b
      <4> HIDE DEF g, frame, New
      <4>8. PICK c \in Contents : c = g[2]
        BY <4>5
      <4>9. Frame([frame EXCEPT !.vector = c, !.stamp = None])
        BY <4>7, FramesStayFrames
      <4> QED BY <4>6, <4>8, <4>9
    <3>2. ASSUME NEW v \in VideoRows
          PROVE  video'[v] = [video[v] EXCEPT !.frames = x[v]] /\ v \in Videos
      BY <1>a, <2>3 DEF ForFrames, VideoColumns
    <3>3. \A v \in Videos : v \notin VideoRows => video'[v] = None
      BY <2>3 DEF ForFrames
    <3> HIDE DEF Hit, New
    <3>4. ASSUME NEW v \in VideoRows, NEW k \in DOMAIN x[v] PROVE Frame(x[v][k]) /\ DOMAIN x[v] = DOMAIN video[v].frames
      BY <1>a, <1>b, <3>1
    <3>5. \A v \in VideoRows : DOMAIN x[v] = DOMAIN video[v].frames
      BY <1>a
    <3> HIDE DEF x
    <3> QED BY <1>12, <3>2, <3>3, <3>4, <3>5
  <2> QED BY <1>1, <2>1, <2>3
<1>14. CASE MarkFramesEmbedded
  <2> DEFINE Hit(v, k) == \E f \in task.got : f[1] = v /\ f[2] = k
             x == [v \in Videos |-> [k \in DOMAIN video[v].frames |->
                     IF Hit(v, k) THEN [video[v].frames[k] EXCEPT !.embedded = TRUE] ELSE video[v].frames[k]]]
  <2>1. CASE video' = ForFrames(task.got, MarkedFrame)
    <3>1. ASSUME NEW v \in VideoRows
          PROVE  video'[v] = [video[v] EXCEPT !.frames = x[v]] /\ v \in Videos
      BY <1>a, <2>1 DEF ForFrames, VideoColumns, MarkedFrame
    <3>2. \A v \in Videos : v \notin VideoRows => video'[v] = None
      BY <2>1 DEF ForFrames
    <3> HIDE DEF Hit
    <3>3. ASSUME NEW v \in VideoRows, NEW k \in DOMAIN x[v] PROVE Frame(x[v][k])
      BY <1>a, <1>b, FramesStayFrames, PhotoAssumption DEF PhotoAssumption
    <3>4. \A v \in VideoRows : DOMAIN x[v] = DOMAIN video[v].frames
      BY <1>a
    <3> HIDE DEF x
    <3> QED BY <1>12, <3>1, <3>2, <3>3, <3>4
  <2> QED BY <1>1, <1>14, <2>1 DEF MarkFramesEmbedded
<1>15. CASE ClearFramePaths
  <2> DEFINE x == [v \in Videos |-> [k \in DOMAIN video[v].frames |-> [video[v].frames[k] EXCEPT !.path = FALSE]]]
  <2>1. CASE video' = [v \in Videos |-> IF v \notin VideoRows THEN None
                          ELSE [video[v] EXCEPT !.frames = [k \in DOMAIN @ |-> ClearedFrame(@[k])]]]
    <3>1. ASSUME NEW v \in VideoRows
          PROVE  video'[v] = [video[v] EXCEPT !.frames = x[v]] /\ v \in Videos
      BY <1>a, <2>1 DEF VideoColumns, ClearedFrame
    <3>2. \A v \in Videos : v \notin VideoRows => video'[v] = None
      BY <2>1
    <3>3. ASSUME NEW v \in VideoRows, NEW k \in DOMAIN x[v] PROVE Frame(x[v][k])
      BY <1>a, <1>b, FramesStayFrames, PhotoAssumption DEF PhotoAssumption
    <3>4. \A v \in VideoRows : DOMAIN x[v] = DOMAIN video[v].frames
      BY <1>a
    <3> HIDE DEF x
    <3> QED BY <1>12, <3>1, <3>2, <3>3, <3>4
  <2> QED BY <1>1, <1>15, <2>1 DEF ClearFramePaths
<1>16. CASE ToggleVideoFavourite
  <2>1. PICK v \in VideoRows : video' = [video EXCEPT ![v].favourite = ~@]
    BY <1>16 DEF ToggleVideoFavourite
  <2> DEFINE new == [video[v] EXCEPT !.favourite = ~@]
  <2>2. VideoIs(new)
    BY <1>a, <2>1 DEF VideoColumns, VideoIs
  <2>3. video' = [video EXCEPT ![v] = new]
    BY <2>1
  <2> HIDE DEF new
  <2> QED BY <2>2, <2>3, OneVideoChanges
<1>17. CASE FolderDeleted
  BY <1>2, <1>17 DEF FolderDeleted
<1>18. CASE UNCHANGED videoVars \/ UNCHANGED vars \/ Crash
  BY <1>1, <1>18 DEF Crash, vars, videoVars
<1>19. CASE FolderSequence \/ ModelsInstalled \/ IntervalChanges \/ PurgeFiles
  BY <1>1, <1>19 DEF FolderSequence, ModelsInstalled, IntervalChanges, PurgeFiles, videoVars
<1> QED BY <1>3, <1>4, <1>5, <1>6, <1>7, <1>8, <1>9, <1>10, <1>11, <1>13, <1>14, <1>15, <1>16, <1>17, <1>18, <1>19
       DEF Next, Worker, VideoStep, Requests

---------------------------------------------------------------------------
(* Typing.                                                               *)

(* A sample is taken in ExtractFrames only, from timestamps that keep to *)
(* the cap, and is given up with the pass.                               *)
LEMMA SampleStaysCapped == ASSUME MediaInv, VideosTyped, [Next]_vars PROVE SampleCapped'
<1> SUFFICES ASSUME Running("tagVideos")', task'.pc \in {"deleteFrames", "insertFrames"} PROVE task'.got <= MaxFrames
  BY DEF SampleCapped
<1>1. TaskColumns \subseteq DOMAIN task
  BY DEF MediaInv, TaskOK
<1>2. ~EndPass
  BY DEF EndPass, Idle
<1>3. \A S, x : ~Goes([Idle EXCEPT !.pc = "extract", !.todo = S, !.ctx = x])
  BY DEF Goes, Idle
<1>4. CASE UNCHANGED <<plan, task>> /\ Running("tagVideos")
  BY <1>4 DEF VideosTyped, SampleCapped
<1>5. CASE Worker /\ plan # <<>> /\ Head(plan) = "tagVideos"
  <2>1. ~MarkVideoTagged
    BY <1>2, <1>3 DEF MarkVideoTagged, NextOf
  <2>2. ~GetUntaggedVideos /\ ~InsertFrames /\ ~WriteVideoClasses
    BY <1>1, <1>2 DEF GetUntaggedVideos, InsertFrames, WriteVideoClasses, Goto, Goes, TaskColumns
  <2>3. CASE ExtractFrames
    <3>1. PICK v \in task.todo :
            LET n == Cardinality(SampleTimestamps(Duration[file[v]], task.ctx))
            IN  \/ task' = [task EXCEPT !.pc = "deleteFrames", !.cur = v, !.got = n]
                \/ task' = [task EXCEPT !.pc = "flag", !.cur = v]
      BY <2>3 DEF ExtractFrames, Goes
    <3>2. task'.got = Cardinality(SampleTimestamps(Duration[file[v]], task.ctx))
      BY <1>1, <3>1 DEF TaskColumns
    <3> QED BY <3>2, SamplesAreCapped
  <2>4. CASE DeleteFrames
    <3>1. task'.got = task.got /\ task.pc = "deleteFrames" /\ Running("tagVideos")
      BY <1>1, <2>4 DEF DeleteFrames, Goto, Goes, At, Running, TaskColumns
    <3> QED BY <3>1 DEF VideosTyped, SampleCapped
  <2> QED BY <1>5, <2>1, <2>2, <2>3, <2>4, StepsOfPasses
<1> QED BY <1>4, <1>5, PassesAreRun

(* What is submitted to the worker are passes it knows.                  *)
LEMMA SequencesArePasses ==
    /\ SyncSequence \in Seq(Passes) /\ TagSequence \in Seq(Passes)
    /\ StartSequence \in Seq(Passes) /\ ModelSequence \in Seq(Passes)
<1> DEFINE P == Passes
<1>1. "buildLabels" \in P /\ \A pass \in P : PhotoPass(pass) \in Seq(P) /\ VideoPass(pass) \in Seq(P)
  <2>1. "buildLabels" \in P
    BY DEF Passes
  <2> HIDE DEF P
  <2> QED BY <2>1 DEF PhotoPass, VideoPass
<1>2. <<"buildLabels">> \in Seq(P)
  <2> HIDE DEF P
  <2> QED BY <1>1
<1>3. \A pass \in {"scanPhotos", "tagPhotos", "embedPhotos", "scorePhotos",
                   "scanVideos", "tagVideos", "embedFrames", "scoreVideos"} : pass \in P
  BY DEF Passes
<1> HIDE DEF P
<1>4. \A s, t \in Seq(P) : s \o t \in Seq(P)
  OBVIOUS
<1>5. TagSequence \in Seq(P)
  BY <1>1, <1>3, <1>4 DEF TagSequence
<1>6. SyncSequence \in Seq(P)
  BY <1>1, <1>3, <1>4, <1>5 DEF SyncSequence
<1>7. StartSequence \in Seq(P) /\ ModelSequence \in Seq(P)
  BY <1>1, <1>2, <1>3, <1>4 DEF StartSequence, ModelSequence
<1> QED BY <1>5, <1>6, <1>7 DEF P

(* Every step keeps files, settings and the plan what they are.          *)
LEMMA SettingsStay == ASSUME MediaInv, SettingsOK, [Next]_vars PROVE SettingsOK'
<1> DEFINE P == Passes
<1>1. plan' \in Seq(P)
  <2> HIDE DEF P
  <2>1. plan \in Seq(P)
    BY DEF P, SettingsOK
  <2>2. plan # <<>> /\ EndPass => plan' \in Seq(P)
    BY <2>1 DEF EndPass
  <2>3. ASSUME NEW pass, NEW pc, At(pass, pc) PROVE plan # <<>>
    BY <2>3 DEF At
  <2>4. UNCHANGED plan \/ (plan # <<>> /\ EndPass) \/ plan' \in Seq(P)
    <3>1. CASE PhotoStep(installed)
      BY <2>3, <3>1
         DEF PhotoStep, PrepareImages, RemoveObsoleteImages, DeleteImages, BulkInsertImages, GetUntaggedImages,
             ClassifyFails, Classify, DetectFaces, InsertFace, UpdateImageTagged, GetUnembeddedImages,
             EmbedImages, MarkImagesEmbedded, Starts, NextOf, Goto, Goes
    <3>2. CASE VideoStep(installed)
      BY <2>3, <3>2
         DEF VideoStep, PrepareVideos, RemoveObsoleteVideos, RemoveObsoleteFiles, BulkInsertVideos, RemovePosters,
             GetUntaggedVideos, ExtractFrames, DeleteFrames, InsertFrames, WriteVideoClasses,
             MarkVideoTagged, GetUnembeddedFrames, EmbedFrames, MarkFramesEmbedded, Starts, NextOf, Goto, Goes
    <3>3. CASE LabelStep
      BY <2>3, <3>3 DEF LabelStep, BuildLabelEmbeddings, LoadContext, ReadUnscoredImages, WriteImageScores,
             ReadUnscoredVideos, ScoreFrames, WriteVideoScores, Starts, Goto, Goes
    <3>4. CASE FolderSequence \/ ModelsInstalled \/ Crash
      BY <3>4, SequencesArePasses DEF FolderSequence, ModelsInstalled, Crash, Submit, P
    <3>5. CASE (Requests /\ ~FolderSequence /\ ~ModelsInstalled) \/ UNCHANGED vars
      BY <3>5 DEF Requests, FolderDeleted, FileChanges, FolderToggles, vars, mediaVars,
             ToggleImageFavourite, ToggleVideoFavourite, IntervalChanges, PurgeFiles, ClearFramePaths
    <3> QED BY <3>1, <3>2, <3>3, <3>4, <3>5 DEF Next, Worker, Requests
  <2> QED BY <2>1, <2>2, <2>4
<1> HIDE DEF P
<1>2. /\ UNCHANGED library
      /\ UNCHANGED file \/ \E m \in library : \E c \in Contents \cup {Opaque, Corrupt, NoFile} : file' = [file EXCEPT ![m] = c]
      /\ folder' = folder \/ folder' \in {"plain", "ai", "gone"}
      /\ uuids' = uuids \/ uuids' <= MaxUuids
  <2>1. CASE PhotoStep(installed)
    BY <2>1 DEF PhotoStep, PrepareImages, RemoveObsoleteImages, DeleteImages, BulkInsertImages, GetUntaggedImages,
                ClassifyFails, Classify, DetectFaces, InsertFace, UpdateImageTagged, GetUnembeddedImages,
                EmbedImages, MarkImagesEmbedded
  <2>2. CASE VideoStep(installed)
    BY <2>2 DEF VideoStep, PrepareVideos, RemoveObsoleteVideos, RemoveObsoleteFiles, BulkInsertVideos, RemovePosters,
                GetUntaggedVideos, ExtractFrames, DeleteFrames, InsertFrames, WriteVideoClasses,
                MarkVideoTagged, GetUnembeddedFrames, EmbedFrames, MarkFramesEmbedded
  <2>3. CASE LabelStep
    BY <2>3 DEF LabelStep, BuildLabelEmbeddings, LoadContext, ReadUnscoredImages, WriteImageScores,
                ReadUnscoredVideos, ScoreFrames, WriteVideoScores
  <2>4. CASE Requests \/ Crash \/ UNCHANGED vars
    BY <2>4 DEF Requests, FolderSequence, ModelsInstalled, FolderDeleted, FileChanges, FolderToggles, vars, mediaVars,
                ToggleImageFavourite, ToggleVideoFavourite, IntervalChanges, PurgeFiles, ClearFramePaths, Crash
  <2> QED BY <2>1, <2>2, <2>3, <2>4 DEF Next, Worker
<1>3. /\ DOMAIN file' = Photos \cup Videos
      /\ \A m \in Photos \cup Videos : file'[m] \in Contents \cup {Opaque, Corrupt, NoFile}
  <2>1. CASE UNCHANGED file
    BY <2>1 DEF SettingsOK
  <2>2. ASSUME NEW m \in library, NEW c \in Contents \cup {Opaque, Corrupt, NoFile}, file' = [file EXCEPT ![m] = c]
        PROVE  /\ DOMAIN file' = Photos \cup Videos
               /\ \A x \in Photos \cup Videos : file'[x] \in Contents \cup {Opaque, Corrupt, NoFile}
    BY <2>2 DEF SettingsOK
  <2> QED BY <1>2, <2>1, <2>2
<1> QED BY <1>1, <1>2, <1>3 DEF SettingsOK, P

(* What typing adds to MediaInv and PosterInv.                           *)
TypeInv == SettingsOK /\ PhotosTyped /\ VideosTyped

(* Before the first scan nothing is stored, and what is chosen is typed.  *)
LEMMA TypesStart == ASSUME Init PROVE TypeInv
<1>1. PICK found \in [library -> Contents \cup {Opaque}] :
          file = [m \in Photos \cup Videos |-> IF m \in library THEN found[m] ELSE NoFile]
  BY DEF Init, MediaInit
<1>2. library \subseteq Photos \cup Videos
  BY MediaAssumption DEF MediaAssumption, Init, MediaInit
<1>3. SettingsOK
  <2>1. plan \in Seq(Passes) /\ folder \in {"plain", "ai", "gone"} /\ uuids <= MaxUuids
    BY MediaAssumption DEF MediaAssumption, Init, MediaInit
  <2> QED BY <1>1, <1>2, <2>1 DEF SettingsOK
<1> QED BY <1>3 DEF Init, MediaInit, PhotoInit, VideoInit, TypeInv, PhotosTyped, VideosTyped, SampleCapped, PhotoRows, VideoRows, Running

(* Rows, files and the worker's place keep their types through every       *)
(* failed statement, deletion and crash, and no video has a keyframe with  *)
(* an index beyond the cap, however long it is and whatever interval is    *)
(* preferred (video_util_sample_frame_timestamps).                         *)
THEOREM MediaTyping ==
    ASSUME NullHasNoColumns PROVE Spec => []TypeOK
<1>1. Init => MediaInv /\ PosterInv /\ TypeInv
  BY MediaStarts, PostersStart, TypesStart
<1>2. MediaInv /\ PosterInv /\ TypeInv /\ [Next]_vars => (MediaInv /\ PosterInv /\ TypeInv)'
  <2> SUFFICES ASSUME MediaInv, PosterInv, TypeInv, [Next]_vars PROVE (MediaInv /\ PosterInv /\ TypeInv)'
    OBVIOUS
  <2>1. MediaInv' /\ PosterInv'
    BY MediaSteps, PosterSteps
  <2>2. VideosTyped'
    <3>1. \A v \in VideoRows' : VideoIs(video'[v])
      BY VideosStayTyped DEF TypeInv, AllVideosAre, VideoRows
    <3>2. \A v \in VideoRows' : VideoIs(video[v])'
      BY <3>1 DEF VideoIs, Frame
    <3> QED BY <3>2, SampleStaysCapped DEF TypeInv, VideosTyped
  <2> QED BY <2>1, <2>2, PhotosStayTyped, SettingsStay DEF TypeInv
<1>3. MediaInv /\ PosterInv /\ TypeInv => TypeOK
  <2> SUFFICES ASSUME MediaInv, PosterInv, TypeInv PROVE TypeOK
    OBVIOUS
  <2>1. uuids \in 0..MaxUuids /\ thumbs \subseteq 1..uuids
    BY MediaAssumption DEF MediaAssumption, PosterInv, TypeInv, SettingsOK
  <2>2. \A p \in PhotoRows : PhotoOK(photo[p])
    BY DEF TypeInv, PhotosTyped, PhotoIs, PhotoOK
  <2>3. \A v \in VideoRows : VideoOK(video[v])
    BY DEF TypeInv, VideosTyped, VideoIs, VideoOK, PosterInv, Thumb
  <2> QED BY <2>1, <2>2, <2>3 DEF TypeOK, TypeInv, SettingsOK
<1> QED BY <1>1, <1>2, <1>3, PTL DEF Spec

=============================================================================
