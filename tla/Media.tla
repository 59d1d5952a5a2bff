-------------------------------- MODULE Media --------------------------------
(***************************************************************************)
(* What the indexing of photos and of videos have in common: the files on  *)
(* the user's disk, the one folder that holds them, the thumbnails, the    *)
(* SQLite database as something a statement may fail on, and the single    *)
(* worker process, which runs one pass after the other.                    *)
(***************************************************************************)
EXTENDS Integers, Sequences, FiniteSets, FiniteSetsExt

CONSTANTS
    Photos, Videos,     \* paths of the two kinds
    Libraries,          \* which of the paths one behaviour is about
    Contents,           \* what a file may hold that every decoder reads
    Opaque,             \* a file PIL reads and cv2 does not
    Corrupt,            \* a file that no decoder reads
    NoFile,             \* nothing at this path
    None,               \* NULL in a column, and nothing at hand in the worker
    EmbedBatch,         \* SIGLIP2_EMBED_BATCH_SIZE
    MaxEvents,          \* bound on what users and disks do
    MaxFaults,          \* bound on statements that fail
    MaxCrashes,         \* bound on crashes of the application
    MaxTrouble,         \* bound on all three together
    MaxUuids            \* bound on the uuids drawn

ASSUME MediaAssumption ==
    /\ Photos \cap Videos = {} /\ Libraries \subseteq SUBSET (Photos \cup Videos)
    /\ IsFiniteSet(Photos \cup Videos)
    /\ {Opaque, Corrupt, NoFile, None} \cap Contents = {} /\ None \notin Nat \cup {Opaque}
    /\ {EmbedBatch, MaxEvents, MaxFaults, MaxCrashes, MaxTrouble, MaxUuids} \subseteq Nat
    /\ EmbedBatch > 0

VARIABLES
    library,    \* the paths of this behaviour
    file,       \* what each path holds
    folder,     \* the folder's row: "plain", "ai" (AI_Tagging) or "gone"
    thumbs,     \* the thumbnails on disk, by the uuid in their names
    uuids,      \* how many uuids have been drawn for records
    plan,       \* the passes the worker still has to run, the running one first
    task,       \* where the worker is in that pass, and what it has in memory
    count       \* how many events, faults and crashes there have been

mediaVars == <<library, file, folder, thumbs, uuids, plan, task, count>>

Passes == {"buildLabels", "scanPhotos", "tagPhotos", "embedPhotos", "scorePhotos",
           "scanVideos", "tagVideos", "embedFrames", "scoreVideos"}

PilReads(c) == c \in Contents \cup {Opaque}
CvReads(c)  == c \in Contents

(* The worker's local variables: records by path, the media it has read    *)
(* and not come to yet, the one at hand, thumbnails to remove, a number or *)
(* batch it computed, and the scoring context it loaded.                   *)
Idle == [pc |-> "idle", recs |-> <<>>, todo |-> {}, cur |-> None,
         old |-> {}, got |-> None, ctx |-> None]

MediaInit ==
    /\ library \in Libraries
    /\ \E found \in [library -> Contents \cup {Opaque}] :
          file = [m \in Photos \cup Videos |-> IF m \in library THEN found[m] ELSE NoFile]
    /\ folder = "ai"
    /\ thumbs = {} /\ uuids = 0
    /\ plan = <<>> /\ task = Idle
    /\ count = [events |-> 0, faults |-> 0, crashes |-> 0]

---------------------------------------------------------------------------
(* The worker.                                                             *)

At(pass, pc) == plan # <<>> /\ Head(plan) = pass /\ task.pc = pc
Starts(pass) == At(pass, "idle")

EndPass == plan' = Tail(plan) /\ task' = Idle
Goes(t)  == task' = t /\ UNCHANGED plan
Goto(pc) == Goes([task EXCEPT !.pc = pc])

(* The pass goes on with the next of the media it has read, if any. *)
NextOf(rest, pc) ==
    IF rest = {} THEN EndPass ELSE Goes([Idle EXCEPT !.pc = pc, !.todo = rest, !.ctx = task.ctx])

(* A statement that SQLite refuses: the database is locked by the other    *)
(* process, or the disk is full.                                           *)
Bounded == count.events + count.faults + count.crashes < MaxTrouble

Fails == Bounded /\ count.faults < MaxFaults /\ count' = [count EXCEPT !.faults = @ + 1]
Works == UNCHANGED count

Happens == Bounded /\ count.events < MaxEvents /\ count' = [count EXCEPT !.events = @ + 1]

(* The slices a batched pass may take of what it has read. *)
BatchesOf(S) == kSubset(IF Cardinality(S) < EmbedBatch THEN Cardinality(S) ELSE EmbedBatch, S)

---------------------------------------------------------------------------
(* Users and disks.                                                        *)

(* A file appears, is replaced or vanishes. *)
FileChanges ==
    /\ Happens
    /\ \E m \in library : \E c \in (Contents \cup {Opaque, Corrupt, NoFile}) \ {file[m]} :
          file' = [file EXCEPT ![m] = c]
    /\ UNCHANGED <<library, folder, thumbs, uuids, plan, task>>

(* Enabling or disabling AI tagging. *)
FolderToggles ==
    /\ Happens
    /\ folder # "gone"
    /\ folder' = IF folder = "ai" THEN "plain" ELSE "ai"
    /\ UNCHANGED <<library, file, thumbs, uuids, plan, task>>
=============================================================================
