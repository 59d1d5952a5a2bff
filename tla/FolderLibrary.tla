---------------------------- MODULE FolderLibrary ----------------------------
(***************************************************************************)
(* The library: the rows of the folders table with their processing flags, *)
(* the media rows below them, the handlers of /folders, which run in the   *)
(* threads of uvicorn's pool, and the three sequences that the single      *)
(* worker process of the executor runs for them.  A step is one SQLite     *)
(* transaction or one look at the disk; nothing is held between two steps. *)
(*                                                                         *)
(* One media file stands for everything in a directory: it is on disk as   *)
(* long as the directory is, and media[p] is its row in images or videos.  *)
(* A UUID is the pair of the walk that drew it and the path it was drawn   *)
(* for; the ids of walk 0 belong to the library the run starts with.       *)
(***************************************************************************)
EXTENDS Naturals, Sequences, FiniteSets

CONSTANTS
    Paths,          \* directories
    Parent,         \* os.path.dirname of each, NoPath at the top
    Subtree,        \* the directories at and below each
    Prefixed,       \* what folder_path LIKE root || '%' matches for each
    NoPath,
    Library,        \* directories added and indexed before the run starts
    Volatile,       \* directories that come and go on disk
    NoId,           \* NULL
    Callers,        \* handler threads
    Kinds,          \* the requests that are made
    MaxRequests,    \* how many of them
    FaultKinds,     \* what may go wrong
    MaxFaults       \* ... how often

ASSUME PathsAssumption ==
    /\ NoPath \notin Paths
    /\ Parent \in [Paths -> Paths \cup {NoPath}]
    /\ Subtree \in [Paths -> SUBSET Paths]
    /\ \A p \in Paths : \A q \in Subtree[p] : q # p => Parent[q] \in Subtree[p]
    /\ Prefixed \in [Paths -> SUBSET Paths]
    /\ Library \subseteq Paths /\ Volatile \subseteq Paths
ASSUME IdsAssumption == NoId \notin Nat \X Paths
ASSUME KindsAssumption == Kinds \subseteq {"add", "enable", "disable", "delete", "sync"}
(* "raise": a sequence raises.  "index": reading or writing media fails.   *)
(* "flag": the database refuses a write of the flags.  "worker_death": the *)
(* worker process dies.  "restart": the app is killed and started again.   *)
ASSUME FaultsAssumption ==
    FaultKinds \subseteq {"raise", "index", "flag", "worker_death", "restart"}
ASSUME BoundsAssumption == MaxRequests \in Nat /\ MaxFaults \in Nat

VARIABLES
    dirs,       \* directories on disk
    folder,     \* the folders table, by folder_id
    media,      \* the images and videos tables, by path
    walks,      \* walks of a directory tree so far
    call,       \* local state of each handler
    queue,      \* the executor's pending jobs, oldest first
    worker,     \* local state of the worker process
    requests,   \* requests made so far
    alive,      \* whether the executor takes jobs
    faults,     \* faults so far
    lost,       \* the flags a refused write has left up
    missed      \* folders of which an add has not read or written everything

disk == <<dirs>>
tables == <<folder, media>>
handlers == <<call, walks, requests>>
mishaps == <<alive, faults, lost, missed>>
vars == <<dirs, folder, media, walks, call, queue, worker, requests, alive, faults, lost, missed>>

Ids == Nat \X Paths
PathOf(i) == i[2]

Row == [parent   : Ids \cup {NoId},
        ai       : BOOLEAN,     \* AI_Tagging
        tagged   : BOOLEAN,     \* taggingCompleted, NULL read as 0
        indexing : {"not_started", "in_progress", "completed", "interrupted"}]

MediaRow == [folder : Ids, tagged : BOOLEAN]

Call == [pc     : {"idle", "parent", "read", "delete", "insert", "link", "submit"},
         op     : {"none", "add", "sync", "enable"},
         path   : Paths \cup {NoPath},
         parent : Ids \cup {NoId},  \* of the trees to insert
         doomed : SUBSET Ids,       \* children that sync found gone
         todo   : SUBSET Paths,     \* roots of the trees still to insert
         root   : Paths \cup {NoPath},
         tree   : SUBSET Paths,     \* folder_map of the last walk
         walk   : Nat,
         added  : SUBSET Ids]       \* ids handed on to the sync sequence

IdleCall == [pc |-> "idle", op |-> "none", path |-> NoPath, parent |-> NoId,
             doomed |-> {}, todo |-> {}, root |-> NoPath, tree |-> {},
             walk |-> 0, added |-> {}]

Job == [kind : {"add", "tag", "sync"}, path : Paths \cup {NoPath}, targets : SUBSET Ids]

Worker == [pc      : {"idle", "collect", "write", "complete", "untagged", "tag", "flagup"},
           kind    : {"none", "add", "tag", "sync"},
           path    : Paths \cup {NoPath},
           targets : SUBSET Ids,    \* the folders to index
           records : SUBSET Ids,    \* those in which files were found
           todo    : SUBSET Paths]  \* media still to tag

IdleWorker == [pc |-> "idle", kind |-> "none", path |-> NoPath,
               targets |-> {}, records |-> {}, todo |-> {}]

---------------------------------------------------------------------------
(* The statements of database/folders.py and database/images.py.           *)

Rows == DOMAIN folder

RowsAt(p) == {i \in Rows : PathOf(i) = p}

NewRow == [parent |-> NoId, ai |-> FALSE, tagged |-> FALSE, indexing |-> "not_started"]

(* ON DELETE CASCADE: S and, transitively, every row whose parent goes. *)
Cascade(S) ==
    {i \in Rows : \A D \in SUBSET Rows :
        S \subseteq D /\ (\A j \in Rows : folder[j].parent \in D => j \in D) => i \in D}

(* db_delete_folders_batch, which turns foreign keys on *)
DeleteFolders(S) ==
    LET gone == Cascade(S \cap Rows)
    IN  /\ folder' = [i \in Rows \ gone |-> folder[i]]
        /\ media' = [p \in {q \in DOMAIN media : media[q].folder \notin gone} |-> media[p]]

(* db_update_ai_tagging_batch *)
SetAI(S, on) ==
    folder' = [i \in Rows |-> IF i \in S THEN [folder[i] EXCEPT !.ai = on] ELSE folder[i]]

(* db_set_tagging_completed *)
SetTagged(done) ==
    folder' = [i \in Rows |-> IF folder[i].ai THEN [folder[i] EXCEPT !.tagged = done]
                                              ELSE folder[i]]

(* Mutant: a status nothing recognises is written. *)
SetIndexingUnchecked(S, status) ==
    folder' = [i \in Rows |-> IF i \in S THEN [folder[i] EXCEPT !.indexing = "done"]
                                         ELSE folder[i]]

(* db_update_folder_indexing_status, for each of S *)
SetIndexing(S, status) ==
    folder' = [i \in Rows |-> IF i \in S THEN [folder[i] EXCEPT !.indexing = status]
                                         ELSE folder[i]]

(* What db_is_indexing_busy looks for. *)
Busy(i) == folder[i].indexing = "in_progress" \/ (folder[i].ai /\ ~folder[i].tagged)

---------------------------------------------------------------------------
Init ==
    /\ dirs = Paths
    /\ folder = [i \in {0} \X Library |->
                   [NewRow EXCEPT !.indexing = "completed",
                                  !.parent = IF Parent[PathOf(i)] \in Library
                                             THEN <<0, Parent[PathOf(i)]>> ELSE NoId]]
    /\ media = [p \in Library |-> [folder |-> <<0, p>>, tagged |-> FALSE]]
    /\ walks = 0
    /\ call = [c \in Callers |-> IdleCall]
    /\ queue = <<>>
    /\ worker = IdleWorker
    /\ requests = 0
    /\ alive = TRUE
    /\ faults = 0
    /\ lost = {}
    /\ missed = {}

(* The disk changes behind the application's back. *)
Appear(p) ==
    /\ p \in Volatile \ dirs
    /\ Parent[p] \in dirs \cup {NoPath}
    /\ dirs' = dirs \cup {p}
    /\ UNCHANGED <<tables, handlers, queue, worker, mishaps>>

Disappear(p) ==
    /\ p \in Volatile \cap dirs
    /\ dirs' = dirs \ Subtree[p]
    /\ UNCHANGED <<tables, handlers, queue, worker, mishaps>>

Request(kind) ==
    /\ kind \in Kinds
    /\ requests < MaxRequests
    /\ requests' = requests + 1

---------------------------------------------------------------------------
(* Handlers of one transaction: disable_ai_tagging, delete_folders.        *)

DisableAITagging(S) ==
    /\ Request("disable")
    /\ SetAI(S, FALSE)
    /\ UNCHANGED <<disk, media, call, walks, queue, worker, mishaps>>

DeleteRequest(S) ==
    /\ Request("delete")
    /\ DeleteFolders(S)
    /\ UNCHANGED <<disk, call, walks, queue, worker, mishaps>>

(* enable_ai_tagging: the rows first, the job after. *)
EnableAITagging(c, S) ==
    /\ call[c].pc = "idle"
    /\ Request("enable")
    /\ SetAI(S, TRUE)
    /\ call' = [call EXCEPT ![c] = [IdleCall EXCEPT !.pc = "submit", !.op = "enable"]]
    /\ UNCHANGED <<disk, media, walks, queue, worker, mishaps>>

(* add_folder: a directory that has a row is answered with 409. *)
AddFolder(c, p) ==
    /\ call[c].pc = "idle"
    /\ p \in dirs /\ RowsAt(p) = {}
    /\ Request("add")
    /\ call' = [call EXCEPT ![c] = [IdleCall EXCEPT !.pc = "parent", !.op = "add",
                                                    !.path = p, !.todo = {p}]]
    /\ UNCHANGED <<disk, tables, walks, queue, worker, mishaps>>

(* db_find_parent_folder_id *)
FindParent(c) ==
    /\ call[c].pc = "parent"
    /\ \E i \in RowsAt(Parent[call[c].path]) \cup {NoId} :
          /\ i = NoId => RowsAt(Parent[call[c].path]) = {}
          /\ call' = [call EXCEPT ![c].pc = "insert", ![c].parent = i]
    /\ UNCHANGED <<disk, tables, walks, queue, worker, requests, mishaps>>

(* sync_folder, for a folder the user sees in the list. *)
SyncFolder(c, i) ==
    /\ call[c].pc = "idle"
    /\ Request("sync")
    /\ call' = [call EXCEPT ![c] = [IdleCall EXCEPT !.pc = "read", !.op = "sync",
                                                    !.path = PathOf(i), !.parent = i]]
    /\ UNCHANGED <<disk, tables, walks, queue, worker, mishaps>>

(* db_get_direct_child_folders and listdir of the directory; if that is     *)
(* gone the request fails.                                                 *)
CompareWithDisk(c) ==
    /\ call[c].pc = "read"
    /\ LET children == {j \in Rows : folder[j].parent = call[c].parent}
           onDisk   == {q \in dirs : Parent[q] = call[c].path}
       IN  call' = [call EXCEPT ![c] =
                      IF call[c].path \notin dirs THEN IdleCall
                      ELSE [@ EXCEPT !.pc = "delete",
                                     !.doomed = {j \in children : PathOf(j) \notin onDisk},
                                     !.todo = onDisk \ {PathOf(j) : j \in children}]]
    /\ UNCHANGED <<disk, tables, walks, queue, worker, requests, mishaps>>

InsertOrSubmit(todo) == IF todo = {} THEN "submit" ELSE "insert"

DeleteObsolete(c) ==
    /\ call[c].pc = "delete"
    /\ DeleteFolders(call[c].doomed)
    /\ call' = [call EXCEPT ![c].pc = InsertOrSubmit(call[c].todo), ![c].doomed = {}]
    /\ UNCHANGED <<disk, walks, queue, worker, requests, mishaps>>

(* folder_util_add_folder_tree: walk the tree, draw an id for every        *)
(* directory in it and INSERT OR IGNORE the rows, whose path is UNIQUE.    *)
(* folder_map holds the ids drawn, also those of the rows ignored.         *)
InsertTree(c, r) ==
    /\ call[c].pc = "insert" /\ r \in call[c].todo \cap dirs
    /\ LET tree == Subtree[r] \cap dirs
           new  == {<<walks + 1, q>> : q \in {q \in tree : RowsAt(q) = {}}}
       IN  /\ folder' = [i \in Rows \cup new |-> IF i \in Rows THEN folder[i] ELSE NewRow]
           /\ walks' = walks + 1
           /\ call' = [call EXCEPT ![c].pc = "link", ![c].root = r, ![c].tree = tree,
                                   ![c].walk = walks + 1, ![c].todo = @ \ {r}]
    /\ UNCHANGED <<disk, media, queue, worker, requests, mishaps>>

(* The root is gone: an add fails, a sync goes on to the next root. *)
SkipTree(c, r) ==
    /\ call[c].pc = "insert" /\ r \in call[c].todo \ dirs
    /\ call' = [call EXCEPT ![c] =
                  IF call[c].op = "add" THEN IdleCall
                  ELSE [@ EXCEPT !.pc = InsertOrSubmit(call[c].todo \ {r}),
                                 !.todo = call[c].todo \ {r}]]
    /\ UNCHANGED <<disk, tables, walks, queue, worker, requests, mishaps>>

(* The id that folder_map says is the parent of q. *)
MappedParent(c, q) ==
    IF q = call[c].root THEN call[c].parent ELSE <<call[c].walk, Parent[q]>>

(* db_update_parent_ids_for_subtree: only rows without a parent, found by  *)
(* their path; foreign keys are off on this connection.                    *)
LinkTree(c) ==
    /\ call[c].pc = "link"
    /\ folder' = [i \in Rows |->
                    IF PathOf(i) \in call[c].tree /\ folder[i].parent = NoId
                    THEN [folder[i] EXCEPT !.parent = MappedParent(c, PathOf(i))]
                    ELSE folder[i]]
    /\ call' = [call EXCEPT ![c].pc = InsertOrSubmit(call[c].todo),
                            ![c].added = @ \cup ({call[c].walk} \X call[c].tree),
                            ![c].root = NoPath, ![c].tree = {}, ![c].walk = 0]
    /\ UNCHANGED <<disk, media, walks, queue, worker, requests, mishaps>>

(* The job of a request: the add sequence is given the path, the sync      *)
(* sequence the folder and the ids its handler drew.                       *)
JobOf(c) ==
    CASE call[c].op = "add"    -> [kind |-> "add", path |-> call[c].path, targets |-> {}]
      [] call[c].op = "enable" -> [kind |-> "tag", path |-> NoPath, targets |-> {}]
      [] OTHER                 -> [kind |-> "sync", path |-> call[c].path,
                                   targets |-> {call[c].parent} \cup call[c].added]

(* A broken executor refuses the job.  The request is answered with 500    *)
(* and what it has written stays.                                          *)
Submit(c) ==
    /\ call[c].pc = "submit"
    /\ queue' = IF alive THEN Append(queue, JobOf(c)) ELSE queue
    /\ call' = [call EXCEPT ![c] = IdleCall]
    /\ UNCHANGED <<disk, tables, walks, worker, requests, mishaps>>

---------------------------------------------------------------------------
(* The worker process.                                                     *)

NextJobIs(kinds) == worker.pc = "idle" /\ queue # <<>> /\ Head(queue).kind \in kinds

(* post_folder_add_sequence: the rows below the path, marked one by one    *)
(* (a row that comes or goes meanwhile does so after this step).  A write  *)
(* of a flag that the database refuses is logged and forgotten; which ones *)
(* are refused, and the count of faults, is left to the step.              *)
StartAdd(refused) ==
    /\ NextJobIs({"add"})
    /\ LET targets == {i \in Rows : PathOf(i) \in Prefixed[Head(queue).path]}
       IN  /\ SetIndexing(targets \ refused, "in_progress")
           /\ worker' = [IdleWorker EXCEPT !.pc = "collect", !.kind = "add",
                                           !.path = Head(queue).path, !.targets = targets]
    /\ queue' = Tail(queue)
    /\ UNCHANGED <<disk, media, handlers, alive, lost, missed>>

(* post_AI_tagging_enabled_sequence and post_sync_folder_sequence begin by *)
(* putting every AI-tagged folder back to pending.                         *)
StartTagging(refused) ==
    /\ NextJobIs({"tag", "sync"})
    /\ IF refused THEN UNCHANGED folder ELSE SetTagged(FALSE)
    /\ LET job == Head(queue)
       IN  worker' = [IdleWorker EXCEPT !.pc = IF job.kind = "sync" THEN "collect" ELSE "untagged",
                                        !.kind = job.kind, !.path = job.path,
                                        !.targets = job.targets]
    /\ queue' = Tail(queue)
    /\ UNCHANGED <<disk, media, handlers, alive, lost, missed>>

(* The add sequence ignores what the indexing returns. *)
Missed(S) == IF worker.kind = "add" THEN missed \cup S ELSE missed

(* image_util_process_folder_images: read the directories, and skip one    *)
(* that raises ...                                                         *)
Collect(unread) ==
    /\ worker.pc = "collect"
    /\ worker' = [worker EXCEPT !.pc = "write",
                                !.records = {i \in worker.targets : PathOf(i) \in dirs} \ unread]
    /\ missed' = Missed(unread)
    /\ UNCHANGED <<disk, tables, handlers, queue, alive, lost>>

Kept == {p \in DOMAIN media : media[p].folder \in worker.targets => p \in dirs}

(* One record whose folder has no row and none of them is written. *)
Written == IF worker.records \subseteq Rows THEN {PathOf(i) : i \in worker.records} ELSE {}

(* ... drop the rows of files that are gone, and upsert the records in one *)
(* transaction.  Each returns FALSE when it has failed.                    *)
WriteMedia(kept, written) ==
    /\ worker.pc = "write"
    /\ LET owner(p) == CHOOSE i \in worker.records : PathOf(i) = p
       IN  media' = [p \in kept \cup written |->
                       IF p \in written
                       THEN [folder |-> owner(p), tagged |-> p \in kept /\ media[p].tagged]
                       ELSE media[p]]
    /\ worker' = [worker EXCEPT !.pc = IF worker.kind = "add" THEN "complete" ELSE "untagged"]
    /\ missed' = IF \A i \in worker.records : PathOf(i) \in written THEN missed
                 ELSE Missed(worker.targets)
    /\ UNCHANGED <<disk, folder, handlers, queue, alive, lost>>

CompleteAdd(refused) ==
    /\ worker.pc = "complete"
    /\ SetIndexing(worker.targets \ refused, "completed")
    /\ worker' = IdleWorker
    /\ lost' = IF refused = {} THEN lost ELSE lost \cup {"indexing"}
    /\ UNCHANGED <<disk, media, handlers, queue, alive, missed>>

(* Mutant: only what the sequence itself indexed is tagged. *)
ReadUntaggedOfTargets ==
    /\ worker.pc = "untagged"
    /\ worker' = [worker EXCEPT !.pc = "tag",
                                !.todo = {p \in DOMAIN media : /\ media[p].folder \in worker.targets
                                                               /\ ~media[p].tagged}]
    /\ UNCHANGED <<disk, tables, handlers, queue, mishaps>>

(* db_get_untagged_images *)
ReadUntagged ==
    /\ worker.pc = "untagged"
    /\ worker' = [worker EXCEPT !.pc = "tag",
                                !.todo = {p \in DOMAIN media : /\ media[p].folder \in Rows
                                                               /\ folder[media[p].folder].ai
                                                               /\ ~media[p].tagged}]
    /\ UNCHANGED <<disk, tables, handlers, queue, mishaps>>

(* image_util_classify_and_face_detect_images; a row deleted meanwhile is  *)
(* not found by the UPDATE.                                                *)
TagOne ==
    /\ worker.pc = "tag"
    /\ \E p \in worker.todo :
          /\ worker' = [worker EXCEPT !.todo = @ \ {p}]
          /\ media' = [q \in DOMAIN media |-> IF q = p THEN [media[q] EXCEPT !.tagged = TRUE]
                                                       ELSE media[q]]
    /\ UNCHANGED <<disk, folder, handlers, queue, mishaps>>

(* Mutant: it looks for more before it finishes, and never stops looking. *)
TagDoneLooking ==
    /\ worker.pc = "tag" /\ worker.todo = {}
    /\ worker' = [worker EXCEPT !.pc = "untagged"]
    /\ UNCHANGED <<disk, tables, handlers, queue, mishaps>>

TagDone ==
    /\ worker.pc = "tag" /\ worker.todo = {}
    /\ worker' = [worker EXCEPT !.pc = "flagup"]
    /\ UNCHANGED <<disk, tables, handlers, queue, mishaps>>

(* The finally clause: every AI-tagged folder is finished. *)
FinishTagging(refused) ==
    /\ worker.pc = "flagup"
    /\ IF refused THEN UNCHANGED folder ELSE SetTagged(TRUE)
    /\ worker' = IdleWorker
    /\ lost' = IF refused THEN lost \cup {"tagging"} ELSE lost \ {"tagging"}
    /\ UNCHANGED <<disk, media, handlers, queue, alive, missed>>

---------------------------------------------------------------------------
(* Faults.                                                                 *)

Fault(kind) ==
    /\ kind \in FaultKinds
    /\ faults < MaxFaults
    /\ faults' = faults + 1

(* Mutant: the flag is cleared as "completed". *)
InterruptAsCompleted(refused) == SetIndexing(worker.targets \ refused, "completed")

(* db_update_folder_indexing_status with "interrupted", for each target. *)
Interrupt(refused) == SetIndexing(worker.targets \ refused, "interrupted")

(* The add sequence raises, which only its own statements can make it do:  *)
(* it is marking or finishing the folders, and those are interrupted, or   *)
(* it has not got them yet.                                                *)
AddRaises ==
    /\ Fault("raise")
    /\ \/ \E refused \in SUBSET worker.targets :
             /\ worker.pc \in {"collect", "complete"} /\ worker.kind = "add"
             /\ refused = {} \/ "flag" \in FaultKinds
             /\ Interrupt(refused)
             /\ worker' = IdleWorker
             /\ lost' = IF refused = {} THEN lost ELSE lost \cup {"indexing"}
             /\ UNCHANGED queue
       \/ /\ NextJobIs({"add"})
          /\ queue' = Tail(queue)
          /\ UNCHANGED <<folder, worker, lost>>
    /\ UNCHANGED <<disk, media, handlers, alive, missed>>

(* The others go straight to their finally clause. *)
TaggingRaises ==
    /\ Fault("raise")
    /\ \/ /\ worker.pc \in {"untagged", "tag"}
          /\ worker' = [worker EXCEPT !.pc = "flagup", !.todo = {}]
          /\ UNCHANGED queue
       \/ /\ NextJobIs({"tag", "sync"})
          /\ worker' = [IdleWorker EXCEPT !.pc = "flagup", !.kind = Head(queue).kind]
          /\ queue' = Tail(queue)
    /\ UNCHANGED <<disk, tables, handlers, alive, lost, missed>>

(* A directory cannot be read, or a statement of the indexing is refused.  *)
IndexingFails ==
    /\ Fault("index")
    /\ \/ \E unread \in (SUBSET worker.targets) \ {{}} : Collect(unread)
       \/ \E kept \in {Kept, DOMAIN media}, written \in {Written, {}} : WriteMedia(kept, written)

(* The database refuses a write of a flag. *)
FlagRefused ==
    /\ Fault("flag")
    /\ \/ \E refused \in (SUBSET Rows) \ {{}} : StartAdd(refused)
       \/ \E refused \in (SUBSET worker.targets) \ {{}} : CompleteAdd(refused)
       \/ StartTagging(TRUE) \/ FinishTagging(TRUE)

(* The worker process dies and breaks the executor: what is queued fails,  *)
(* and nobody clears the flags.                                            *)
WorkerDies ==
    /\ Fault("worker_death")
    /\ alive /\ alive' = FALSE
    /\ queue' = <<>>
    /\ worker' = IdleWorker
    /\ UNCHANGED <<disk, tables, handlers, lost, missed>>

(* Mutant: only the tagging flags are cleared. *)
FlagsClearedOfTagging == [i \in Rows |-> [folder[i] EXCEPT !.tagged = @ \/ folder[i].ai]]

(* db_clear_stale_processing_flags *)
FlagsCleared ==
    [i \in Rows |->
       [folder[i] EXCEPT !.tagged = @ \/ folder[i].ai,
                         !.indexing = IF @ = "in_progress" THEN "interrupted" ELSE @]]

(* The app is killed and started again; the start goes on when the         *)
(* clearing of the flags is refused.                                       *)
Restart ==
    /\ Fault("restart")
    /\ \/ folder' = FlagsCleared /\ lost' = {}
       \/ "flag" \in FaultKinds /\ lost' = {"indexing", "tagging"} /\ UNCHANGED folder
    /\ alive' = TRUE
    /\ call' = [c \in Callers |-> IdleCall]
    /\ queue' = <<>>
    /\ worker' = IdleWorker
    /\ UNCHANGED <<disk, media, walks, requests, missed>>

---------------------------------------------------------------------------
HandlerStep(c) ==
    \/ FindParent(c) \/ CompareWithDisk(c) \/ DeleteObsolete(c)
    \/ \E r \in Paths : InsertTree(c, r) \/ SkipTree(c, r)
    \/ LinkTree(c) \/ Submit(c)

WorkerStep ==
    \/ /\ \/ StartAdd({}) \/ StartTagging(FALSE)
          \/ Collect({}) \/ WriteMedia(Kept, Written)
          \/ CompleteAdd({}) \/ FinishTagging(FALSE)
       /\ UNCHANGED faults
    \/ ReadUntagged \/ TagOne \/ TagDone

UserStep ==
    \/ \E S \in (SUBSET Rows) \ {{}} : DisableAITagging(S) \/ DeleteRequest(S)
    \/ \E c \in Callers : \/ \E S \in (SUBSET Rows) \ {{}} : EnableAITagging(c, S)
                          \/ \E p \in Paths : AddFolder(c, p)
                          \/ \E i \in Rows : SyncFolder(c, i)

Next ==
    \/ UserStep
    \/ \E c \in Callers : HandlerStep(c)
    \/ WorkerStep
    \/ \E p \in Paths : Appear(p) \/ Disappear(p)
    \/ AddRaises \/ TaggingRaises \/ IndexingFails \/ FlagRefused
    \/ WorkerDies \/ Restart

Spec == Init /\ [][Next]_vars

(* A started handler goes on and the worker does not hang. *)
FairSpec ==
    /\ Spec
    /\ \A c \in Callers : WF_vars(HandlerStep(c))
    /\ WF_vars(WorkerStep)

---------------------------------------------------------------------------
FolderOK == Rows \subseteq Ids /\ folder \in [Rows -> Row]
MediaOK == DOMAIN media \subseteq Paths /\ media \in [DOMAIN media -> MediaRow]

TypeOK ==
    /\ dirs \subseteq Paths
    /\ FolderOK
    /\ MediaOK
    /\ walks \in Nat
    /\ call \in [Callers -> Call]
    /\ queue \in Seq(Job)
    /\ worker \in Worker
    /\ requests \in 0 .. MaxRequests
    /\ alive \in BOOLEAN
    /\ faults \in 0 .. MaxFaults
    /\ lost \subseteq {"indexing", "tagging"}
    /\ missed \subseteq Ids

(* A tagging or sync sequence is coming or under way, or a handler is      *)
(* about to queue one.                                                     *)
TaggingIsDue ==
    \/ \E c \in Callers : call[c].pc = "submit" /\ call[c].op = "enable"
    \/ \E n \in 1 .. Len(queue) : queue[n].kind \in {"tag", "sync"}
    \/ worker.kind \in {"tag", "sync"}

(* While the executor works, a folder is not left busy: one that is being  *)
(* indexed is in the hands of the worker, and for one that is being tagged *)
(* a sequence that ends by finishing every tagged folder is still to come, *)
(* whatever raises and whenever the app is started again.  A busy folder   *)
(* nobody owns "would block memory generation forever"                     *)
(* (database/folders.py:517).  It comes about when the worker process dies *)
(* or the database refuses the write that ends a flag.                     *)
BusyIsOwned ==
    alive =>
        \A i \in Rows :
            /\ folder[i].indexing = "in_progress" =>
                  \/ worker.kind = "add" /\ i \in worker.targets
                  \/ "indexing" \in lost
            /\ folder[i].ai /\ ~folder[i].tagged => TaggingIsDue \/ "tagging" \in lost

(* ... so every busy folder stops being busy, unless one of those happens. *)
BusyEnds ==
    \A p \in Paths : (\E i \in RowsAt(p) : Busy(i)) ~>
                        (\A i \in RowsAt(p) : ~Busy(i)) \/ ~alive \/ lost # {}

Indexed(i) == PathOf(i) \in DOMAIN media /\ media[PathOf(i)].folder = i

(* The directories that stay on disk. *)
Stays(p) == \A v \in Volatile : p \notin Subtree[v]

(* "completed" claims a file set that was read: the files of the folder    *)
(* have rows, whatever is deleted, synced, added twice or raised meanwhile *)
(* (routes/folders.py:129-130).  An add that misses some of the files, for *)
(* it could not read the directory or the one INSERT of all the files was  *)
(* refused, does claim it: this is not said of the folders of such an add. *)
CompletedMeansIndexed ==
    \A i \in Rows :
        folder[i].indexing = "completed" /\ i \notin missed /\ Stays(PathOf(i)) => Indexed(i)

Quiet == queue = <<>> /\ worker = IdleWorker /\ \A c \in Callers : call[c] = IdleCall

(* Once all the work is done, everything in a folder with AI tagging is    *)
(* tagged: enabling it while a sequence is under way, and files that a     *)
(* sync finds, are not forgotten (routes/folders.py:317-320, 188-192).     *)
NothingLeftUntagged ==
    Quiet => \A p \in DOMAIN media : folder[media[p].folder].ai => media[p].tagged

(* An interrupted folder is finished by a sync: "Indexing was interrupted  *)
(* - sync to finish" (FolderManagementCard.tsx:258).                       *)
SyncFinishes ==
    [][worker.pc = "flagup" /\ worker.kind = "sync" =>
          \A i \in Rows \cap worker.records :
              PathOf(i) = worker.path => folder'[i].indexing # "interrupted"]_vars

=============================================================================
