# PictoPy: TLA+ models and proofs

PictoPy is a desktop photo library. A FastAPI backend (`backend/`) keeps the
library in one SQLite database and does the heavy work (indexing, tagging,
memory generation) in a `ProcessPoolExecutor` with a single worker process. A
second small service (`sync-microservice/`) watches the library's directories
and calls the backend when something changes. A Tauri and React frontend
(`frontend/`) issues the requests. Albums can be shared on the local network by
a listener that the backend starts and stops.

What is hard to test here is what happens *between* the parts: request handlers
run in a thread pool, each SQL statement is a transaction of its own, a job waits
in the worker's queue while the rows it will touch change, and the whole process
tree may be killed at any moment. The modules in this directory model those
protocols, and the rules by which faces become people and photos become
memories, as functions of what is in the tables. The inference itself is
abstracted away: a photo shows objects and faces, an embedding is a point.

All source paths below are relative to `src/backend/app/` unless they start
with `frontend/`, `sync-microservice/` or `backend/`.

## Inventory

| Component | State | Operations | What is hard | What makes it correct |
|---|---|---|---|---|
| Memory runs: `routes/memories.py`, `database/memories.py`, `utils/memory_curator.py` | table `memory_runs` (one row per date), worker queue, the memories preference | generate, status poll, the pass, `_release_run` callbacks, the reaper | read and claim in two transactions, a worker that dies, a preference that changes between claim and pass, restarts | every claim is closed; a complete date is not reported failed; no duplicate pass |
| Folder library: `routes/folders.py`, `database/folders.py`, `utils/folders.py`, `utils/images.py`, `database/images.py` | `folders` (path, parent, AI flag, tagging flag, indexing status), media rows, queue | add, sync, delete, enable and disable AI tagging, three worker sequences, startup reset | deletes and syncs around a running walk, exceptions half way, restarts, directories that come and go | no folder busy for ever; "completed" means indexed; nothing tagged is forgotten |
| Unlocking a share: `share/registry.py`, `share/routes.py` | failed and pending attempts, `locked_until` of an entry | reserve, hash outside the mutex, release | bursts of requests, late outcomes | the limit holds for concurrent guesses; a cooldown ends and is not disturbed |
| Share registry and listener: `share/registry.py`, `share/server.py`, `utils/share.py`, `routes/share.py` | shares in memory, the uvicorn task and its port, two asyncio locks | create, revoke, expiry, start, stop, done callback | a revoke against a create, a listener that dies, awaiting the task | a live share is served; the port closes after the last revoke |
| File watcher: `sync-microservice/app/utils/watcher.py` | the watcher thread, one stop event, the watched folders | start, stop, restart (from a route and from the watcher's own thread), sync and delete calls | a thread that restarts itself, a join that times out, stale folder ids | one watcher; what was started watches; stopping ends |
| Image and video indexing: `utils/images.py`, `utils/videos.py`, `database/images.py`, `database/videos.py`, `database/video_frames.py` | rows, thumbnails, frames, faces, the tagged and embedded flags | scan, tag, sample keyframes, embed, purge of the keyframe cache | crash or exception between inserting faces and setting the flag, re-index over existing rows, a purge under a tagging pass | flags follow effects; keyframes are one sample; what is listed only gains |
| Semantic labels and search: `utils/semantic_labels.py`, `database/semantic_labels.py`, `database/image_embeddings.py` | label embeddings, scores, version stamps | seed, score sweep, search | a vocabulary or model version that changes under stored scores | scores belong to the current version |
| Face clusters: `utils/face_clusters.py`, `database/face_clusters.py`, `database/faces.py`, `routes/face_clusters.py` | clusters, face assignments, the metadata row's clustering stamp | full and incremental clustering, rename, merge, search | a rename during a recluster; read-modify-write of the metadata row | names survive; every face has at most one cluster that exists |
| Preferences: `database/metadata.py`, `routes/user_preferences.py` | one JSON row | read-modify-write | two writers | no update is lost |
| Memory contents: `utils/memory_curator.py`, `utils/memory_scoring.py`, `database/memories.py` | memories and their images, favourites, dismissals | triggers, upsert, stale deletion, surfacing | re-runs over existing memories | a user's choices survive a re-run |
| Albums: `routes/albums.py`, `database/albums.py` | albums, membership, passwords | create, update, add and remove images | images that are re-indexed | membership refers to images that exist |
| Model store: `routes/models.py`, `utils/model_downloader.py`, `models/model_registry.py`, `models/session_registry.py` | model files, download tasks, open sessions | download, progress, delete, bootstrap | delete against download, a session opened meanwhile | a file that is reported present is complete |
| Lifespan: `backend/main.py` | executor, startup reset | startup, shutdown | what a crash leaves | flags are reset, the listener is stopped |
| ONNX inference, metadata extraction, network, logging, configuration, frontend | none that the protocols read | | | not modelled |

Interactions: routes call database helpers directly and hand jobs to the
executor; a folder sequence ends in a memory pass (`_curate_memories`) and in a
restart of the watcher (HTTP); the watcher calls the folder routes (HTTP); the
frontend polls the status; sharing reads albums.

## Plan

Done, in the order in which they were written: `MemoryRuns` and
`FolderLibrary` (the two protocols of the worker and the database),
`ShareUnlock`, `ShareServer` and `Watcher`; then the media pipeline with its
abstract specification (`Media` to `MediaPipeline`, `MediaItems`), and the gallery:
people, albums and the contents of memories over one library (`PhotoLibrary` to
`Gallery`).

Left:

1. `ModelStore`: download tasks, their bookkeeping, deletion, and sessions opened
   meanwhile.
2. The composition of `Watcher` with `FolderLibrary`: what a sync call with the id
   of a deleted folder does (each side is modelled, the two have not been put
   together), and of `MemoryRuns` with `Memories`, which meet in one line: a pass
   that `MemoryRuns` lets begin is a `BeginCuration` of `Memories`.

## Modules

### MemoryRuns

One row of `memory_runs` per date (`run`: status, and the age since
`started_at` in ticks). A step is one transaction. `Generate`, `ReadRun`,
`ReadPreferences`, `Claim`, `Submit` are the database accesses of
`generate_memories` in order; `Begin` to `CuratorReleaseWrite` those of
`memory_curator_run`; `ReleaseRead` and `ReleaseWrite` the two of `_release_run`,
which runs as a done callback or after a refused submit; `Poll` and the first
step of `Generate` are the reaper. `SubmitLibraryJob` queues the pass at the end
of a folder sequence. `Curate` chooses between the end of the triggers and an
exception. Faults: `CuratorError` (a database error in the worker),
`ReleaseError`, `WorkerDies` (the executor is broken from then on, its futures
fail), `Restart`. Two history variables serve the properties: `faults` counts
them by kind, `disowned` says that a claim may have lost its owner in one of the
ways the code accepts (restart, error while releasing, fault inside a folder
sequence).

The request's done callback is registered in the step of `Submit`. In the code
it is registered just after `submit`; on a future that is already done it runs
at registration, so the difference is only a delay of the release.

### FolderLibrary

Directories are the members of `Paths`, with `Parent`, `Subtree` and `Prefixed`
(what `LIKE 'path%'` matches, a sibling with the same prefix included) as
constants. `folder` maps the ids of existing rows to their columns; `media` maps
a path whose files have rows to the folder id they carry and their tagged flag
(all files of one directory are one value: the code treats them in one bulk
statement). `call` holds what a handler carries from one database access to the
next (ids drawn for a walk, children read, paths to add), `queue` the executor's
pending jobs, `worker` the running sequence with what it has read. Handlers that
make one statement (`DisableAITagging`, `DeleteRequest`, `EnableAITagging`'s
update) are one action; add and sync are split at every statement. A submit is
refused once the executor is broken (`alive`): what the request has committed
stays.

Faults, one kind each in `FaultKinds`: a sequence raises (`AddRaises`,
`TaggingRaises`); the indexing fails (`IndexingFails`: a directory that cannot be
read is skipped, a refused delete or insert returns `False`); the database refuses a
flag (`FlagRefused`, and the writes of `Interrupt` and `Restart`); the worker process
dies (`WorkerDies`); the application is started again (`Restart`). Only the add
sequence's own statements can raise into its `interrupted` branch: all errors of the
indexing are caught below it and what it returns is ignored
(`routes/folders.py:111`), so that it ends with "completed". Two history variables
say what the code accepts: `lost`, the flags a refused write has left up, and
`missed`, the folders of which an add could not read or write all files. `Kinds`,
`MaxRequests`, `FaultKinds`, `MaxFaults`, `Volatile` (directories that come and
go) and `Library` (what is in the library at the start) bound a run.

### ShareUnlock

One protected entry: `failed`, `pending`, `locked`. Each visitor is a handler
thread: `Reserve` or `Refuse` under the mutex, then `Accept` or `Reject` under
the mutex after hashing outside it. `locked` counts down to 0 and stays there
until the next attempt notices, as in `_reserve_attempt`.

### ShareServer

`share` (none, live, expired but still in the dictionary), the listener (`down`,
`serving`, `stopping`, `done` but its callback has not run), and the two locks.
Coroutines interleave only at `await`: creating is one step, revoking the last
share is two with the end of the task in between. `died` and `lapsed` are
history variables. Tokens are reused in the model once they are gone, which
stands for fresh ones.

### Watcher

The threads of the microservice: `Main` is its event loop, the others are watcher
threads, in slots that are used again. `control` holds where each of them is in
`watcher_util_stop_folder_watcher` or `..._start_...`, one step between two
accesses to the globals `current` (`watcher_thread`), `stop` (`stop_event`) and
`watched` (`watched_folders` and `folder_id_map`, which are written together).
`Join` ends by timeout only if the thread has a reason to outlive it: a call to
the backend, or a stop event that somebody has cleared again. `Deliver`,
`SortChanges`, `CallSync` and `CallDelete` are the loop's body; after
`CallDelete` the thread is in stop and start itself. `news` is what the library
`watchfiles` holds back for a thread. What the calls do in the backend is left to
`FolderLibrary`; here the library only gains and loses folders, and a delete call
may fail. `overlapped` is a history variable: two actors were in stop or start at
once.

### Media, PhotoIndex, VideoIndex, SemanticLabels, MediaPipeline

What the worker does to a photo or a video. `Media` holds what both share: the
files (`file`: a content every decoder reads, one that PIL reads and cv2 does not,
a corrupt one, none), the folder's row, the thumbnails by uuid, the worker's `plan`
(passes still to run) and `task` (its place in the running pass with its local
variables), and `count`, which bounds events, failed statements and crashes.
Each database function of the code is one transaction on a connection of its own
and one step: `Works` or `Fails` (SQLite refuses the statement; what the code does
then, continue or end the pass, is in the step).

`PhotoIndex` is `utils/images.py` over `database/images.py`: `PrepareImages` to
`BulkInsertImages` are a scan, `GetUntaggedImages` to `UpdateImageTagged` the tagging
pass, the rest embedding. A row holds its vector, the signature it was scored
against and its tags, which are rows of tables with a cascading foreign key.
`faces` counts the face rows, which are inserted without one. `VideoIndex` is `utils/videos.py`
likewise: scans by fingerprint, keyframes sampled to `jpegs`, read back,
aggregated and embedded, and the purge of the cache, two steps of another process.
`SampleTimestamps` and `AggregateClasses` are the pure helpers. `SemanticLabels`
has the vocabulary of a release (`Synced`), the label vectors, the signature and
the two scoring loops. `MediaPipeline` puts the passes in the sequences that the
routes submit and adds the requests and the crash, after which the application may
come up with another vocabulary.

`MediaItems` is the abstract specification: one value per path, not listed or
listed with its objects, tags, heart, and whether it is tagged and found by
meaning; it says how that value may change. `MediaPipeline!Listing` is the
refinement mapping (what the listings of the API show), `ImplementsItems` the
property. It is stated for each path: a batch changes several at once.

### PhotoLibrary, FaceGroups, People

`PhotoLibrary` is what the gallery sees of the photos: which exist, when each was
taken, what day it is. `FaceGroups` has the algorithms of `utils/face_clusters.py`
as functions of what was read: DBSCAN with the estimated eps, the vote for a name,
merging, the one-face-per-image rule, incremental assignment. An embedding is a
number and a distance a difference, so means and nearest neighbours are exact and no
rounding enters. With two samples per core point, the default, DBSCAN's groups are
chains of neighbours; `FacesAssumption` says so. `People` has the passes step by
step: a full pass is two transactions (read everything, write everything), an
incremental one three reads and a write. `Actors` are the worker and the server,
whose forced pass runs beside it. `ReadUntagged` and `InsertFace` are the tagging pass,
as far as faces go: the list of photos is read once (`incoming` are the faces to
come), each face is a transaction without foreign keys, and a photo deleted
meanwhile gets its faces none the less. The metadata row is `metadata`; `saving` is the
copy that a save of preferences has read.

### Albums

`albums` are the two tables, `request` what each client's handler carries from one
connection to the next. `CheckName`, `InsertAlbum`, `InsertAlbumWithImages` and
`RecheckName` make an album, from nothing or from a memory; `ReadAlbum` and
`Verify` stand before `UpdateAlbum`, `OpenAlbum`, and `ReadAlbum` alone before
`DeleteAlbum`, `AddImages`, `RemoveImages`, which ask for no password.
`request.row` records the row as the request last read it. A password is compared,
not hashed.

### StoryRules, Memories, Gallery

`StoryRules` is `utils/memory_scoring.py`, the pure part of
`utils/memory_curator.py` and the queries they rest on: signals and their weighted
sum over those present, the home cell, near-duplicates, coherence, spreading over
time, titles, clips within a budget of seconds, and the three triggers.
`Memories` has the worker's queue with curation passes and rescorings:
`BeginCuration` (stale memories go, context is read), `Plan` (a trigger reads what
was used lately and its candidates), `Build` (reads and selection for one memory),
`UpsertMemory`; `BeginRescore`, `ReadScores`, `WriteScores`; and what users do.
`memories` maps dedupe keys to rows with their images and clips. `moved` is a
history variable. `Gallery` composes people, albums and memories: one photo
that goes takes its faces, its place in memories and its links to albums with it, a
rename owes a rescoring, an album may be made of a memory. A behaviour exercises
the parts in its `scope`, the others stay as they were at the start.

## Runs

| Run | Question | Bounds |
|---|---|---|
| `claims` | `TypeOK`, `NoAbandonedClaim` (every running row has an owner who will close it), `CompleteIsNotFailed`, `ClaimsAreClosed` (owners do close, without the reaper), `ClaimsAreReaped` (polling closes the rest) | one date, two generate calls that may be repeated, one folder sequence that may be repeated, stale after two ticks, one fault of each of the four kinds: 386 538 states |
| `duplicate_pass` | does a second caller see "running"? No: counterexample | one date, two calls, no fault |
| `library` | `TypeOK`, `BusyIsOwned`, `CompletedMeansIndexed`, `BusyEnds` | a directory, its subdirectory and a sibling with the same prefix, two handlers, three requests of any kind, one fault of any of the five kinds: 493 752 states |
| `library_tagging` | `NothingLeftUntagged` | a directory in the library, a subdirectory that comes and goes, two handlers, four requests including deletes: 308 088 states |
| `sync_leaves_interrupted` | does a sync finish an interrupted folder? No: counterexample | two directories, two requests, one exception |
| `unlock` | `GuessesAreBounded`, `CooldownIsSettled`, `RefusalEnds` | six visitors, a limit of four, a cooldown of two ticks |
| `sharing` | `LiveIsServed`, `IdleListenerStops` | four tokens, two overlapping callers |
| `watcher` | `TypeOK`, `StartedWatches` (the watcher that was started runs, on the folders it is said to watch, unless two actors were in start and stop at once), `ControlEnds` | two folders, three slots, three requests or changes after the start: 98 935 states |
| `watcher_restart` | is there one watcher after a restart? No: counterexample | the same |
| `media` | `TypeOK` (with the cap on keyframes), `FlagsFollowEffects`, `FacesRepeatOnlyAfterAFault`, `VideoTagsFollowFrames`, `FramesAreOneSample`, `PostersInUseStay`, `SequencesEnd`, and the refinement `ImplementsItems` | one photo or one video, two contents, two releases of the vocabulary; two events, one failed statement and one crash, at most three of them; two uuids |
| `media_unreadable` | does a tagging pass tag every photo it has read that can be read? No: counterexample | two photos of any content PIL reads, no fault |
| `gallery` | people: `PeopleTypeOK`, `OneFacePerPhoto`, `NamesAreKept`, `NoFacelessPeople`, `FirstPeopleAppear`; albums: `AlbumsTypeOK`, `NoStrandedAlbums`, `LocksAreRespected`; memories: `MemoriesShowPhotos`, `NothingStale`, `LaterTriggersSpareClaims`, `UserStateSurvives`, `NamesReachMemories` | nine photos, five faces, three clustering passes and three events for people; two curation passes and two events for memories; two clients and two requests or deletions for albums: 557 838 states |

Why these bounds are enough. All conflicts in `memory_runs` are between writers
of the same row, so one date holds them all; two calls and a folder sequence give
every pair of writers and a third that is waiting. A path conflict in the library
needs a parent, a child and a name that shares the prefix; three requests on two
handlers give one that is interrupted, one that interrupts it and one that comes
after. Each kind of fault meets every place of every sequence and handler in the
library; of faults on top of each other the proofs speak, `BusyEnds` excepted.
Visitors outnumber the limit, so the limit is hit by concurrent and by successive
attempts. Requests are bounded because each leaves rows behind; the
proofs have no such bound.

Two folders let one be deleted while the other is still watched, and three events
give a change, a request while it is handled and a deletion; the run also passes
with four (1.2 million states).

In the pipeline, media meet only in batches and in the loop over what a pass has
read: no statement reads one medium to write another, which is why one photo or one
video per behaviour suffices for all but `media_unreadable`, where a photo
stops the one behind it. Content `x` shows a person, two faces and three keyframes at
the short interval, two at the long one, so that a class can fall short of the
frames it needs and a second sample differ from the first; `y` shows no person and
one keyframe. Two events give a file that is replaced and a purge, a deletion or a
preference that changes around it; a fault or crash comes on top. Two uuids give a
scan and a rescan.

In the gallery, photos 1 to 3 are an anniversary of the first day, with two faces on
two of them (the fifth is on photo 8, which may go while a tagging pass has its faces
in hand); 4 to 6 an event that labels find, one of its photos without a label and
a near-duplicate of another; 7 to 9 a burst with a photo that does not belong.
Faces are at distances around the three thresholds, so that groups merge, a photo's
two faces compete for one person, and a single face stays alone. A year has ten days
so that anniversaries and lookahead wrap. Only photos 1, 5 and 8, one of each
story, may go or change their date. Each part gets a budget of its own, because
parts share photos and meet only in the steps that `Gallery` composes: the
cascades, the rename, and the album made from a memory.

`CHECK_DEADLOCK FALSE` is set where a model may stop: the library, the watcher, the
media and the gallery have used up their requests then, and nothing is under way.

### Fairness

`MemoryRuns`, `FolderLibrary`: a handler that has started, a release callback and
the worker are scheduled (threads of a pool, one process), and time passes.
Nobody has to call the API. `ClaimsAreReaped` takes the status poll as a
hypothesis of the property, since only the interface can provide it: the docstring
of `get_memory_status` says that it is polled, and the frontend does so while its
memories page is open. `ShareUnlock`: hashing ends, time passes.
`ShareServer`: a task that was asked to exit ends (`wait_for` cancels it after
`_STOP_TIMEOUT`), its callback runs, the awaiting coroutine resumes. `Watcher`: threads are
scheduled and calls to the backend end (the client has a timeout of 30 seconds).
`MediaPipeline`: the worker process takes steps; users, disks, statements that fail
and crashes need not happen. `Gallery` states no liveness: its passes are straight
lines over finite lists.

### What disagrees with the code's own words

Four runs end in a counterexample and quote what they refute:

- `duplicate_pass`: reading the row and claiming it are two transactions, so two
  overlapping calls queue two passes (`routes/memories.py:183`, `:219`).
- `sync_leaves_interrupted`: the sync sequence never writes `indexing_status`
  (`routes/folders.py:167-207`), though the interface asks the user to sync.
- `watcher_restart`: a watcher that is in a call to the backend when it is
  stopped outlives `join`, and the next start clears the stop event before it
  looks (`sync-microservice/app/utils/watcher.py:315`, `:284`). The same happens
  whenever a watcher restarts itself after a deletion.
- `media_unreadable`: for a photo that PIL verifies and cv2 does not read,
  `get_classes` returns `None`, and `len(None)` ends the tagging pass for the photos
  behind it as well, now and in every later pass (`utils/images.py:218`).

Others are behaviours of the models that no listed run singles out:

- `_release_run` reads the status and then writes "failed" without a condition;
  after an error in one pass, a second pass for the date can complete in between
  and is then reported failed (`routes/memories.py:97-100`).
- A folder deleted between a sync's read of its children and the insert of a new
  subfolder leaves a row with a parent that does not exist
  (`database/folders.py:245-268` writes without `PRAGMA foreign_keys`).
- A folder deleted while an add walks the tree makes the bulk insert fail as a
  whole (`database/images.py:162-165`), and a directory that cannot be read is
  skipped (`utils/images.py:79-81`); the add sequence ignores the result and marks
  every remaining folder completed (`routes/folders.py:111`, `:117-118`), although it
  means not to "claim a file set that was never read" (`:129-130`).
  `CompletedMeansIndexed` speaks of the folders this has not happened to (`missed`).
- When the worker process dies during an add, its folders stay `in_progress`: the
  future of this sequence has no callback. When the executor is broken, enabling AI
  tagging is answered with 500 after the flag was committed
  (`routes/folders.py:315-318`), and the folder stays busy. Both block memories until
  the application is started again. `BusyIsOwned` and `BusyEnds` speak of the time in
  which the executor works.
- A flag that the database refuses to clear stays up: the error is logged and the
  sequence goes on (`database/folders.py:496-502`, `:579-583`). `lost` records it.
- The faces of a photo that is deleted while the tagging pass has it on its list are
  inserted all the same, since the connection of `database/faces.py:80` does not
  enforce foreign keys. Nothing removes them: they take part in later clustering
  passes, in `PhotoIndex` and in `People`.
- A sync that meets a subfolder that already has a row hands an id that was never
  inserted to its sequence, whose bulk insert then fails
  (`utils/folders.py:169-170`).
- Rows that a sync inserts stay `not_started` (`utils/folders.py:158`).
- `db_is_indexing_busy` is false while a sync of an untagged folder runs
  (`database/memories.py:802`).
- Shares that end by expiry leave the listener up until the next revoke
  (`utils/share.py:75`). This is why `IdleListenerStops` exempts them.
- A watcher that restarts itself while the event loop serves a restart can leave
  the service with a watcher whose list of folders is empty or whose stop event is
  set; `StartedWatches` therefore speaks of the case without overlap.
- A photo that is embedded again keeps the signature of its old vector
  (`database/image_embeddings.py:50`; the frames' upsert resets it), so after a
  crash and a replaced file its tags are those of the old content. This is why
  `VideoTagsFollowFrames` speaks of videos only.
- A full clustering pass writes back the names and the metadata row it read before
  clustering (`utils/face_clusters.py:181`): a name given or a preference saved
  meanwhile is lost. `NamesAreKept` speaks of passes under which nothing changed.
- A face that has to make way for another of its image has voted before it goes
  (`utils/face_clusters.py:363` and `:382` come before `:388`), so a person can get the
  name of somebody who ends up in no cluster. `NamesAreKept` assumes that no face with
  another name does.
- Two bursts of one day have the same key, and the later overwrites the earlier
  (`utils/memory_curator.py:629`).
- A memory deleted between a pass's reads and its upsert comes back, and a
  dismissed memory that is dropped as stale is rebuilt undismissed: nothing
  remembers the key. `UserStateSurvives` speaks of memories that stay.
- A pass over an unchanged library need not reproduce its memories: the photos of an
  anniversary are recent for the next pass, which may pick others, and where a story
  has more than `MaxImages` candidates, those it must leave to other memories shift
  the span over which the rest is spread. No property is stated about it.
- Photos added to an album and a full recluster change inputs of stored scores, and
  only a rename is followed by a rescoring; `NamesReachMemories` is about names.
- "Two instants at the same moment are the same occasion" (`utils/memory_curator.py:785`):
  their overlap is zero, and the line above has already gone on to the next candidate,
  so two labels that find one instant make two memories. `Merged` does as the code does.
- `schemas/album.py` validates a password only if one is given: an album can be
  locked without a password, and nothing opens it then.

## Proofs

Proofs hold for every value of the constants under the named assumptions of the
modules (dates and slots are disjoint sets, limits are positive, contents are finitely many, the tree's
operators stay within `Paths`, what is there at the start is well formed), with no
bound on calls, faults, visitors, requests or passes.

- `MemoryRunsProofs`. `Typing`: `TypeOK` with `WorkerOK` (the worker's job and
  its place go together), without which `DateOf` of an idle worker has no
  meaning. `ClaimsAreOwned`: `NoAbandonedClaim` is inductive relative to these:
  a claim is made by a step that leaves its maker an owner, and each owner's last
  step either closes the row or makes another owner. `CompletedStaysCompleted`:
  the action property follows from `QuietReleases`: while no error has escaped a
  pass, a callback is at work only if the executor is broken, and then no pass is
  running; a writer about to write "failed" has read a row that is not complete,
  and nobody is left who could complete it.
- `FolderLibraryProofs`. `Typing`, and `NobodyLeftBusy` for `BusyIsOwned`. The
  invariant is strengthened by what the sequences carry: the targets of the
  worker are ids that were drawn, a folder is in progress only between the
  worker's first and last step, and a tagging flag goes down only when a job that
  raises it again is in the queue or under way. A restart is the case that needs
  the startup reset to clear both flags. A sequence that raises passes its finally
  clause or its `interrupted` branch; the death of the worker and a refused write do
  not, which is why the property ends with the executor (`alive`) and excepts the
  flags in `lost`.
  `CompletedIsIndexed` (`CompletedMeansIndexed`) needs four facts that are inductive
  together (`IndexFacts`): a path has at most one row (`OneRowPerPath`), ids are of
  walks that have been (`IdsDrawn`), directories that stay are on disk
  (`StaysOnDisk`), and the add sequence has found, or accounts as missed, each of its
  folders that stays, up to the step in which it says so (`AddIsExact`). The case
  that needs them is a sync or a second add that drops or takes over the media of a
  completed folder: it cannot, since its targets at that path are the same row. There
  is no hypothesis: deletions, directories that come and go, and all five faults are
  allowed.
  `TaggingForgetsNothing` (`NothingLeftUntagged`) holds without adds and faults: an
  add does not tag what it finds, and a fault gives the rest of a sequence up. The
  invariant is `NothingForgotten`: an untagged file in a folder with AI tagging is
  ahead of somebody, namely the handler that enabled it, a queued job, a sequence
  that has not asked for the untagged files yet, or one that has it on its list.
- `WatcherProofs`. `Typing`, and `StartedWatchersWatch` for `StartedWatches`. Unless
  two actors were in stop or start at once (`overlapped`), at most one is busy
  there; `StageOK` says what it may rely on at each place: up to the stop event the
  globals describe the watcher that runs, from the check that nothing runs to the
  new thread nothing does, and before the new thread is there the event is clear.
  Nobody else touches the globals or revives a thread (`Quiet`). The thread that
  restarts itself is the case that needs the event to be cleared by the start.
- `ShareUnlockProofs`. `GuessesBounded` and `CooldownSettled` need each other:
  the limit is kept because nothing is hashing during a cooldown, and nothing is
  hashing then because the failures that led to it used up the limit.
- `ShareServerProofs`. `LiveServed` (`LiveIsServed`) needs `StopIsExclusive`: from the moment
  the last share is revoked until its listener is cleared, no share is live and
  none can be made, since the stopping coroutine holds the lock that a create
  takes. Without it a create could hand out a link to a port that closes.
- `GalleryProofs`, albums. `AlbumsInv` is `AlbumsTypeOK` with what a handler may rely on
  between two of its connections: the photos it was given, and that an id drawn for
  an album nobody has inserted yet is drawn once (`IdsAreFresh`). The three
  theorems follow from it over any number of clients, requests and deletions.
  `LocksRespected` holds of the row that the request read when it checked the
  password; it would not hold of the row read first, because the handler reads
  twice and a row may be unlocked, changed and locked again in between.
- `GalleryProofs`, people. The first half is about what the algorithms of
  `FaceGroups` compute, for any faces: a set ordered by number lists each member once,
  groups have no face in common (`GroupsAreApart`), a vote is won by a name that
  somebody has, of each image the one-face rule keeps exactly one
  (`OnePerImageStays`), so the people found have faces, one per image, and share none
  (`PeopleFound`); and what the assignment returns puts no two faces of an image
  together, neither with each other nor with those it read (`AssignSpreads`). A fold
  over a sequence is shown to exist by taking a smallest set for which it fails.
  The second half carries this through the passes. `PeopleInv` says what each has in
  hand: a full pass the people among the faces it saw, an incremental one clusters
  drawn already, and for each of its targets that the cluster is gone or none of the
  image's faces is in it by now (`ToOK`). The case that needs this is a full pass of
  the server between the reads and the write of the worker: every cluster is then
  new, so each target is gone and the foreign key stops the write. Hence
  `PeopleAreTyped` (`PeopleTypeOK`) and `FacesOfAPhotoAreApart` (`OneFacePerPhoto`);
  and of what a full pass writes (`FullPassWrites`) `NobodyIsFaceless`
  (`NoFacelessPeople`), `PeopleDoAppear` (`FirstPeopleAppear`) and `NamesDoStay`
  (`NamesAreKept`).
- `MemoriesProofs`. The first part is about what `StoryRules` and `Memories` compute,
  for any photos: sorting by any two ranks lists a finite set, each member once
  (`SortingLists`), a part of a list is a list (`ThoseAreListed`), and each trimming
  returns a part of what it was given and leaves some of it (`SuppressingKeeps`,
  `TrimmingKeeps`, `SpreadingKeeps`); scores are numbers, home is a place or none.
  So what `_build_memory` returns lists some of the candidates that have a row, and its
  cover is one of them (`BuiltIsOK`). `MemoriesInv` adds what the worker has in hand:
  a memory to be written is of that kind, and the cover that a rescoring is about to
  write is a photo of the memory as long as both are there (`CoverFits`). Neither a
  deletion nor another cascade breaks it: hence `MemoriesDoShowPhotos`
  (`MemoriesShowPhotos`).
  `NothingIsStale` (`NothingStale`) needs in addition that drafts have dates:
  `AnniversariesAreDated`, `ImportsAreDated` and `SemanticsAreDated` follow each
  trigger through cutting into segments, ranking, the gate, and the merging of
  occurrences that overlap, which is a fold and is shown to exist like those of the
  assignment. `FreshInv` says that as long as no date has moved the drafts of a pass are
  dated and the memory it is about to write has a period that holds its photos.
  `NamesDoReachMemories` (`NamesReachMemories`) rests on `ScoredInv`, which lets a
  score lag behind only while somebody will mend it. A stored score is settled: it is
  the one of today's names, or somebody on the photo has been renamed and the
  rescoring is owed or queued (`Settled`); or the worker is in a rescoring and has
  not yet written that memory (`Rescores`). What it is about to write is settled too,
  for the photos that the memory has. So a rename between the reads of a rescoring and
  its write does no harm, whoever it names. Two hypotheses say what the property is
  about: `OnlyNames`, that where memories change no photo joins an album and no pass
  moves a face, neither of which any rescoring follows; and that the scores of the
  memories at the start are right.
  `UserStateIsSafe` (`UserStateSurvives`): the only writers
  of the two marks are the requests that count as events. It holds whatever
  `StoryRules` selects: none of its definitions is expanded.
  What is assumed of the parameters is in `PhotosAssumption`, `StoryAssumption` and
  `MemoriesAssumption`: photos, events and labels are finitely many, dates, places and
  scores are numbers or missing, no limit that a division or a trimming needs is
  zero, and the memories at the start are as a pass leaves them.
- `MediaProofs`. `PipelineImplementsItems` is the refinement (`ImplementsItems`). Its
  invariant `MediaInv` says what the worker may rely on between two transactions:
  every medium of a tagging pass is still untagged, a frame in memory has the index of
  the row's frame at its place, and what a scoring pass is about to write has a
  vector. Under it each step moves every row as `MediaItems` allows (`RowsAdvance`),
  and the listing follows the rows (`RowsMap`). Each theorem has one hypothesis beyond
  `MediaAssumption`, `NullHasNoColumns`: NULL is not a row, which TLC cannot
  evaluate and so is not an assumption of the module. `VideosHaveOneSample`
  (`FramesAreOneSample`) adds `SampleInv`: unless a statement has failed, the worker
  inserts frames for a video that has none. `PostersStay` (`PostersInUseStay`) adds
  `PosterInv`: the records of a scan name posters that no row shows, no two the
  same, and every poster to be replaced belongs to a row that gets one of them.
  `FacesRepeatForFaultsOnly` (`FacesRepeatOnlyAfterAFault`) adds `FaceInv`: a photo
  whose faces a pass may still detect has faces of passes that a fault ended, and of
  no other, and while its faces are stored those that are left fit in with them. It
  uses `PhotoAssumption`: there is some content and each shows a number of faces.
  `TagsFollowVectors` (`VideoTagsFollowFrames`) adds `LabelInv`, which is stronger than
  the property in what makes it inductive: if the vectors of a row carry *one*
  fingerprint, current or not, the tags are what they earned under that one, and the
  tags that wait to be written are those of the vectors still there. The
  embedding of one frame without a stamp suspends it, the next scoring restores it.
  It needs a second fact about NULL, `NullIsNoFingerprint`: a fingerprint is a
  function of the label vectors (with no usable label the empty one), NULL is none.
  `FlagsMeanDone` (`FlagsFollowEffects`) adds four invariants, two for photos and two
  for videos: what is marked as embedded, or is about to be, has its vector; and
  while nothing interferes the objects of a medium are none or those its file
  shows, the latter from the moment that the tagging is about to say so.

Only model-checked: all liveness (`ClaimsAreClosed`, `ClaimsAreReaped`,
`BusyEnds`, `RefusalEnds`, `IdleListenerStops`, `ControlEnds`, `SequencesEnd`),
because TLAPS here does not handle fairness and `ENABLED`; and how the rules of
`StoryRules` choose between candidates, hence `LaterTriggersSpareClaims`. Every
other invariant and action property of a passing run is stated by a theorem.

## Not modelled

- The model store (see the plan).
- The share pages, listings, searches and covers: handlers that look something up
  and return it. The query of a semantic search ranks and keeps no state.
- ONNX inference and image processing (numerical), the parsing of capture dates and
  places from files, the thumbnails of clusters, network address discovery, logging,
  schemas, the desktop shell and the frontend, which appears as requests and as the
  poll. React and Tauri code has no part in the protocols.
- In the library: SQLite errors in a handler's own statements, which end the request
  with 500 between two of its steps. What they leave is what a restart at that place
  leaves, but for the cleared flags.
- In the gallery: statements that fail, crashes and restarts. A restart that loses a
  queued rescoring leaves the scores of the old names until the next pass builds the
  memory (`NamesReachMemories` is about an application that stays up), and a tagging
  pass that ends between two faces of a photo stores them again later, which is
  `PhotoIndex`'s.
- SQLite errors inside helpers that swallow them where a model does not say
  otherwise.
- Coarser than the code: the reads of one trigger, and those of building one memory,
  are one step of `Memories`, though each query has a connection of its own; the
  order in which clips are mixed among photos is left out; a scan of several files
  is one step for the decoding of all of them.
- Kept out by arithmetic: cosine similarities, haversine distances and weights are
  integers on a line, and a score is rounded down to a thousandth, where the code uses
  floats.
- `db_prune_empty_memories`, which nothing calls.
