------------------------------- MODULE Watcher -------------------------------
(***************************************************************************)
(* The file watcher of the sync microservice (app/utils/watcher.py).  A    *)
(* daemon thread iterates over watchfiles.watch and calls the backend for  *)
(* every batch of changes; stop and start run in the service's event loop, *)
(* on request, and also in the watcher's own thread, which restarts itself *)
(* after it has reported a deleted folder.  All share four globals and no  *)
(* lock.  A step is what happens between two accesses to those globals.    *)
(***************************************************************************)
EXTENDS Naturals, FiniteSets

CONSTANTS
    Folders,        \* directories that may be in the library
    Threads,        \* slots for watcher threads; one is used again once it is over
    Main,           \* the event loop, which serves one request at a time
    None,           \* watcher_thread = None
    MaxEvents       \* bound on requests and on changes of folders and files

ASSUME ActorsAssumption == Main \notin Threads /\ None \notin Threads \cup {Main}
ASSUME BoundAssumption  == MaxEvents \in Nat

Actors == Threads \cup {Main}

VARIABLES
    disk,           \* the directories that exist
    library,        \* the rows of folders: written by the backend
    current,        \* watcher_thread
    stop,           \* stop_event
    watched,        \* watched_folders and folder_id_map
    thread,         \* where each thread is, and the paths it watches
    news,           \* what each thread's notifier has seen
    control,        \* where each actor is in stop or start
    events,         \* how many requests and changes there have been
    overlapped      \* history: two actors were in stop or start at once

globals == <<current, stop, watched>>
world   == <<disk, library>>
vars    == <<world, globals, thread, news, control, events, overlapped>>

Thread == [pc    : {"over", "starting", "watching", "handling", "syncing", "deleting"},
           paths : SUBSET Folders,
           gone  : SUBSET Folders]      \* the deleted folders it has to report
News == [changed : SUBSET Folders, deleted : SUBSET Folders]
Control == [pc   : {"idle", "stop", "set", "join", "clear", "start", "read", "publish", "spawn"},
            again: BOOLEAN,             \* restart: start follows
            found: SUBSET Folders]      \* the folders start has read

Idle == [pc |-> "idle", again |-> FALSE, found |-> {}]
NoNews == [changed |-> {}, deleted |-> {}]

Alive(t) == t # None /\ thread[t].pc # "over"
Busy == {a \in Actors : control[a].pc # "idle"}

(* A slot may be used again when its thread is over and nobody names it.   *)
Free == {t \in Threads : ~Alive(t) /\ t # current}

(* watcher_util_is_watcher_running *)
Running == Alive(current)

Init ==
    /\ disk = Folders
    /\ library \in SUBSET Folders
    /\ current = None /\ stop = FALSE /\ watched = {}
    /\ thread = [t \in Threads |-> [pc |-> "over", paths |-> {}, gone |-> {}]]
    /\ news = [t \in Threads |-> NoNews]
    /\ control = [a \in Actors |-> IF a = Main THEN [Idle EXCEPT !.pc = "start"] ELSE Idle]
    /\ events = 0
    /\ overlapped = FALSE

---------------------------------------------------------------------------
(* stop, start and restart.                                                *)

Happens == events < MaxEvents /\ events' = events + 1

Goto(a, pc) == control' = [control EXCEPT ![a].pc = pc]

(* Where stop ends: restart goes on with start. *)
EndStop(a) == IF control[a].again THEN Goto(a, "start") ELSE control' = [control EXCEPT ![a] = Idle]

(* A request reaches the event loop: /watcher/restart from the backend     *)
(* after every add and sync, /watcher/start, /watcher/stop and shutdown.   *)
Request ==
    /\ Happens
    /\ control[Main] = Idle
    /\ \E pc \in {"stop", "start"}, again \in BOOLEAN :
          control' = [control EXCEPT ![Main] = [Idle EXCEPT !.pc = pc, !.again = again]]
    /\ overlapped' = (overlapped \/ Busy # {})
    /\ UNCHANGED <<world, globals, thread, news>>

StopIfRunning(a) ==
    /\ control[a].pc = "stop"
    /\ IF Running THEN Goto(a, "set") ELSE EndStop(a)
    /\ UNCHANGED <<world, globals, thread, news, events, overlapped>>

SetStop(a) ==
    /\ control[a].pc = "set"
    /\ stop' = TRUE
    /\ Goto(a, "join")
    /\ UNCHANGED <<world, current, watched, thread, news, events, overlapped>>

(* Mutant: join without a timeout. *)
JoinForever(a) ==
    /\ control[a].pc = "join"
    /\ current \in {a, None} \/ ~Alive(current)
    /\ Goto(a, "clear")
    /\ UNCHANGED <<world, globals, thread, news, events, overlapped>>

(* A thread that is not in a call to the backend sees the stop event well  *)
(* within the timeout.                                                     *)
AboutToEnd(t) ==
    Alive(t) /\ thread[t].pc \in {"starting", "watching"} /\ control[t] = Idle /\ stop

(* join returns when the thread is over and, at the latest, after five     *)
(* seconds, if it is in a call or if the stop event has been cleared again;*)
(* joining oneself, or None, raises at once.  In every case the finally    *)
(* clause follows.                                                         *)
Join(a) ==
    /\ control[a].pc = "join"
    /\ ~AboutToEnd(current)
    /\ Goto(a, "clear")
    /\ UNCHANGED <<world, globals, thread, news, events, overlapped>>

ClearGlobals(a) ==
    /\ control[a].pc = "clear"
    /\ current' = None /\ watched' = {}
    /\ EndStop(a)
    /\ UNCHANGED <<world, stop, thread, news, events, overlapped>>

StartUnlessRunning(a) ==
    /\ control[a].pc = "start"
    /\ IF Running THEN control' = [control EXCEPT ![a] = Idle] ELSE Goto(a, "read")
    /\ UNCHANGED <<world, globals, thread, news, events, overlapped>>

(* The folders of the database that exist on disk; without any there is    *)
(* nothing to watch.                                                       *)
ReadFolders(a) ==
    /\ control[a].pc = "read"
    /\ control' = [control EXCEPT ![a] =
                     IF library \cap disk = {} THEN Idle
                     ELSE [pc |-> "publish", again |-> FALSE, found |-> library \cap disk]]
    /\ UNCHANGED <<world, globals, thread, news, events, overlapped>>

(* Mutant: the stop event of the watcher before is left as it is. *)
PublishStopped(a) ==
    /\ control[a].pc = "publish"
    /\ watched' = control[a].found
    /\ Goto(a, "spawn")
    /\ UNCHANGED <<world, current, stop, thread, news, events, overlapped>>

Publish(a) ==
    /\ control[a].pc = "publish"
    /\ watched' = control[a].found
    /\ stop' = FALSE
    /\ Goto(a, "spawn")
    /\ UNCHANGED <<world, current, thread, news, events, overlapped>>

(* Mutant: the thread that starts the watcher is taken for the watcher. *)
SpawnCaller(a) ==
    /\ control[a].pc = "spawn"
    /\ current' = a
    /\ control' = [control EXCEPT ![a] = Idle]
    /\ UNCHANGED <<world, stop, watched, thread, news, events, overlapped>>

Spawn(a) ==
    /\ control[a].pc = "spawn"
    /\ Free # {}
    /\ LET t == CHOOSE t \in Free : TRUE
       IN  /\ thread' = [thread EXCEPT ![t] = [pc |-> "starting", paths |-> control[a].found, gone |-> {}]]
           /\ news' = [news EXCEPT ![t] = NoNews]
           /\ current' = t
    /\ control' = [control EXCEPT ![a] = Idle]
    /\ UNCHANGED <<world, stop, watched, events, overlapped>>

---------------------------------------------------------------------------
(* watcher_util_watcher_worker.                                            *)

InLoop(t, pc) == thread[t].pc = pc /\ control[t] = Idle

At(t, pc) == thread' = [thread EXCEPT ![t].pc = pc]

(* watchfiles refuses a path that has gone meanwhile: the thread ends. *)
Begin(t) ==
    /\ InLoop(t, "starting")
    /\ At(t, IF thread[t].paths \subseteq disk THEN "watching" ELSE "over")
    /\ UNCHANGED <<world, globals, news, control, events, overlapped>>

(* The stop event is seen while waiting, or on delivery of a batch, which  *)
(* is dropped.                                                             *)
SeeStop(t) ==
    /\ InLoop(t, "watching")
    /\ stop
    /\ At(t, "over")
    /\ UNCHANGED <<world, globals, news, control, events, overlapped>>

(* A batch is delivered. *)
Deliver(t) ==
    /\ InLoop(t, "watching")
    /\ ~stop
    /\ news[t] # NoNews
    /\ At(t, "handling")
    /\ UNCHANGED <<world, globals, news, control, events, overlapped>>

(* The first pass: of what was deleted, the folders that are watched by    *)
(* now.                                                                    *)
SortChanges(t) ==
    /\ InLoop(t, "handling")
    /\ thread' = [thread EXCEPT ![t].pc = "syncing", ![t].gone = news[t].deleted \cap watched]
    /\ news' = [news EXCEPT ![t] = NoNews]
    /\ UNCHANGED <<world, globals, control, events, overlapped>>

(* Sync calls for the folders with changes; what the backend answers makes *)
(* no difference here.                                                     *)
CallSync(t) ==
    /\ InLoop(t, "syncing")
    /\ At(t, IF thread[t].gone = {} THEN "watching" ELSE "deleting")
    /\ UNCHANGED <<world, globals, news, control, events, overlapped>>

(* The delete call, which may fail, and then the restart, by the watcher   *)
(* thread itself.                                                          *)
CallDelete(t) ==
    /\ InLoop(t, "deleting")
    /\ library' \in {library, library \ thread[t].gone}
    /\ thread' = [thread EXCEPT ![t].pc = "watching", ![t].gone = {}]
    /\ control' = [control EXCEPT ![t] = [Idle EXCEPT !.pc = "stop", !.again = TRUE]]
    /\ overlapped' = (overlapped \/ Busy # {})
    /\ UNCHANGED <<disk, globals, news, events>>

---------------------------------------------------------------------------
(* The world: files change, directories are deleted, the backend adds and  *)
(* removes folders.  Every thread that watches a path is told.             *)

Told(f) == {t \in Threads : thread[t].pc \notin {"over", "starting"} /\ f \in thread[t].paths}

FileChanges(f) ==
    /\ Happens
    /\ f \in disk
    /\ Told(f) # {}
    /\ news' = [t \in Threads |-> IF t \in Told(f) THEN [news[t] EXCEPT !.changed = @ \cup {f}]
                                                  ELSE news[t]]
    /\ UNCHANGED <<world, globals, thread, control, overlapped>>

DirectoryDeleted(f) ==
    /\ Happens
    /\ f \in disk
    /\ disk' = disk \ {f}
    /\ news' = [t \in Threads |-> IF t \in Told(f) THEN [news[t] EXCEPT !.deleted = @ \cup {f}]
                                                  ELSE news[t]]
    /\ UNCHANGED <<library, globals, thread, control, overlapped>>

BackendAdds(f) ==
    /\ Happens
    /\ f \in disk \ library
    /\ library' = library \cup {f}
    /\ UNCHANGED <<disk, globals, thread, news, control, overlapped>>

BackendDeletes(f) ==
    /\ Happens
    /\ f \in library
    /\ library' = library \ {f}
    /\ UNCHANGED <<disk, globals, thread, news, control, overlapped>>

---------------------------------------------------------------------------
ControlStep(a) ==
    \/ StopIfRunning(a) \/ SetStop(a) \/ Join(a) \/ ClearGlobals(a)
    \/ StartUnlessRunning(a) \/ ReadFolders(a) \/ Publish(a) \/ Spawn(a)

ThreadStep(t) ==
    Begin(t) \/ SeeStop(t) \/ Deliver(t) \/ SortChanges(t) \/ CallSync(t) \/ CallDelete(t)

Next ==
    \/ Request
    \/ \E a \in Actors : ControlStep(a)
    \/ \E t \in Threads : ThreadStep(t)
    \/ \E f \in Folders :
          FileChanges(f) \/ DirectoryDeleted(f) \/ BackendAdds(f) \/ BackendDeletes(f)

Spec == Init /\ [][Next]_vars

(* Threads and the event loop are scheduled. *)
FairSpec ==
    /\ Spec
    /\ \A a \in Actors : WF_vars(ControlStep(a))
    /\ \A t \in Threads : WF_vars(ThreadStep(t))

---------------------------------------------------------------------------
TypeOK ==
    /\ disk \subseteq Folders /\ library \subseteq Folders
    /\ current \in Threads \cup {None}
    /\ stop \in BOOLEAN
    /\ watched \subseteq Folders
    /\ thread \in [Threads -> Thread]
    /\ news \in [Threads -> News]
    /\ control \in [Actors -> Control]
    /\ events \in 0 .. MaxEvents
    /\ overlapped \in BOOLEAN

(* A watcher that was started and not stopped watches: its stop event is   *)
(* clear, it looks folders up in the list it was started with, and it runs *)
(* unless one of its directories was gone before it began.  Two actors in  *)
(* stop or start at once can break every part of this.                     *)
StartedWatches ==
    ~overlapped /\ Busy = {} /\ current # None =>
        /\ ~stop
        /\ watched = thread[current].paths
        /\ thread[current].paths \subseteq disk => Alive(current)

(* Stopping and starting end, in the event loop as in a watcher that       *)
(* restarts itself: nobody waits for a thread that will not go.  (The      *)
(* bound on the slots stops the model, not the program: a thread can       *)
(* always be spawned.)                                                     *)
OutOfSlots(a) == control[a].pc = "spawn" /\ Free = {}
ControlEnds == \A a \in Actors : a \in Busy ~> a \notin Busy \/ OutOfSlots(a)

(* "Restart the folder watcher by stopping the current one and starting    *)
(* fresh": once nobody is starting or stopping there is at most one.       *)
OneWatcher == Busy = {} => Cardinality({t \in Threads : Alive(t)}) <= 1

=============================================================================
