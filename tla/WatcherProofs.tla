---------------------------- MODULE WatcherProofs ----------------------------
(***************************************************************************)
(* TLAPS proofs about Watcher: for every set of folders, any number of     *)
(* watcher threads and of requests and changes.                            *)
(***************************************************************************)
EXTENDS Watcher, TLAPS

USE DEF Actors

---------------------------------------------------------------------------
(* Typing. *)

Pcs == {"idle", "stop", "set", "join", "clear", "start", "read", "publish", "spawn"}

(* Where an actor may go. *)
LEMMA Moves ==
    /\ Idle \in Control
    /\ \A pc \in Pcs, again \in BOOLEAN : [Idle EXCEPT !.pc = pc, !.again = again] \in Control
    /\ \A pc \in Pcs : [Idle EXCEPT !.pc = pc] \in Control
BY DEF Idle, Control, Pcs

LEMMA Entries ==
    \A pc \in {"stop", "start"}, again \in BOOLEAN :
        LET c == [Idle EXCEPT !.pc = pc, !.again = again] IN c \in Control /\ c.pc = pc
BY DEF Idle, Control

LEMMA Going ==
    ASSUME TypeOK, NEW a \in Actors,
           (\E pc \in Pcs : Goto(a, pc)) \/ \E c \in Control : control' = [control EXCEPT ![a] = c]
    PROVE  control' \in [Actors -> Control]
BY DEF TypeOK, Goto, Control, Pcs

LEMMA ControlTyping ==
    ASSUME TypeOK, NEW a \in Actors, ControlStep(a) PROVE TypeOK'
<1>1. control' \in [Actors -> Control]
  <2>1. ASSUME control' = [control EXCEPT ![a] = Idle] PROVE control' \in [Actors -> Control]
    BY <2>1, Moves, Going
  <2>2. ASSUME NEW pc \in Pcs, Goto(a, pc) PROVE control' \in [Actors -> Control]
    BY <2>2, Going
  <2>3. CASE EndStop(a)
    BY <2>1, <2>2, <2>3 DEF EndStop, Pcs
  <2>4. CASE ReadFolders(a)
    <3>1. [pc |-> "publish", again |-> FALSE, found |-> library \cap disk] \in Control
      BY DEF TypeOK, Control
    <3> QED BY <2>1, <2>4, <3>1, Going DEF ReadFolders
  <2>5. CASE StopIfRunning(a) \/ SetStop(a) \/ Join(a) \/ ClearGlobals(a)
    BY <2>2, <2>3, <2>5 DEF StopIfRunning, SetStop, Join, ClearGlobals, Pcs
  <2>6. CASE StartUnlessRunning(a) \/ Publish(a) \/ Spawn(a)
    BY <2>1, <2>2, <2>6 DEF StartUnlessRunning, Publish, Spawn, Pcs
  <2> QED BY <2>4, <2>5, <2>6 DEF ControlStep
<1> USE <1>1 DEF TypeOK, world, globals
<1>2. CASE StopIfRunning(a) \/ Join(a) \/ StartUnlessRunning(a) \/ ReadFolders(a)
  BY <1>2 DEF StopIfRunning, Join, StartUnlessRunning, ReadFolders
<1>3. CASE SetStop(a) \/ ClearGlobals(a)
  BY <1>3 DEF SetStop, ClearGlobals
<1>4. CASE Publish(a)
  BY <1>4 DEF Publish, Control
<1>5. CASE Spawn(a)
  BY <1>5 DEF Spawn, Free, Thread, News, NoNews, Control
<1> QED BY <1>2, <1>3, <1>4, <1>5 DEF ControlStep

LEMMA ThreadTyping ==
    ASSUME TypeOK, NEW t \in Threads, ThreadStep(t) PROVE TypeOK'
<1> USE DEF TypeOK, InLoop, At, world, globals, Thread
<1>1. CASE Begin(t)
  BY <1>1 DEF Begin
<1>2. CASE SeeStop(t)
  BY <1>2 DEF SeeStop
<1>3. CASE Deliver(t)
  BY <1>3 DEF Deliver
<1>4. CASE SortChanges(t)
  BY <1>4 DEF SortChanges, News, NoNews
<1>5. CASE CallSync(t)
  BY <1>5 DEF CallSync
<1>6. CASE CallDelete(t)
  BY <1>6 DEF CallDelete, Control, Idle
<1> QED BY <1>1, <1>2, <1>3, <1>4, <1>5, <1>6 DEF ThreadStep

LEMMA WorldTyping ==
    ASSUME TypeOK, NEW f \in Folders, FileChanges(f) \/ DirectoryDeleted(f) \/ BackendAdds(f) \/ BackendDeletes(f)
    PROVE  TypeOK'
<1> USE BoundAssumption DEF TypeOK, Happens, world, globals, News, Told
<1>1. CASE FileChanges(f)
  BY <1>1 DEF FileChanges
<1>2. CASE DirectoryDeleted(f)
  BY <1>2 DEF DirectoryDeleted
<1>3. CASE BackendAdds(f)
  BY <1>3 DEF BackendAdds
<1>4. CASE BackendDeletes(f)
  BY <1>4 DEF BackendDeletes
<1> QED BY <1>1, <1>2, <1>3, <1>4

LEMMA RequestTyping == ASSUME TypeOK, Request PROVE TypeOK'
<1>1. control' \in [Actors -> Control]
  <2>1. PICK c \in Control : control' = [control EXCEPT ![Main] = c]
    BY Moves DEF Request, Pcs
  <2> QED BY <2>1, Going
<1> QED BY <1>1, BoundAssumption DEF TypeOK, Request, Happens, world, globals

LEMMA TypingStarts == ASSUME Init PROVE TypeOK
<1>1. control \in [Actors -> Control]
  BY Moves DEF Init, Pcs
<1>2. thread \in [Threads -> Thread] /\ news \in [Threads -> News]
  BY DEF Init, Thread, News, NoNews
<1>3. disk \subseteq Folders /\ library \subseteq Folders /\ watched \subseteq Folders
  BY DEF Init
<1>4. current \in Threads \cup {None} /\ events \in 0..MaxEvents
  BY BoundAssumption DEF Init
<1>5. stop \in BOOLEAN /\ overlapped \in BOOLEAN
  BY Zenon DEF Init
<1> QED BY <1>1, <1>2, <1>3, <1>4, <1>5 DEF TypeOK

LEMMA StepsAreTyped == ASSUME TypeOK, [Next]_vars PROVE TypeOK'
<1>1. CASE UNCHANGED vars
  BY <1>1 DEF TypeOK, vars, world, globals
<1> QED BY <1>1, ControlTyping, ThreadTyping, WorldTyping, RequestTyping DEF Next

(* Every reachable state of the threads and of the globals is well typed. *)
THEOREM Typing == Spec => []TypeOK
<1> QED BY TypingStarts, StepsAreTyped, PTL DEF Spec

---------------------------------------------------------------------------
(* Nobody else is in stop or start.                                        *)

(* The watcher that the globals describe watches what they say. *)
Good ==
    current # None =>
        /\ ~stop
        /\ watched = thread[current].paths
        /\ thread[current].paths \subseteq disk => Alive(current)

(* What an actor may rely on where it is in stop or start, if it is alone  *)
(* there: until the stop event is set the globals are good, from the check *)
(* that nothing runs to the new thread nothing does, and between publish   *)
(* and spawn the globals await the thread to come.                         *)
StageOK(a) ==
    /\ control[a].pc \in {"stop", "set", "start", "read", "publish"} => Good
    /\ control[a].pc \in {"read", "publish", "spawn"} => ~Alive(current)
    /\ control[a].pc = "spawn" => ~stop /\ watched = control[a].found

AtMostOneBusy == \A a, b \in Busy : a = b

Orderly == AtMostOneBusy /\ (Busy = {} => Good) /\ \A a \in Busy : StageOK(a)

WatcherInv == TypeOK /\ (~overlapped => Orderly)

(* An actor in stop or start moves on. *)
LEMMA ControlIsOrderly ==
    ASSUME TypeOK, Orderly, NEW a \in Actors, ControlStep(a) PROVE Orderly'
<1>1. Busy = {a}
  BY DEF ControlStep, Orderly, AtMostOneBusy, Busy, StopIfRunning, SetStop, Join, ClearGlobals,
         StartUnlessRunning, ReadFolders, Publish, Spawn
<1>2. StageOK(a)
  BY <1>1 DEF Orderly
<1>3. \A b \in Actors \ {a} : control'[b] = control[b]
  BY DEF TypeOK, ControlStep, StopIfRunning, SetStop, Join, ClearGlobals, StartUnlessRunning, ReadFolders,
         Publish, Spawn, Goto, EndStop
<1>4. Busy' \subseteq {a}
  BY <1>1, <1>3 DEF Busy
<1> SUFFICES (control'[a].pc = "idle" => Good') /\ StageOK(a)'
  BY <1>4 DEF Orderly, AtMostOneBusy, Busy
<1> USE DEF TypeOK, globals, world
<1>5. CASE StopIfRunning(a)
  BY <1>2, <1>5 DEF StopIfRunning, StageOK, Good, Alive, Goto, EndStop, Control, Idle
<1>6. CASE SetStop(a)
  BY <1>2, <1>6 DEF SetStop, StageOK, Goto, Control
<1>7. CASE Join(a)
  BY <1>2, <1>7 DEF Join, StageOK, Goto, Control
<1>8. CASE ClearGlobals(a)
  BY <1>2, <1>8 DEF ClearGlobals, StageOK, Good, Goto, EndStop, Control, Idle
<1>9. CASE StartUnlessRunning(a)
  BY <1>2, <1>9 DEF StartUnlessRunning, StageOK, Good, Alive, Running, Goto, Control, Idle
<1>10. CASE ReadFolders(a)
  BY <1>2, <1>10 DEF ReadFolders, StageOK, Good, Alive, Control, Idle
<1>11. CASE Publish(a)
  BY <1>2, <1>11 DEF Publish, StageOK, Alive, Goto, Control
<1>12. CASE Spawn(a)
  BY <1>2, <1>12 DEF Spawn, StageOK, Good, Alive, Free, Control, Idle, Thread
<1> QED BY <1>5, <1>6, <1>7, <1>8, <1>9, <1>10, <1>11, <1>12 DEF ControlStep

(* Anybody else leaves the globals alone and revives no thread, and a      *)
(* watcher that nobody stops ends only for want of a directory.            *)
Quiet ==
    /\ UNCHANGED globals
    /\ disk' \subseteq disk
    /\ \A t \in Threads :
          /\ thread'[t].paths = thread[t].paths
          /\ thread'[t].pc # "over" => thread[t].pc # "over"
          /\ thread[t].pc # "over" /\ thread'[t].pc = "over" => stop \/ ~(thread[t].paths \subseteq disk)

LEMMA QuietIsGood ==
    ASSUME TypeOK, Quiet PROVE (Good => Good') /\ (~Alive(current) => ~Alive(current)')
BY DEF TypeOK, Quiet, Good, Alive, globals

LEMMA QuietIsOrderly ==
    ASSUME TypeOK, Orderly, Quiet, UNCHANGED control PROVE Orderly'
BY QuietIsGood DEF Orderly, AtMostOneBusy, Busy, StageOK, Quiet, globals

(* An actor enters stop or start and is the only one there. *)
LEMMA EntryIsOrderly ==
    ASSUME TypeOK, Orderly, Quiet, Busy = {}, NEW a \in Actors,
           \E c \in Control : c.pc \in {"stop", "start"} /\ control' = [control EXCEPT ![a] = c]
    PROVE  Orderly'
<1>1. control'[a].pc \in {"stop", "start"} /\ \A b \in Actors \ {a} : control'[b] = control[b]
  BY DEF TypeOK
<1>2. Busy' = {a}
  BY <1>1 DEF Busy
<1>3. Good'
  BY QuietIsGood DEF Orderly
<1> QED BY <1>1, <1>2, <1>3 DEF Orderly, AtMostOneBusy, StageOK

LEMMA ThreadsAreOrderly ==
    ASSUME WatcherInv, NEW t \in Threads, ThreadStep(t) PROVE (~overlapped => Orderly)'
<1> USE DEF WatcherInv, world, globals
<1>1. Quiet
  BY DEF TypeOK, ThreadStep, Begin, SeeStop, Deliver, SortChanges, CallSync, CallDelete, Quiet, InLoop, At, Thread
<1>2. CASE CallDelete(t)
  <2>1. ~overlapped' => ~overlapped /\ Busy = {}
    BY <1>2 DEF CallDelete, TypeOK
  <2>2. \E c \in Control : c.pc \in {"stop", "start"} /\ control' = [control EXCEPT ![t] = c]
    BY <1>2, Entries DEF CallDelete
  <2>3. ASSUME ~overlapped' PROVE Orderly'
    <3>1. TypeOK /\ Orderly /\ Busy = {} /\ t \in Actors
      BY <2>1, <2>3
    <3> QED BY <1>1, <2>2, <3>1, EntryIsOrderly
  <2> QED BY <2>3
<1>3. CASE UNCHANGED <<control, overlapped>>
  BY <1>1, <1>3, QuietIsOrderly
<1> QED BY <1>2, <1>3 DEF ThreadStep, Begin, SeeStop, Deliver, SortChanges, CallSync

LEMMA WatcherSteps == ASSUME WatcherInv, [Next]_vars PROVE WatcherInv'
<1> USE DEF WatcherInv
<1>1. TypeOK'
  BY StepsAreTyped
<1>2. CASE Request
  <2>1. Quiet
    BY <1>2 DEF Request, Quiet, world, globals
  <2>2. ~overlapped' => ~overlapped /\ Busy = {}
    BY <1>2 DEF Request, TypeOK
  <2>3. \E c \in Control : c.pc \in {"stop", "start"} /\ control' = [control EXCEPT ![Main] = c]
    BY <1>2, Entries DEF Request
  <2>4. ASSUME ~overlapped' PROVE Orderly'
    <3>1. TypeOK /\ Orderly /\ Busy = {} /\ Main \in Actors
      BY <2>2, <2>4
    <3> QED BY <2>1, <2>3, <3>1, EntryIsOrderly
  <2> QED BY <1>1, <2>4
<1>3. ASSUME NEW a \in Actors, ControlStep(a) PROVE WatcherInv'
  <2>1. UNCHANGED overlapped
    BY <1>3 DEF ControlStep, StopIfRunning, SetStop, Join, ClearGlobals, StartUnlessRunning, ReadFolders,
                Publish, Spawn
  <2> QED BY <1>1, <1>3, <2>1, ControlIsOrderly
<1>4. ASSUME NEW t \in Threads, ThreadStep(t) PROVE WatcherInv'
  BY <1>1, <1>4, ThreadsAreOrderly
<1>5. ASSUME NEW f \in Folders, FileChanges(f) \/ DirectoryDeleted(f) \/ BackendAdds(f) \/ BackendDeletes(f)
      PROVE  WatcherInv'
  <2>1. Quiet /\ UNCHANGED <<control, overlapped>>
    BY <1>5 DEF FileChanges, DirectoryDeleted, BackendAdds, BackendDeletes, Quiet, world, globals
  <2> QED BY <1>1, <2>1, QuietIsOrderly
<1>6. CASE UNCHANGED vars
  <2>1. Quiet /\ UNCHANGED <<control, overlapped>>
    BY <1>6 DEF vars, Quiet, world, globals
  <2> QED BY <1>1, <2>1, QuietIsOrderly
<1> QED BY <1>2, <1>3, <1>4, <1>5, <1>6 DEF Next

LEMMA WatcherStarts == ASSUME Init PROVE WatcherInv
<1>1. Busy = {Main}
  BY ActorsAssumption DEF Init, Busy, Idle
<1>2. Good /\ control[Main].pc = "start"
  BY DEF Init, Good, Idle
<1> QED BY <1>1, <1>2, TypingStarts DEF WatcherInv, Orderly, AtMostOneBusy, StageOK

(* A watcher that was started and not stopped watches what it was started  *)
(* with, unless two actors were in stop or start at once, whatever folders *)
(* come and go and however often it restarts itself                        *)
(* (watcher_util_start_folder_watcher, watcher_util_stop_folder_watcher).  *)
THEOREM StartedWatchersWatch == Spec => []StartedWatches
<1>1. WatcherInv => StartedWatches
  BY DEF WatcherInv, Orderly, Good, StartedWatches
<1> QED BY <1>1, WatcherStarts, WatcherSteps, PTL DEF Spec
=============================================================================
