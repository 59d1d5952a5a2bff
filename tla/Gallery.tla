-------------------------------- MODULE Gallery --------------------------------
(***************************************************************************)
(* People, memories and albums over one library of photos.  A behaviour    *)
(* exercises the parts in its scope; the others stay as they are at the    *)
(* start.  A deleted photo cascades to all three, a rename owes memories a *)
(* rescoring, and an album may be made from a memory.                      *)
(***************************************************************************)
EXTENDS Memories

galleryVars == <<libraryVars, peopleVars, albumVars, memoryVars>>

Init == LibraryInit /\ PeopleInit /\ AlbumsInit /\ MemoriesInit

LibraryStill == UNCHANGED <<scope, alive, taken, today>>

(* A file or a folder is gone. *)
PhotoGoes(p) == DeletePhoto(p) /\ CascadeToFaces(p) /\ CascadeToAlbums(p) /\ CascadeToMemories(p)

ScanAndClock ==
    \/ \E p \in Photos : PhotoGoes(p)
    \/ /\ About("memories")
       /\ \/ \E p \in Photos : CorrectDate(p) /\ NoteMove
          \/ Tomorrow /\ UNCHANGED memoryVars
       /\ UNCHANGED <<peopleVars, albumVars>>

(* Within one process the worker tags, clusters or curates, one at a time; *)
(* only the request for a full pass runs in the server.                    *)
PeopleStep ==
    /\ About("people")
    /\ \/ (\E a \in Actors : PassStep(a)) /\ UNCHANGED libraryVars
       \/ (ReadUntagged \/ ReadPreferences \/ TimePasses) /\ LibraryStill
       \/ (InsertFace \/ WritePreferences) /\ UNCHANGED libraryVars
    /\ UNCHANGED <<albumVars, memoryVars>>

RenamePerson ==
    /\ About("people") \/ About("memories")
    /\ \E c \in Clusters, name \in Names :
          Rename(c, name) /\ (IF About("memories") THEN NoteRename(c) ELSE UNCHANGED memoryVars)
    /\ LibraryStill /\ UNCHANGED albumVars

MemoriesStep ==
    /\ About("memories")
    /\ \/ (SubmitCuration \/ WorkerStep \/ \E c \in owed : SubmitRescore(c)) /\ UNCHANGED libraryVars
       \/ (OpenTodays \/ \E k \in DOMAIN memories : Dismiss(k) \/ DeleteMemory(k)) /\ LibraryStill
    /\ UNCHANGED <<peopleVars, albumVars>>

AlbumsStep ==
    /\ About("albums")
    /\ \/ (\E c \in Clients : Handle(c)) /\ UNCHANGED libraryVars
       \/ (\E c \in Clients : Ask(c)) /\ LibraryStill
       \/ (\E c \in Clients, k \in DOMAIN memories : AskFromMemory(c, PhotosOf(memories[k]))) /\ LibraryStill
    /\ UNCHANGED <<peopleVars, memoryVars>>

Next == ScanAndClock \/ PeopleStep \/ RenamePerson \/ MemoriesStep \/ AlbumsStep

Spec == Init /\ [][Next]_galleryVars
=============================================================================
