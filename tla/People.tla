-------------------------------- MODULE People --------------------------------
(***************************************************************************)
(* Faces and the clusters that stand for people (utils/face_clusters.py).  *)
(* The worker clusters after each scan, fully or incrementally; a request  *)
(* for a global recluster runs the full pass in the server, beside it.     *)
(* Both read first, compute, and write later in one transaction, while     *)
(* people are renamed, photos deleted and preferences saved.               *)
(***************************************************************************)
EXTENDS FaceGroups

CONSTANTS
    Clusters,           \* cluster ids, 1 to some number, drawn in order like fresh uuids
    Names,              \* what users call people
    InitialCluster,     \* in each scope, the cluster of each face at the start,
                        \* None, or NoFace
    NoFace,             \* the face has no row
    NoCluster,          \* the cluster has no row
    ManyFaces,          \* so many unassigned faces call for a full pass
    MaxPasses           \* bound on passes

(* What is there at the start is as passes leave it: one face of a photo   *)
(* in a cluster.                                                           *)
ASSUME PeopleAssumption ==
    /\ Clusters # {} /\ IsFiniteSet(Clusters) /\ Clusters = 1..Cardinality(Clusters)
    /\ MaxPasses \in Nat
    /\ None \notin Clusters \cup Names /\ NoFace \notin Clusters \cup {None}
    /\ NoCluster \notin Names \cup {None}
    /\ \A s \in Scopes :
          /\ InitialCluster[s] \in [Faces -> Clusters \cup {None, NoFace}]
          /\ \A f, g \in Faces : f # g /\ ImageOf[f] = ImageOf[g] /\ InitialCluster[s][f] \in Clusters =>
                InitialCluster[s][f] # InitialCluster[s][g]

VARIABLES
    face,       \* faces.cluster_id, or NoFace
    cluster,    \* face_clusters.cluster_name, or NoCluster
    drawn,      \* how many cluster ids have been drawn
    metadata,   \* the one metadata row: the preferences, and how long ago the
                \* last full pass was; None before the first write
    saving,     \* the metadata a PUT of preferences has read; None between two
    pass,       \* the clustering pass of each process
    passes,     \* how many have begun
    incoming    \* the faces that the tagging pass under way is still to insert

peopleVars == <<face, cluster, drawn, metadata, saving, pass, passes, incoming>>

Actors == {"worker", "server"}

IdlePass == [pc |-> "idle", blob |-> None, seen |-> <<>>, people |-> {},
             new |-> {}, means |-> <<>>, to |-> <<>>]

HasRow      == {f \in Faces : face[f] # NoFace}
Unassigned  == {f \in HasRow : face[f] = None}
FacesOf(c)  == {f \in Faces : face[f] = c}
Exists(c)   == cluster[c] # NoCluster

(* db_get_all_faces_with_cluster_names *)
NamesNow == [f \in HasRow |-> IF face[f] = None THEN None ELSE cluster[face[f]]]

(* What a pass may later find changed under it. *)
SeenNow == [f \in HasRow |-> <<face[f], NamesNow[f]>>]

(* db_get_clusters_count and the listing join the faces. *)
VisibleClusters == {c \in Clusters : FacesOf(c) # {}}

PeopleInit ==
    /\ face = InitialCluster[scope]
    /\ cluster = [c \in Clusters |-> IF c \in Range(face) THEN None ELSE NoCluster]
    /\ drawn = Max({0} \cup {c \in Clusters : c \in Range(face)})
    /\ metadata = None /\ saving = None
    /\ pass = [a \in Actors |-> IdlePass]
    /\ passes = 0 /\ incoming = {}

---------------------------------------------------------------------------
(* A pass.                                                                 *)

Goes(a, p) == pass' = [pass EXCEPT ![a] = p]
Ends(a)    == Goes(a, IdlePass)

(* Mutant: clusters without a face keep the first pass from being full. *)
ReclusteringNeededByRows(blob) ==
    \/ blob = None
    \/ blob.clustered = "long ago"
    \/ Cardinality(Unassigned) > ManyFaces
    \/ Unassigned # {} /\ ~\E c \in Clusters : Exists(c)

(* cluster_util_is_reclustering_needed *)
ReclusteringNeeded(blob) ==
    \/ blob = None
    \/ blob.clustered = "long ago"
    \/ Cardinality(Unassigned) > ManyFaces
    \/ Unassigned # {} /\ VisibleClusters = {}

(* The metadata row is read and the kind of pass chosen; the request       *)
(* always forces a full one.  The worker clusters when it has tagged.      *)
Begin(a) ==
    /\ pass[a].pc = "idle" /\ passes < MaxPasses
    /\ a = "worker" => incoming = {}
    /\ passes' = passes + 1
    /\ Goes(a, [IdlePass EXCEPT !.blob = metadata, !.seen = SeenNow,
                  !.pc = IF a = "server" \/ ReclusteringNeeded(metadata) THEN "read all" ELSE "read new"])
    /\ UNCHANGED <<face, cluster, drawn, metadata, saving, incoming>>

ReadAll(a) ==
    /\ pass[a].pc = "read all"
    /\ Goes(a, [pass[a] EXCEPT !.pc = "write all", !.seen = SeenNow,
                               !.people = PeopleAmong(HasRow, NamesNow)])
    /\ UNCHANGED <<face, cluster, drawn, metadata, saving, passes, incoming>>

Stamped(blob) ==
    [settings |-> IF blob = None THEN 0 ELSE blob.settings, clustered |-> "lately"]

(* db_delete_all_clusters, then db_insert_clusters_batch: fresh uuids, of  *)
(* which it does not matter who gets which.                                *)
Inserted(found) ==
    [c \in Clusters |-> IF c \in drawn + 1 .. drawn + Len(found) THEN found[c - drawn].name ELSE NoCluster]

(* Faces lose their clusters by ON DELETE SET NULL; of the found ones      *)
(* those that still have a row get the new.                                *)
Regrouped(found) ==
    LET New(f) == {drawn + i : i \in {j \in DOMAIN found : f \in found[j].faces}}
    IN  [f \in Faces |-> IF face[f] = NoFace THEN NoFace ELSE IF New(f) = {} THEN None ELSE Min(New(f))]

(* Mutant: when there is nobody, the pass returns without writing. *)
WriteAllUnlessEmpty(a) ==
    LET found == SetToSeq(pass[a].people)
    IN  /\ pass[a].pc = "write all"
        /\ drawn + Len(found) <= Max(Clusters)
        /\ drawn' = drawn + Len(found)
        /\ IF found = <<>> THEN UNCHANGED <<cluster, face, metadata>>
           ELSE cluster' = Inserted(found) /\ face' = Regrouped(found) /\ metadata' = Stamped(pass[a].blob)
        /\ Ends(a)
        /\ UNCHANGED <<saving, passes, incoming>>

(* The one transaction of a full pass: the old clusters go, the new ones   *)
(* are inserted, faces assigned, and the metadata row is replaced by the   *)
(* one read at the start with a new time in it.                            *)
WriteAll(a) ==
    LET found == SetToSeq(pass[a].people)
    IN  /\ pass[a].pc = "write all"
        /\ drawn + Len(found) <= Max(Clusters)
        /\ drawn' = drawn + Len(found)
        /\ cluster' = Inserted(found) /\ face' = Regrouped(found) /\ metadata' = Stamped(pass[a].blob)
        /\ Ends(a)
        /\ UNCHANGED <<saving, passes, incoming>>

(* The incremental pass reads the new faces, the means and the occupied    *)
(* pairs on three connections.                                             *)
ReadNew(a) ==
    /\ pass[a].pc = "read new"
    /\ IF Unassigned = {} THEN Ends(a)
       ELSE Goes(a, [pass[a] EXCEPT !.pc = "read means", !.new = Unassigned])
    /\ UNCHANGED <<face, cluster, drawn, metadata, saving, passes, incoming>>

ReadMeans(a) ==
    /\ pass[a].pc = "read means"
    /\ Goes(a, [pass[a] EXCEPT !.pc = "read pairs", !.means = [c \in VisibleClusters |-> FacesOf(c)]])
    /\ UNCHANGED <<face, cluster, drawn, metadata, saving, passes, incoming>>

Occupied == {<<face[f], ImageOf[f]>> : f \in HasRow \ Unassigned}

ReadPairs(a) ==
    /\ pass[a].pc = "read pairs"
    /\ Goes(a, [pass[a] EXCEPT !.pc = "assign",
                  !.to = IF pass[a].means = <<>> THEN <<>>
                         ELSE Assign(pass[a].new, pass[a].means, Occupied)])
    /\ UNCHANGED <<face, cluster, drawn, metadata, saving, passes, incoming>>

Assigned(to) == [f \in Faces |-> IF f \in DOMAIN to \cap HasRow THEN to[f] ELSE face[f]]

(* Mutant: the update runs on a connection without foreign keys. *)
WriteAssignedUnchecked(a) ==
    /\ pass[a].pc = "assign"
    /\ face' = Assigned(pass[a].to)
    /\ Ends(a)
    /\ UNCHANGED <<cluster, drawn, metadata, saving, passes, incoming>>

(* The transaction of an incremental pass.  A cluster that is gone by now  *)
(* breaks a foreign key and undoes all of it; a face that is gone does not *)
(* matter.                                                                 *)
WriteAssigned(a) ==
    /\ pass[a].pc = "assign"
    /\ face' = IF \A f \in DOMAIN pass[a].to \cap HasRow : Exists(pass[a].to[f])
               THEN Assigned(pass[a].to) ELSE face
    /\ Ends(a)
    /\ UNCHANGED <<cluster, drawn, metadata, saving, passes, incoming>>

PassStep(a) ==
    \/ Begin(a) \/ ReadAll(a) \/ WriteAll(a)
    \/ ReadNew(a) \/ ReadMeans(a) \/ ReadPairs(a) \/ WriteAssigned(a)

---------------------------------------------------------------------------
(* What happens beside the passes.                                         *)

(* A tagging pass begins, in the process of the worker's clustering: it    *)
(* reads the list of untagged photos once.                                 *)
ReadUntagged ==
    /\ Happens
    /\ pass["worker"].pc = "idle" /\ incoming = {}
    /\ incoming' = {f \in Faces : ImageOf[f] \in alive \ {ImageOf[g] : g \in HasRow}}
    /\ incoming' # {}
    /\ UNCHANGED <<face, cluster, drawn, metadata, saving, pass, passes>>

(* Each face is inserted in a transaction of its own, on a connection      *)
(* without foreign keys: its photo may be gone by now.                     *)
InsertFace ==
    /\ incoming # {}
    /\ face' = [face EXCEPT ![Min(incoming)] = None]
    /\ incoming' = incoming \ {Min(incoming)}
    /\ UNCHANGED <<cluster, drawn, metadata, saving, pass, passes>>

CascadeToFaces(p) ==
    /\ face' = [f \in Faces |-> IF ImageOf[f] = p THEN NoFace ELSE face[f]]
    /\ UNCHANGED <<cluster, drawn, metadata, saving, pass, passes, incoming>>

(* rename_cluster of a cluster that exists when the UPDATE runs. *)
Rename(c, name) ==
    /\ Happens
    /\ Exists(c) /\ cluster[c] # name
    /\ cluster' = [cluster EXCEPT ![c] = name]
    /\ UNCHANGED <<face, drawn, metadata, saving, pass, passes, incoming>>

(* update_user_preferences reads the whole row, merges and writes it back. *)
ReadPreferences ==
    /\ Happens
    /\ saving = None
    /\ saving' = IF metadata = None THEN [settings |-> 0, clustered |-> "never"] ELSE metadata
    /\ UNCHANGED <<face, cluster, drawn, metadata, pass, passes, incoming>>

WritePreferences ==
    /\ saving # None
    /\ metadata' = [saving EXCEPT !.settings = 1]
    /\ saving' = None
    /\ UNCHANGED <<face, cluster, drawn, pass, passes, incoming>>

(* 24 hours later. *)
TimePasses ==
    /\ Happens
    /\ metadata # None /\ metadata.clustered = "lately"
    /\ metadata' = [metadata EXCEPT !.clustered = "long ago"]
    /\ UNCHANGED <<face, cluster, drawn, saving, pass, passes, incoming>>

---------------------------------------------------------------------------
PeopleTypeOK ==
    /\ face \in [Faces -> Clusters \cup {None, NoFace}]
    /\ cluster \in [Clusters -> Names \cup {None, NoCluster}]
    /\ drawn \in 0 .. Max(Clusters) /\ passes \in 0 .. MaxPasses
    /\ \A f \in Faces : face[f] \in Clusters => cluster[face[f]] # NoCluster
    /\ incoming \subseteq Faces

(* The faces of one photo are different people, whatever passes overlap    *)
(* and whenever the faces came (face_clusters.py:513-515).                 *)
OneFacePerPhoto ==
    \A f, g \in Faces :
        f # g /\ ImageOf[f] = ImageOf[g] /\ face[f] \in Clusters => face[f] # face[g]

(* A full pass under which nothing changed leaves a name where it was: if  *)
(* the faces named so end up together and with nobody else who has a name, *)
(* they keep it.  That no other named face ends up alone is needed: such a *)
(* face has voted, although it had to make way for another of its image.   *)
NamesAreKept ==
    [][\A a \in Actors : pass[a].pc = "write all" /\ pass[a].seen = SeenNow /\ pass'[a].pc = "idle" =>
          \A name \in Names : \A c \in Clusters :
              LET theirs == {f \in HasRow : NamesNow[f] = name}
                  members == {f \in Faces : face'[f] = c}
              IN  theirs # {} /\ theirs \subseteq members
                  /\ (\A f \in members : NamesNow[f] \in {name, None})
                  /\ (\A f \in HasRow : NamesNow[f] \notin {name, None} => face'[f] # None) =>
                        cluster'[c] = name]_peopleVars

(* "Producing no clusters means none should remain" (face_clusters.py:     *)
(* 125-127): after a full pass every cluster has a face, unless the photo  *)
(* was deleted while it ran.                                               *)
NoFacelessPeople ==
    [][\A a \in Actors : pass[a].pc = "write all" /\ pass'[a].pc = "idle"
            /\ DOMAIN pass[a].seen \subseteq HasRow =>
          \A c \in Clusters : cluster'[c] # NoCluster => \E f \in Faces : face'[f] = c]_peopleVars

(* Incremental assignment "can never create the first one" (face_clusters  *)
(* .py:102-103): a pass under which nothing changed never ends with nobody *)
(* to be seen while there are faces that make a group.                     *)
FirstPeopleAppear ==
    [][\A a \in Actors : pass[a].pc \in {"assign", "write all"} /\ pass'[a].pc = "idle"
            /\ pass[a].seen = SeenNow /\ (\A f \in HasRow : face'[f] = None) =>
          PeopleAmong(HasRow, NamesNow) = {}]_peopleVars
=============================================================================
