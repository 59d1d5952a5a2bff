------------------------- MODULE FolderLibraryProofs -------------------------
(***************************************************************************)
(* Type correctness of FolderLibrary, and its three invariants for any     *)
(* library and any number of handlers: BusyIsOwned and                     *)
(* CompletedMeansIndexed with any faults, and NothingLeftUntagged as long  *)
(* as nothing is added and nothing goes wrong.                             *)
(***************************************************************************)
EXTENDS FolderLibrary, TLAPS

(* The tables stay tables under each statement. *)

LEMMA SetAITyped ==
    ASSUME FolderOK, NEW S, NEW on \in BOOLEAN, SetAI(S, on)
    PROVE  FolderOK' /\ Rows' = Rows
BY DEF FolderOK, SetAI, Rows, Row

LEMMA SetTaggedTyped ==
    ASSUME FolderOK, NEW done \in BOOLEAN, SetTagged(done)
    PROVE  FolderOK' /\ Rows' = Rows
BY DEF FolderOK, SetTagged, Rows, Row

LEMMA SetIndexingTyped ==
    ASSUME FolderOK, NEW S,
           NEW status \in {"in_progress", "completed", "interrupted"}, SetIndexing(S, status)
    PROVE  FolderOK' /\ Rows' = Rows
BY DEF FolderOK, SetIndexing, Rows, Row

LEMMA DeleteTyped ==
    ASSUME FolderOK, MediaOK, NEW S, DeleteFolders(S)
    PROVE  /\ FolderOK' /\ MediaOK'
           /\ Rows' \subseteq Rows
           /\ \A i \in Rows' : folder'[i] = folder[i]
<1> DEFINE gone == Cascade(S \cap Rows)
<1> HIDE DEF gone
<1>1. folder' = [i \in Rows \ gone |-> folder[i]]
  BY DEF DeleteFolders, gone
<1>2. media' = [p \in {q \in DOMAIN media : media[q].folder \notin gone} |-> media[p]]
  BY DEF DeleteFolders, gone
<1>3. FolderOK' /\ Rows' \subseteq Rows /\ \A i \in Rows' : folder'[i] = folder[i]
  BY <1>1 DEF FolderOK, Rows
<1>4. MediaOK'
  BY <1>2 DEF MediaOK
<1> QED BY <1>3, <1>4

---------------------------------------------------------------------------
(* What the later steps of a handler rely on: folder_map is a part of the  *)
(* tree below its root, so the parent of every other directory in it is a  *)
(* directory; only an add looks for a parent; a sync always has one.       *)
CallOK(k) ==
    /\ k.pc = "link" => k.root \in Paths /\ k.tree \subseteq Subtree[k.root]
    /\ k.pc = "parent" => k.op = "add"
    /\ k.op = "none" => k.pc = "idle"
    /\ k.op = "sync" => k.parent \in Ids

CallsOK == \A c \in Callers : CallOK(call[c])

Typed == TypeOK /\ CallsOK

LEMMA InitTyped == Init => Typed
<1> SUFFICES ASSUME Init PROVE Typed
  OBVIOUS
<1>1. FolderOK
  <2>0. Rows = {0} \X Library
    BY DEF Init, Rows
  <2>1. Rows \subseteq Ids
    BY <2>0, PathsAssumption DEF Ids
  <2>2. ASSUME NEW i \in Rows PROVE folder[i] \in Row
    <3> DEFINE above == IF Parent[PathOf(i)] \in Library THEN <<0, Parent[PathOf(i)]>> ELSE NoId
    <3>1. above \in Ids \cup {NoId}
      BY PathsAssumption DEF Ids
    <3>2. folder[i] = [NewRow EXCEPT !.indexing = "completed", !.parent = above]
      BY <2>0 DEF Init
    <3> HIDE DEF above
    <3> QED BY <3>1, <3>2 DEF NewRow, Row
  <2>3. folder = [i \in Rows |-> folder[i]]
    BY DEF Init, Rows
  <2> QED BY <2>1, <2>2, <2>3 DEF FolderOK
<1>2. MediaOK
  BY PathsAssumption DEF Init, MediaOK, MediaRow, Ids
<1>3. IdleCall \in Call /\ CallOK(IdleCall)
  BY DEF IdleCall, Call, CallOK
<1>4. call \in [Callers -> Call] /\ CallsOK
  BY <1>3 DEF Init, CallsOK
<1>5. IdleWorker \in Worker
  BY DEF IdleWorker, Worker
<1>6. <<>> \in Seq(Job)
  OBVIOUS
<1>7. dirs \subseteq Paths /\ walks \in Nat /\ queue = <<>> /\ worker = IdleWorker
  BY DEF Init
<1>8. /\ requests \in 0 .. MaxRequests /\ faults \in 0 .. MaxFaults
      /\ alive \in BOOLEAN /\ lost = {} /\ missed = {}
  <2>1. requests = 0 /\ faults = 0 /\ alive = TRUE /\ lost = {} /\ missed = {}
    BY DEF Init
  <2> QED BY <2>1, BoundsAssumption
<1> QED BY <1>1, <1>2, <1>4, <1>5, <1>6, <1>7, <1>8 DEF TypeOK, Typed

LEMMA HandlersTyped ==
    ASSUME Typed, NEW c \in Callers, HandlerStep(c)
    PROVE  Typed'
<1> USE PathsAssumption DEF Typed, TypeOK, disk, tables, mishaps
<1>0. /\ call[c] \in Call /\ IdleCall \in Call
      /\ CallOK(call[c]) /\ CallOK(IdleCall)
  BY DEF IdleCall, Call, CallOK, CallsOK
<1>a. ASSUME NEW k, k \in Call, CallOK(k), call' = [call EXCEPT ![c] = k]
      PROVE  call' \in [Callers -> Call] /\ CallsOK'
  BY <1>a DEF CallsOK
<1>b. ASSUME call[c].pc # "idle" PROVE call[c].op # "none"
  BY <1>0, <1>b DEF CallOK
<1>1. CASE FindParent(c)
  <2> PICK i \in RowsAt(Parent[call[c].path]) \cup {NoId} :
         call' = [call EXCEPT ![c] = [call[c] EXCEPT !.pc = "insert", !.parent = i]]
    BY <1>1 DEF FindParent
  <2>1. i \in Ids \cup {NoId}
    BY DEF RowsAt, FolderOK
  <2> DEFINE next == [call[c] EXCEPT !.pc = "insert", !.parent = i]
  <2>2. next \in Call
    BY <1>0, <2>1 DEF Call
  <2>3. call[c].op = "add"
    BY <1>0, <1>1 DEF FindParent, CallOK
  <2>4. CallOK(next)
    BY <1>0, <2>3 DEF CallOK, Call
  <2> HIDE DEF next
  <2>5. call' = [call EXCEPT ![c] = next]
    BY DEF next
  <2>6. call' \in [Callers -> Call] /\ CallsOK'
    BY <1>a, <2>2, <2>4, <2>5
  <2> QED BY <1>1, <2>6 DEF FindParent, FolderOK, MediaOK, Rows
<1>2. CASE CompareWithDisk(c)
  <2> DEFINE children == {j \in Rows : folder[j].parent = call[c].parent}
             onDisk == {q \in dirs : Parent[q] = call[c].path}
             next == [call[c] EXCEPT !.pc = "delete",
                                     !.doomed = {j \in children : PathOf(j) \notin onDisk},
                                     !.todo = onDisk \ {PathOf(j) : j \in children}]
  <2>1. next \in Call /\ CallOK(next)
    <3>1. call[c].op # "none" /\ call[c].pc # "parent"
      BY <1>b, <1>2 DEF CompareWithDisk
    <3>2. next \in Call
      BY <1>0 DEF Call, FolderOK
    <3>3. /\ next.pc # "link" /\ next.pc # "parent"
          /\ next.op = call[c].op /\ next.parent = call[c].parent
      BY <1>0 DEF Call
    <3> HIDE DEF next
    <3> QED BY <1>0, <3>1, <3>2, <3>3 DEF CallOK
  <2>2. call' = [call EXCEPT ![c] = IF call[c].path \notin dirs THEN IdleCall ELSE next]
    BY <1>2 DEF CompareWithDisk
  <2> HIDE DEF next
  <2>4. call' \in [Callers -> Call] /\ CallsOK'
    BY <1>0, <1>a, <2>1, <2>2
  <2> QED BY <1>2, <2>4 DEF CompareWithDisk, FolderOK, MediaOK, Rows
<1>3. CASE DeleteObsolete(c)
  <2>1. FolderOK' /\ MediaOK'
    BY <1>3, DeleteTyped DEF DeleteObsolete
  <2> DEFINE next == [call[c] EXCEPT !.pc = InsertOrSubmit(call[c].todo), !.doomed = {}]
  <2>2. next \in Call /\ CallOK(next)
    <3>1. call[c].op # "none" /\ call[c].pc # "parent"
      BY <1>b, <1>3 DEF DeleteObsolete
    <3>2. next \in Call
      BY <1>0 DEF Call, InsertOrSubmit
    <3>3. /\ next.pc # "link" /\ next.pc # "parent"
          /\ next.op = call[c].op /\ next.parent = call[c].parent
      BY <1>0 DEF Call, InsertOrSubmit
    <3> HIDE DEF next
    <3> QED BY <1>0, <3>1, <3>2, <3>3 DEF CallOK
  <2>3. call' = [call EXCEPT ![c] = next]
    BY <1>3 DEF DeleteObsolete
  <2> HIDE DEF next
  <2>4. call' \in [Callers -> Call] /\ CallsOK'
    BY <1>a, <2>2, <2>3
  <2> QED BY <1>3, <2>1, <2>4 DEF DeleteObsolete
<1>4. ASSUME NEW r \in Paths, InsertTree(c, r) PROVE Typed'
  <2> DEFINE tree == Subtree[r] \cap dirs
             new == {<<walks + 1, q>> : q \in {q \in tree : RowsAt(q) = {}}}
  <2>1. folder' = [i \in Rows \cup new |-> IF i \in Rows THEN folder[i] ELSE NewRow]
    BY <1>4 DEF InsertTree
  <2>2. new \subseteq Ids
    BY DEF Ids
  <2>3. NewRow \in Row
    BY DEF NewRow, Row
  <2> HIDE DEF new
  <2>4. FolderOK'
    BY <2>1, <2>2, <2>3 DEF FolderOK, Rows
  <2> DEFINE next == [call[c] EXCEPT !.pc = "link", !.root = r, !.tree = tree,
                                     !.walk = walks + 1, !.todo = @ \ {r}]
  <2>5. next \in Call /\ CallOK(next)
    <3>1. tree \in SUBSET Paths /\ tree \subseteq Subtree[r] /\ walks + 1 \in Nat
      OBVIOUS
    <3>2. call[c].op # "none"
      BY <1>b, <1>4 DEF InsertTree
    <3> HIDE DEF tree
    <3>3. next \in Call
      BY <1>0, <3>1 DEF Call
    <3>4. /\ next.pc = "link" /\ next.root = r /\ next.tree = tree
          /\ next.op = call[c].op /\ next.parent = call[c].parent
      BY <1>0 DEF Call
    <3> HIDE DEF next
    <3> QED BY <1>0, <3>1, <3>2, <3>3, <3>4 DEF CallOK
  <2>6. call' = [call EXCEPT ![c] = next]
    BY <1>4 DEF InsertTree
  <2> HIDE DEF next
  <2>7. call' \in [Callers -> Call] /\ CallsOK'
    BY <1>a, <2>5, <2>6
  <2> QED BY <1>4, <2>4, <2>7 DEF InsertTree, MediaOK
<1>5. ASSUME NEW r \in Paths, SkipTree(c, r) PROVE Typed'
  <2> DEFINE next == [call[c] EXCEPT !.pc = InsertOrSubmit(call[c].todo \ {r}),
                                     !.todo = call[c].todo \ {r}]
  <2>1. next \in Call /\ CallOK(next)
    <3>1. call[c].op # "none" /\ call[c].pc # "parent"
      BY <1>b, <1>5 DEF SkipTree
    <3>2. next \in Call
      BY <1>0 DEF Call, InsertOrSubmit
    <3>3. /\ next.pc # "link" /\ next.pc # "parent"
          /\ next.op = call[c].op /\ next.parent = call[c].parent
      BY <1>0 DEF Call, InsertOrSubmit
    <3> HIDE DEF next
    <3> QED BY <1>0, <3>1, <3>2, <3>3 DEF CallOK
  <2>2. call' = [call EXCEPT ![c] = IF call[c].op = "add" THEN IdleCall ELSE next]
    BY <1>5 DEF SkipTree
  <2> HIDE DEF next
  <2>3. call' \in [Callers -> Call] /\ CallsOK'
    BY <1>0, <1>a, <2>1, <2>2
  <2> QED BY <1>5, <2>3 DEF SkipTree, FolderOK, MediaOK, Rows
<1>6. CASE LinkTree(c)
  <2>1. ASSUME NEW q \in call[c].tree PROVE MappedParent(c, q) \in Ids \cup {NoId}
    BY <1>0, <1>6, <2>1 DEF LinkTree, CallOK, MappedParent, Call, Ids
  <2>2. folder' = [i \in Rows |->
                     IF PathOf(i) \in call[c].tree /\ folder[i].parent = NoId
                     THEN [folder[i] EXCEPT !.parent = MappedParent(c, PathOf(i))]
                     ELSE folder[i]]
    BY <1>6 DEF LinkTree
  <2>3. FolderOK'
    <3>1. ASSUME NEW i \in Rows PROVE folder'[i] \in Row
      BY <2>1, <2>2, <3>1 DEF FolderOK, Row
    <3>2. Rows' = Rows /\ folder' = [i \in Rows |-> folder'[i]]
      BY <2>2 DEF Rows
    <3> QED BY <3>1, <3>2 DEF FolderOK
  <2>4. {call[c].walk} \X call[c].tree \subseteq Ids
    BY <1>0 DEF Call, Ids
  <2> DEFINE next == [call[c] EXCEPT !.pc = InsertOrSubmit(call[c].todo),
                            !.added = @ \cup ({call[c].walk} \X call[c].tree),
                            !.root = NoPath, !.tree = {}, !.walk = 0]
  <2>5. next \in Call /\ CallOK(next)
    <3>1. call[c].op # "none" /\ call[c].pc # "parent"
      BY <1>b, <1>6 DEF LinkTree
    <3>2. next \in Call
      BY <1>0, <2>4 DEF Call, InsertOrSubmit
    <3>3. /\ next.pc # "link" /\ next.pc # "parent"
          /\ next.op = call[c].op /\ next.parent = call[c].parent
      BY <1>0 DEF Call, InsertOrSubmit
    <3> HIDE DEF next
    <3> QED BY <1>0, <3>1, <3>2, <3>3 DEF CallOK
  <2>6. call' = [call EXCEPT ![c] = next]
    BY <1>6 DEF LinkTree
  <2> HIDE DEF next
  <2>7. call' \in [Callers -> Call] /\ CallsOK'
    BY <1>a, <2>5, <2>6
  <2> QED BY <1>6, <2>3, <2>7 DEF LinkTree, MediaOK
<1>7. CASE Submit(c)
  <2>1. JobOf(c) \in Job
    <3>1. call[c].path \in Paths \cup {NoPath} /\ call[c].added \subseteq Ids
      BY <1>0 DEF Call
    <3>2. call[c].op \in {"none", "add", "sync", "enable"}
      BY <1>0 DEF Call
    <3>3. call[c].op # "none"
      BY <1>0, <1>7 DEF Submit, CallOK
    <3>4. call[c].op = "sync" => call[c].parent \in Ids
      BY <1>0 DEF CallOK
    <3> QED BY <3>1, <3>2, <3>3, <3>4 DEF JobOf, Job
  <2>2. queue' \in Seq(Job)
    BY <1>7, <2>1 DEF Submit
  <2>3. call' \in [Callers -> Call] /\ CallsOK'
    BY <1>0, <1>a, <1>7 DEF Submit
  <2> QED BY <1>7, <2>2, <2>3 DEF Submit, FolderOK, MediaOK, Rows
<1> QED BY <1>1, <1>2, <1>3, <1>4, <1>5, <1>6, <1>7 DEF HandlerStep

LEMMA UserTyped ==
    ASSUME Typed, UserStep
    PROVE  Typed'
<1> USE BoundsAssumption DEF Typed, TypeOK, disk, tables, mishaps
<1>0. ASSUME NEW kind, Request(kind) PROVE requests' \in 0 .. MaxRequests
  BY <1>0 DEF Request
<1>1. ASSUME NEW S, DisableAITagging(S) PROVE Typed'
  BY <1>0, <1>1, SetAITyped DEF DisableAITagging, MediaOK, CallsOK
<1>2. ASSUME NEW S, DeleteRequest(S) PROVE Typed'
  BY <1>0, <1>2, DeleteTyped DEF DeleteRequest, CallsOK
<1>a. ASSUME NEW c \in Callers, NEW k, k \in Call, CallOK(k), call' = [call EXCEPT ![c] = k]
      PROVE  call' \in [Callers -> Call] /\ CallsOK'
  BY <1>a DEF CallsOK
<1>3. ASSUME NEW c \in Callers, NEW S, EnableAITagging(c, S) PROVE Typed'
  <2> DEFINE next == [IdleCall EXCEPT !.pc = "submit", !.op = "enable"]
  <2>1. next \in Call /\ CallOK(next)
    BY DEF IdleCall, Call, CallOK
  <2>2. call' = [call EXCEPT ![c] = next]
    BY <1>3 DEF EnableAITagging
  <2> HIDE DEF next
  <2>3. call' \in [Callers -> Call] /\ CallsOK'
    BY <1>a, <2>1, <2>2
  <2> QED BY <1>0, <1>3, <2>3, SetAITyped DEF EnableAITagging, MediaOK
<1>4. ASSUME NEW c \in Callers, NEW p \in Paths, AddFolder(c, p) PROVE Typed'
  <2> DEFINE next == [IdleCall EXCEPT !.pc = "parent", !.op = "add", !.path = p, !.todo = {p}]
  <2>1. next \in Call /\ CallOK(next)
    BY DEF IdleCall, Call, CallOK
  <2>2. call' = [call EXCEPT ![c] = next]
    BY <1>4 DEF AddFolder
  <2> HIDE DEF next
  <2>3. call' \in [Callers -> Call] /\ CallsOK'
    BY <1>a, <2>1, <2>2
  <2> QED BY <1>0, <1>4, <2>3 DEF AddFolder, FolderOK, MediaOK, Rows
<1>5. ASSUME NEW c \in Callers, NEW i \in Rows, SyncFolder(c, i) PROVE Typed'
  <2> DEFINE next == [IdleCall EXCEPT !.pc = "read", !.op = "sync",
                                      !.path = PathOf(i), !.parent = i]
  <2>0. i \in Ids /\ PathOf(i) \in Paths
    BY DEF FolderOK, Ids, PathOf
  <2>1. next \in Call /\ CallOK(next)
    BY <2>0 DEF IdleCall, Call, CallOK
  <2>2. call' = [call EXCEPT ![c] = next]
    BY <1>5 DEF SyncFolder
  <2> HIDE DEF next
  <2>3. call' \in [Callers -> Call] /\ CallsOK'
    BY <1>a, <2>1, <2>2
  <2> QED BY <1>0, <1>5, <2>3 DEF SyncFolder, FolderOK, MediaOK, Rows
<1> QED BY <1>1, <1>2, <1>3, <1>4, <1>5 DEF UserStep

LEMMA HeadIsJob == ASSUME queue \in Seq(Job), queue # <<>>
                   PROVE  Head(queue) \in Job /\ Tail(queue) \in Seq(Job)
OBVIOUS

LEMMA WorkerTyped ==
    ASSUME Typed, WorkerStep \/ IndexingFails \/ FlagRefused
    PROVE  Typed'
<1> USE DEF Typed, TypeOK, disk, tables, handlers, mishaps
<1>0. IdleWorker \in Worker
  BY DEF IdleWorker, Worker
<1>f. faults' \in 0 .. MaxFaults
  <2>1. faults \in 0 .. MaxFaults
    OBVIOUS
  <2>2. faults' = faults \/ (faults < MaxFaults /\ faults' = faults + 1)
    BY DEF WorkerStep, IndexingFails, FlagRefused, Fault, ReadUntagged, TagOne, TagDone
  <2> QED BY <2>1, <2>2, BoundsAssumption
<1>1. ASSUME NEW refused, StartAdd(refused) PROVE Typed'
  <2> DEFINE targets == {i \in Rows : PathOf(i) \in Prefixed[Head(queue).path]}
  <2>1. SetIndexing(targets \ refused, "in_progress")
    BY <1>1 DEF StartAdd
  <2>2. FolderOK'
    BY <2>1, SetIndexingTyped
  <2>3. Head(queue).path \in Paths \cup {NoPath} /\ Tail(queue) \in Seq(Job)
    BY <1>1, HeadIsJob DEF StartAdd, NextJobIs, Job
  <2>4. targets \in SUBSET Ids
    BY DEF FolderOK
  <2>5. worker' = [IdleWorker EXCEPT !.pc = "collect", !.kind = "add",
                                     !.path = Head(queue).path, !.targets = targets]
    BY <1>1 DEF StartAdd
  <2> HIDE DEF targets
  <2>6. worker' \in Worker
    BY <2>3, <2>4, <2>5 DEF IdleWorker, Worker
  <2> QED BY <1>f, <1>1, <2>2, <2>3, <2>6 DEF StartAdd, MediaOK, CallsOK
<1>2. ASSUME NEW refused, StartTagging(refused) PROVE Typed'
  <2> DEFINE job == Head(queue)
  <2>1. FolderOK'
    BY <1>2, SetTaggedTyped DEF StartTagging, FolderOK, Rows
  <2>2. job \in Job /\ Tail(queue) \in Seq(Job)
    BY <1>2, HeadIsJob DEF StartTagging, NextJobIs
  <2>3. worker' = [IdleWorker EXCEPT
                     !.pc = IF job.kind = "sync" THEN "collect" ELSE "untagged",
                     !.kind = job.kind, !.path = job.path, !.targets = job.targets]
    BY <1>2 DEF StartTagging
  <2> HIDE DEF job
  <2>4. worker' \in Worker
    BY <2>2, <2>3 DEF IdleWorker, Worker, Job
  <2> QED BY <1>f, <1>2, <2>1, <2>2, <2>4 DEF StartTagging, MediaOK, CallsOK
<1>m. ASSUME NEW S \in SUBSET Ids PROVE Missed(S) \subseteq Ids
  BY DEF Missed
<1>3. ASSUME NEW unread \in SUBSET worker.targets, Collect(unread) PROVE Typed'
  <2>1. worker' \in Worker /\ unread \in SUBSET Ids
    BY <1>3 DEF Collect, Worker
  <2> QED BY <1>f, <1>m, <1>3, <2>1 DEF Collect, FolderOK, MediaOK, Rows, CallsOK
<1>4. ASSUME NEW kept, NEW written, WriteMedia(kept, written),
             kept \subseteq DOMAIN media, written \subseteq Written
      PROVE  Typed'
  <2> DEFINE owner(p) == CHOOSE i \in worker.records : PathOf(i) = p
  <2>1. media' = [p \in kept \cup written |->
                    IF p \in written
                    THEN [folder |-> owner(p), tagged |-> p \in kept /\ media[p].tagged]
                    ELSE media[p]]
    BY <1>4 DEF WriteMedia
  <2>2. worker.records \subseteq Ids /\ worker.targets \in SUBSET Ids
    BY DEF Worker
  <2>3. written \subseteq Paths /\ \A p \in written : \E i \in worker.records : PathOf(i) = p
    BY <1>4, <2>2 DEF Ids, PathOf, Written
  <2>4. ASSUME NEW p \in written PROVE owner(p) \in Ids
    BY <2>2, <2>3, <2>4
  <2>5. ASSUME NEW p \in kept \cup written PROVE media'[p] \in MediaRow
    <3>1. CASE p \in written
      <4>1. media'[p] = [folder |-> owner(p), tagged |-> p \in kept /\ media[p].tagged]
        BY <2>1, <3>1
      <4>2. (p \in kept /\ media[p].tagged) \in BOOLEAN
        OBVIOUS
      <4>3. owner(p) \in Ids
        BY <2>4, <3>1
      <4> HIDE DEF owner
      <4> QED BY <4>1, <4>2, <4>3 DEF MediaRow
    <3>2. CASE p \notin written
      BY <1>4, <2>1, <2>5, <3>2 DEF MediaOK
    <3> QED BY <3>1, <3>2
  <2> HIDE DEF owner
  <2>6. MediaOK'
    <3>1. DOMAIN media' = kept \cup written /\ media' = [p \in DOMAIN media' |-> media'[p]]
      BY <2>1
    <3>2. DOMAIN media' \subseteq Paths
      BY <1>4, <2>3, <3>1 DEF MediaOK
    <3>3. \A p \in DOMAIN media' : media'[p] \in MediaRow
      BY <2>5, <3>1
    <3> QED BY <3>1, <3>2, <3>3 DEF MediaOK
  <2>7. worker' \in Worker
    BY <1>4 DEF WriteMedia, Worker
  <2>8. missed' \subseteq Ids
    BY <1>4, <1>m, <2>2 DEF WriteMedia
  <2> QED BY <1>f, <1>4, <2>6, <2>7, <2>8 DEF WriteMedia, FolderOK, Rows, CallsOK
<1>5. ASSUME NEW refused, CompleteAdd(refused) PROVE Typed'
  BY <1>f, <1>0, <1>5, SetIndexingTyped DEF CompleteAdd, MediaOK, CallsOK
<1>6. CASE ReadUntagged
  <2> DEFINE todo == {p \in DOMAIN media : /\ media[p].folder \in Rows
                                           /\ folder[media[p].folder].ai
                                           /\ ~media[p].tagged}
  <2>1. todo \in SUBSET Paths
    BY DEF MediaOK
  <2>2. worker' = [worker EXCEPT !.pc = "tag", !.todo = todo]
    BY <1>6 DEF ReadUntagged
  <2> HIDE DEF todo
  <2>3. worker' \in Worker
    BY <2>1, <2>2 DEF Worker
  <2> QED BY <1>6, <2>3 DEF ReadUntagged, FolderOK, MediaOK, Rows, CallsOK
<1>7. CASE TagOne
  <2> PICK p \in worker.todo :
         /\ worker' = [worker EXCEPT !.todo = @ \ {p}]
         /\ media' = [q \in DOMAIN media |-> IF q = p THEN [media[q] EXCEPT !.tagged = TRUE]
                                                      ELSE media[q]]
    BY <1>7 DEF TagOne
  <2>1. worker' \in Worker
    BY DEF Worker
  <2>2. MediaOK'
    BY DEF MediaOK, MediaRow
  <2> QED BY <1>7, <2>1, <2>2 DEF TagOne, FolderOK, Rows, CallsOK
<1>8. CASE TagDone
  <2>1. worker' \in Worker
    BY <1>8 DEF TagDone, Worker
  <2> QED BY <1>8, <2>1 DEF TagDone, FolderOK, MediaOK, Rows, CallsOK
<1>9. ASSUME NEW refused, FinishTagging(refused) PROVE Typed'
  <2>1. FolderOK'
    BY <1>9, SetTaggedTyped DEF FinishTagging, FolderOK, Rows
  <2>2. lost' \subseteq {"indexing", "tagging"}
    BY <1>9 DEF FinishTagging
  <2> QED BY <1>f, <1>0, <1>9, <2>1, <2>2 DEF FinishTagging, MediaOK, CallsOK
<1>k. Kept \subseteq DOMAIN media
  BY DEF Kept

<1> QED BY <1>k, <1>1, <1>2, <1>3, <1>4, <1>5, <1>6, <1>7, <1>8, <1>9
       DEF WorkerStep, IndexingFails, FlagRefused

LEMMA FlagsClearedTyped ==
    ASSUME FolderOK, folder' = FlagsCleared
    PROVE  FolderOK' /\ Rows' = Rows
BY DEF FolderOK, FlagsCleared, Rows, Row

LEMMA FaultsTyped ==
    ASSUME Typed, AddRaises \/ TaggingRaises \/ WorkerDies \/ Restart
    PROVE  Typed'
<1> USE BoundsAssumption DEF Typed, TypeOK, disk, tables, handlers
<1>0. IdleWorker \in Worker /\ <<>> \in Seq(Job)
  BY DEF IdleWorker, Worker
<1>1. ASSUME NEW kind, Fault(kind) PROVE faults' \in 0 .. MaxFaults
  BY <1>1 DEF Fault
<1>2. CASE AddRaises
  <2>1. CASE NextJobIs({"add"}) /\ queue' = Tail(queue) /\ UNCHANGED <<folder, worker, lost>>
    <3>1. queue' \in Seq(Job)
      BY <2>1, HeadIsJob DEF NextJobIs
    <3> QED BY <1>1, <1>2, <2>1, <3>1 DEF AddRaises, FolderOK, MediaOK, Rows, CallsOK
  <2>2. CASE ~(NextJobIs({"add"}) /\ queue' = Tail(queue) /\ UNCHANGED <<folder, worker, lost>>)
    <3>1. PICK refused \in SUBSET worker.targets :
             /\ Interrupt(refused) /\ worker' = IdleWorker /\ UNCHANGED queue
             /\ lost' = IF refused = {} THEN lost ELSE lost \cup {"indexing"}
      BY <1>2, <2>2 DEF AddRaises
    <3>2. FolderOK'
      BY <3>1, SetIndexingTyped DEF Interrupt
    <3> QED BY <1>0, <1>1, <1>2, <3>1, <3>2 DEF AddRaises, MediaOK, CallsOK
  <2> QED BY <2>1, <2>2
<1>3. CASE TaggingRaises
  <2>1. worker' \in Worker /\ queue' \in Seq(Job)
    <3>1. CASE worker' = [worker EXCEPT !.pc = "flagup", !.todo = {}] /\ UNCHANGED queue
      BY <3>1 DEF Worker
    <3>2. CASE /\ NextJobIs({"tag", "sync"}) /\ queue' = Tail(queue)
               /\ worker' = [IdleWorker EXCEPT !.pc = "flagup", !.kind = Head(queue).kind]
      BY <3>2, HeadIsJob DEF NextJobIs, Job, Worker, IdleWorker
    <3> QED BY <1>3, <3>1, <3>2 DEF TaggingRaises
  <2> QED BY <1>1, <1>3, <2>1 DEF TaggingRaises, FolderOK, MediaOK, Rows, CallsOK
<1>4. CASE WorkerDies
  BY <1>0, <1>1, <1>4 DEF WorkerDies, FolderOK, MediaOK, Rows, CallsOK
<1>5. CASE Restart
  <2>1. IdleCall \in Call /\ CallOK(IdleCall)
    BY DEF IdleCall, Call, CallOK
  <2>2. call' \in [Callers -> Call] /\ CallsOK'
    BY <1>5, <2>1 DEF Restart, CallsOK
  <2>3. FolderOK' /\ lost' \subseteq {"indexing", "tagging"}
    BY <1>5, FlagsClearedTyped DEF Restart, FolderOK, Rows
  <2> QED BY <1>0, <1>1, <1>5, <2>2, <2>3 DEF Restart, MediaOK
<1> QED BY <1>2, <1>3, <1>4, <1>5

LEMMA DiskTyped ==
    ASSUME Typed, NEW p \in Paths, Appear(p) \/ Disappear(p)
    PROVE  Typed'
BY DEF Typed, TypeOK, Appear, Disappear, tables, handlers, mishaps, FolderOK, MediaOK, Rows, CallsOK

LEMMA StutterTyped ==
    ASSUME Typed, UNCHANGED vars
    PROVE  Typed'
BY DEF Typed, TypeOK, vars, FolderOK, MediaOK, Rows, CallsOK

(* Every reachable state of folders, media, handlers and worker is well    *)
(* typed, and folder_map only ever holds the tree that was walked.         *)
THEOREM Typing == Spec => []TypeOK
<1>1. Typed /\ [Next]_vars => Typed'
  BY HandlersTyped, UserTyped, WorkerTyped, FaultsTyped, DiskTyped, StutterTyped DEF Next
<1>2. Typed => TypeOK
  BY DEF Typed
<1> QED BY InitTyped, <1>1, <1>2, PTL DEF Spec

---------------------------------------------------------------------------
(* Where the worker is tells what it works on.  Without this a sequence    *)
(* might begin while another has folders marked, or end with the wrong     *)
(* flag.                                                                   *)
WorkerShape ==
    /\ worker.pc = "idle" <=> worker.kind = "none"
    /\ worker.pc = "complete" => worker.kind = "add"
    /\ worker.pc \in {"untagged", "tag", "flagup"} => worker.kind \in {"tag", "sync"}

IInv == Typed /\ WorkerShape /\ BusyIsOwned

LEMMA InitOwned == Init => WorkerShape /\ BusyIsOwned
<1> SUFFICES ASSUME Init PROVE WorkerShape /\ BusyIsOwned
  OBVIOUS
<1>1. worker.pc = "idle" /\ worker.kind = "none"
  BY DEF Init, IdleWorker
<1>2. \A i \in Rows : ~folder[i].ai /\ folder[i].indexing = "completed"
  BY DEF Init, Rows, NewRow
<1> QED BY <1>1, <1>2 DEF WorkerShape, BusyIsOwned

(* A step that makes no folder busy, leaves the worker alone and takes no  *)
(* sequence away preserves the invariant.                                  *)
LEMMA QuietStep ==
    ASSUME IInv, UNCHANGED <<worker, alive, lost>>, alive /\ TaggingIsDue => TaggingIsDue',
           \A i \in Rows' :
               \/ i \in Rows /\ folder'[i].indexing = folder[i].indexing
                             /\ folder'[i].ai = folder[i].ai
                             /\ folder'[i].tagged = folder[i].tagged
               \/ folder'[i].indexing = "not_started" /\ ~folder'[i].ai
    PROVE  WorkerShape' /\ BusyIsOwned'
BY DEF IInv, WorkerShape, BusyIsOwned

LEMMA DueStays ==
    ASSUME UNCHANGED <<queue, worker>>, TaggingIsDue,
           \A c \in Callers : call[c].pc = "submit" => call'[c] = call[c]
    PROVE  TaggingIsDue'
BY DEF TaggingIsDue

LEMMA AppendSeq ==
    ASSUME NEW s \in Seq(Job), NEW e \in Job
    PROVE  /\ Append(s, e) \in Seq(Job)
           /\ Len(Append(s, e)) = Len(s) + 1
           /\ Append(s, e)[Len(s) + 1] = e
           /\ \A n \in 1 .. Len(s) : Append(s, e)[n] = s[n]
OBVIOUS

LEMMA HandlersOwned ==
    ASSUME IInv, NEW c \in Callers, HandlerStep(c)
    PROVE  WorkerShape' /\ BusyIsOwned'
<1> USE DEF IInv, Typed, TypeOK, disk, tables, mishaps
<1>0. \A d \in Callers : call[d] \in Call
  OBVIOUS
<1>a. ASSUME NEW k, call' = [call EXCEPT ![c] = k], call[c].pc # "submit",
             UNCHANGED <<queue, worker>>
      PROVE  TaggingIsDue => TaggingIsDue'
  BY <1>a, DueStays
<1>1. CASE FindParent(c)
  <2> PICK i \in RowsAt(Parent[call[c].path]) \cup {NoId} :
         call' = [call EXCEPT ![c] = [call[c] EXCEPT !.pc = "insert", !.parent = i]]
    BY <1>1 DEF FindParent
  <2>1. TaggingIsDue => TaggingIsDue'
    BY <1>1, <1>a DEF FindParent
  <2> QED BY <1>1, <2>1, QuietStep DEF FindParent, Rows
<1>2. CASE CompareWithDisk(c)
  <2>1. TaggingIsDue => TaggingIsDue'
    BY <1>2, <1>a DEF CompareWithDisk
  <2> QED BY <1>2, <2>1, QuietStep DEF CompareWithDisk, Rows
<1>3. CASE DeleteObsolete(c)
  <2>1. TaggingIsDue => TaggingIsDue'
    BY <1>3, <1>a DEF DeleteObsolete
  <2> QED BY <1>3, <2>1, DeleteTyped, QuietStep DEF DeleteObsolete
<1>4. ASSUME NEW r \in Paths, InsertTree(c, r) PROVE WorkerShape' /\ BusyIsOwned'
  <2>1. TaggingIsDue => TaggingIsDue'
    BY <1>4, <1>a DEF InsertTree
  <2>2. \A i \in Rows' : \/ i \in Rows /\ folder'[i] = folder[i]
                         \/ folder'[i] = NewRow
    BY <1>4 DEF InsertTree, Rows
  <2>3. NewRow.indexing = "not_started" /\ ~NewRow.ai
    BY DEF NewRow
  <2> QED BY <1>4, <2>1, <2>2, <2>3, QuietStep DEF InsertTree
<1>5. ASSUME NEW r \in Paths, SkipTree(c, r) PROVE WorkerShape' /\ BusyIsOwned'
  <2>1. TaggingIsDue => TaggingIsDue'
    BY <1>5, <1>a DEF SkipTree
  <2> QED BY <1>5, <2>1, QuietStep DEF SkipTree, Rows
<1>6. CASE LinkTree(c)
  <2>1. TaggingIsDue => TaggingIsDue'
    BY <1>6, <1>a DEF LinkTree
  <2>2. ASSUME NEW i \in Rows'
        PROVE  /\ i \in Rows
               /\ folder'[i].indexing = folder[i].indexing
               /\ folder'[i].ai = folder[i].ai
               /\ folder'[i].tagged = folder[i].tagged
    <3>1. i \in Rows /\ folder[i] \in Row
      BY <1>6, <2>2 DEF LinkTree, Rows, FolderOK
    <3>2. folder'[i] = IF PathOf(i) \in call[c].tree /\ folder[i].parent = NoId
                       THEN [folder[i] EXCEPT !.parent = MappedParent(c, PathOf(i))]
                       ELSE folder[i]
      BY <1>6, <3>1 DEF LinkTree
    <3> QED BY <3>1, <3>2 DEF Row
  <2> QED BY <1>6, <2>1, <2>2, QuietStep DEF LinkTree
<1>7. CASE Submit(c)
  <2>1. JobOf(c).kind = "tag" \/ call[c].op # "enable"
    BY DEF JobOf
  <2>2. Typed'
    BY <1>7, HandlersTyped DEF HandlerStep
  <2>4. alive /\ TaggingIsDue => TaggingIsDue'
    <3> SUFFICES ASSUME alive, TaggingIsDue PROVE TaggingIsDue'
      OBVIOUS
    <3>0. /\ Len(queue') = Len(queue) + 1 /\ Len(queue) \in Nat
          /\ queue'[Len(queue) + 1] = JobOf(c)
          /\ \A n \in 1 .. Len(queue) : queue'[n] = queue[n]
      BY <1>7 DEF Submit
    <3>1. CASE \E n \in 1 .. Len(queue) : queue[n].kind \in {"tag", "sync"}
      BY <3>0, <3>1 DEF TaggingIsDue
    <3>2. CASE worker.kind \in {"tag", "sync"}
      BY <1>7, <3>2 DEF TaggingIsDue, Submit
    <3>3. ASSUME NEW d \in Callers, call[d].pc = "submit", call[d].op = "enable"
          PROVE  TaggingIsDue'
      <4>1. CASE d = c
        <5>1. queue'[Len(queue) + 1].kind \in {"tag", "sync"}
          BY <2>1, <3>0, <3>3, <4>1
        <5>2. Len(queue) + 1 \in 1 .. Len(queue')
          BY <3>0
        <5> QED BY <5>1, <5>2 DEF TaggingIsDue
      <4>2. CASE d # c
        <5>1. call'[d] = call[d]
          BY <1>7, <4>2 DEF Submit
        <5> QED BY <3>3, <5>1 DEF TaggingIsDue
      <4> QED BY <4>1, <4>2
    <3> QED BY <3>1, <3>2, <3>3 DEF TaggingIsDue
  <2> QED BY <1>7, <2>4, QuietStep DEF Submit, Rows
<1> QED BY <1>1, <1>2, <1>3, <1>4, <1>5, <1>6, <1>7 DEF HandlerStep

LEMMA UserOwned ==
    ASSUME IInv, UserStep
    PROVE  WorkerShape' /\ BusyIsOwned'
<1> USE DEF IInv, Typed, TypeOK, disk, tables, mishaps
<1>1. ASSUME NEW S, DisableAITagging(S) PROVE WorkerShape' /\ BusyIsOwned'
  <2>1. \A i \in Rows : /\ folder'[i].indexing = folder[i].indexing
                        /\ folder'[i].tagged = folder[i].tagged
                        /\ folder'[i].ai => folder[i].ai
    BY <1>1 DEF DisableAITagging, SetAI, FolderOK, Row
  <2>2. Rows' = Rows
    BY <1>1, SetAITyped DEF DisableAITagging
  <2>3. TaggingIsDue => TaggingIsDue'
    BY <1>1, DueStays DEF DisableAITagging
  <2> QED BY <1>1, <2>1, <2>2, <2>3 DEF DisableAITagging, WorkerShape, BusyIsOwned
<1>2. ASSUME NEW S, DeleteRequest(S) PROVE WorkerShape' /\ BusyIsOwned'
  <2>1. TaggingIsDue => TaggingIsDue'
    BY <1>2, DueStays DEF DeleteRequest
  <2> QED BY <1>2, <2>1, DeleteTyped, QuietStep DEF DeleteRequest
<1>3. ASSUME NEW c \in Callers, NEW S, EnableAITagging(c, S)
      PROVE  WorkerShape' /\ BusyIsOwned'
  <2>1. \A i \in Rows : folder'[i].indexing = folder[i].indexing
    BY <1>3 DEF EnableAITagging, SetAI, FolderOK, Row
  <2>2. Rows' = Rows
    BY <1>3, SetAITyped DEF EnableAITagging
  <2>3. call'[c].pc = "submit" /\ call'[c].op = "enable"
    BY <1>3 DEF EnableAITagging, IdleCall
  <2>4. TaggingIsDue'
    BY <2>3 DEF TaggingIsDue
  <2> QED BY <1>3, <2>1, <2>2, <2>4 DEF EnableAITagging, WorkerShape, BusyIsOwned
<1>4. ASSUME NEW c \in Callers, NEW p \in Paths, AddFolder(c, p)
      PROVE  WorkerShape' /\ BusyIsOwned'
  <2>1. TaggingIsDue => TaggingIsDue'
    BY <1>4, DueStays DEF AddFolder
  <2> QED BY <1>4, <2>1, QuietStep DEF AddFolder, Rows
<1>5. ASSUME NEW c \in Callers, NEW i \in Rows, SyncFolder(c, i)
      PROVE  WorkerShape' /\ BusyIsOwned'
  <2>1. TaggingIsDue => TaggingIsDue'
    BY <1>5, DueStays DEF SyncFolder
  <2> QED BY <1>5, <2>1, QuietStep DEF SyncFolder, Rows
<1> QED BY <1>1, <1>2, <1>3, <1>4, <1>5 DEF UserStep

(* A job that tags nothing can be taken from the queue. *)
LEMMA AddTaken ==
    ASSUME queue \in Seq(Job), NextJobIs({"add"}), WorkerShape,
           queue' = Tail(queue), call' = call, TaggingIsDue
    PROVE  TaggingIsDue'
<1>1. worker.kind = "none" /\ queue # <<>> /\ queue[1].kind = "add"
  BY DEF NextJobIs, WorkerShape
<1>2. /\ Len(queue') = Len(queue) - 1 /\ Len(queue) \in Nat
      /\ \A n \in 1 .. Len(queue) - 1 : queue'[n] = queue[n + 1]
  BY <1>1
<1>3. CASE \E n \in 1 .. Len(queue) : queue[n].kind \in {"tag", "sync"}
  <2> PICK n \in 1 .. Len(queue) : queue[n].kind \in {"tag", "sync"}
    BY <1>3
  <2>1. n # 1
    BY <1>1
  <2>2. n - 1 \in 1 .. Len(queue') /\ queue'[n - 1] = queue[n]
    BY <1>2, <2>1
  <2> QED BY <2>2 DEF TaggingIsDue
<1>4. CASE \E c \in Callers : call[c].pc = "submit" /\ call[c].op = "enable"
  BY <1>4 DEF TaggingIsDue
<1> QED BY <1>1, <1>3, <1>4 DEF TaggingIsDue

LEMMA WorkerOwned ==
    ASSUME IInv, WorkerStep \/ IndexingFails \/ FlagRefused
    PROVE  WorkerShape' /\ BusyIsOwned'
<1> USE DEF IInv, Typed, TypeOK, disk, tables, handlers, mishaps
<1>0. worker \in Worker
  OBVIOUS
<1>a. ASSUME UNCHANGED <<folder, call, queue, alive, lost>>,
             worker'.kind = worker.kind, worker'.targets = worker.targets
      PROVE  BusyIsOwned'
  BY <1>a DEF BusyIsOwned, TaggingIsDue, Rows
<1>1. ASSUME NEW refused, StartAdd(refused) PROVE WorkerShape' /\ BusyIsOwned'
  <2> DEFINE targets == {i \in Rows : PathOf(i) \in Prefixed[Head(queue).path]}
  <2>1. /\ worker'.pc = "collect" /\ worker'.kind = "add"
        /\ worker'.targets = targets
    BY <1>1 DEF StartAdd, IdleWorker
  <2>2. SetIndexing(targets \ refused, "in_progress")
    BY <1>1 DEF StartAdd
  <2> HIDE DEF targets
  <2>3. Rows' = Rows
    BY <2>2, SetIndexingTyped
  <2>4. \A i \in Rows : /\ folder'[i].ai = folder[i].ai
                        /\ folder'[i].tagged = folder[i].tagged
                        /\ i \notin targets => folder'[i].indexing = folder[i].indexing
    BY <2>2 DEF SetIndexing, FolderOK, Row
  <2>5. alive => \A i \in Rows : folder[i].indexing = "in_progress" => "indexing" \in lost
    BY <1>1 DEF StartAdd, NextJobIs, WorkerShape, BusyIsOwned
  <2>6. TaggingIsDue => TaggingIsDue'
    BY <1>1, AddTaken DEF StartAdd
  <2>7. UNCHANGED <<alive, lost>>
    BY <1>1 DEF StartAdd
  <2> QED BY <2>1, <2>3, <2>4, <2>5, <2>6, <2>7 DEF WorkerShape, BusyIsOwned
<1>2. ASSUME NEW refused, StartTagging(refused) PROVE WorkerShape' /\ BusyIsOwned'
  <2>1. /\ worker'.kind \in {"tag", "sync"}
        /\ worker'.pc \in {"collect", "untagged"}
    <3>1. Head(queue).kind \in {"tag", "sync"}
      BY <1>2 DEF StartTagging, NextJobIs
    <3> QED BY <1>2, <3>1 DEF StartTagging, IdleWorker
  <2>2. Rows' = Rows
    BY <1>2, SetTaggedTyped DEF StartTagging, Rows
  <2>3. \A i \in Rows : folder'[i].indexing = folder[i].indexing
    BY <1>2 DEF StartTagging, SetTagged, FolderOK, Row
  <2>4. alive => \A i \in Rows : folder[i].indexing = "in_progress" => "indexing" \in lost
    BY <1>2 DEF StartTagging, NextJobIs, WorkerShape, BusyIsOwned
  <2>5. TaggingIsDue'
    BY <2>1 DEF TaggingIsDue
  <2>6. UNCHANGED <<alive, lost>>
    BY <1>2 DEF StartTagging
  <2> QED BY <2>1, <2>2, <2>3, <2>4, <2>5, <2>6 DEF WorkerShape, BusyIsOwned
<1>3. ASSUME NEW unread, Collect(unread) PROVE WorkerShape' /\ BusyIsOwned'
  <2>1. /\ worker'.kind = worker.kind /\ worker'.targets = worker.targets
        /\ worker'.pc = "write" /\ worker.pc = "collect"
    BY <1>0, <1>3 DEF Collect, Worker
  <2> QED BY <1>3, <1>a, <2>1 DEF Collect, WorkerShape
<1>4. ASSUME NEW kept, NEW written, WriteMedia(kept, written)
      PROVE  WorkerShape' /\ BusyIsOwned'
  <2>1. /\ worker'.kind = worker.kind /\ worker'.targets = worker.targets
        /\ worker'.pc = IF worker.kind = "add" THEN "complete" ELSE "untagged"
        /\ worker.pc = "write" /\ worker.kind \in {"none", "add", "tag", "sync"}
    BY <1>0, <1>4 DEF WriteMedia, Worker
  <2> QED BY <1>4, <1>a, <2>1 DEF WriteMedia, WorkerShape
<1>5. ASSUME NEW refused, CompleteAdd(refused) PROVE WorkerShape' /\ BusyIsOwned'
  <2>1. worker.kind = "add"
    BY <1>5 DEF CompleteAdd, WorkerShape
  <2>2. Rows' = Rows
    BY <1>5, SetIndexingTyped DEF CompleteAdd
  <2>3. \A i \in Rows : /\ folder'[i].ai = folder[i].ai
                        /\ folder'[i].tagged = folder[i].tagged
                        /\ i \notin worker.targets => folder'[i].indexing = folder[i].indexing
                        /\ i \in worker.targets \ refused => folder'[i].indexing = "completed"
    BY <1>5 DEF CompleteAdd, SetIndexing, FolderOK, Row
  <2>4. TaggingIsDue => TaggingIsDue'
    BY <1>5, <2>1 DEF CompleteAdd, TaggingIsDue
  <2>5. alive => \A i \in Rows' : folder'[i].indexing = "in_progress" => "indexing" \in lost'
    BY <1>5, <2>2, <2>3 DEF BusyIsOwned, CompleteAdd
  <2>7. alive' = alive /\ lost \subseteq lost'
    BY <1>5 DEF CompleteAdd
  <2>6. worker'.pc = "idle" /\ worker'.kind = "none"
    BY <1>5 DEF CompleteAdd, IdleWorker
  <2> QED BY <2>2, <2>3, <2>4, <2>5, <2>6, <2>7 DEF WorkerShape, BusyIsOwned
<1>6. CASE ReadUntagged
  <2>1. /\ worker'.kind = worker.kind /\ worker'.targets = worker.targets
        /\ worker'.pc = "tag" /\ worker.pc = "untagged"
    BY <1>0, <1>6 DEF ReadUntagged, Worker
  <2> QED BY <1>6, <1>a, <2>1 DEF ReadUntagged, WorkerShape
<1>7. CASE TagOne
  <2>1. /\ worker'.kind = worker.kind /\ worker'.targets = worker.targets
        /\ worker'.pc = worker.pc
    BY <1>0, <1>7 DEF TagOne, Worker
  <2> QED BY <1>7, <1>a, <2>1 DEF TagOne, WorkerShape
<1>8. CASE TagDone
  <2>1. /\ worker'.kind = worker.kind /\ worker'.targets = worker.targets
        /\ worker'.pc = "flagup" /\ worker.pc = "tag"
    BY <1>0, <1>8 DEF TagDone, Worker
  <2> QED BY <1>8, <1>a, <2>1 DEF TagDone, WorkerShape
<1>9. ASSUME NEW refused, FinishTagging(refused) PROVE WorkerShape' /\ BusyIsOwned'
  <2>1. worker.kind # "add"
    BY <1>9 DEF FinishTagging, WorkerShape
  <2>2. Rows' = Rows
    BY <1>9, SetTaggedTyped DEF FinishTagging, Rows
  <2>3. \A i \in Rows : /\ folder'[i].indexing = folder[i].indexing
                        /\ folder'[i].ai => folder'[i].tagged \/ "tagging" \in lost'
    BY <1>9 DEF FinishTagging, SetTagged, FolderOK, Row
  <2>4. worker'.pc = "idle" /\ worker'.kind = "none"
    BY <1>9 DEF FinishTagging, IdleWorker
  <2>5. alive' = alive /\ ("indexing" \in lost => "indexing" \in lost')
    BY <1>9 DEF FinishTagging
  <2> QED BY <2>1, <2>2, <2>3, <2>4, <2>5 DEF WorkerShape, BusyIsOwned
<1> QED BY <1>1, <1>2, <1>3, <1>4, <1>5, <1>6, <1>7, <1>8, <1>9
       DEF WorkerStep, IndexingFails, FlagRefused

LEMMA FaultsOwned ==
    ASSUME IInv, AddRaises \/ TaggingRaises \/ WorkerDies \/ Restart
    PROVE  WorkerShape' /\ BusyIsOwned'
<1> USE DEF IInv, Typed, TypeOK, disk, tables, handlers
<1>1. CASE AddRaises
  <2>0. UNCHANGED <<call, alive>>
    BY <1>1 DEF AddRaises
  <2>1. CASE NextJobIs({"add"}) /\ queue' = Tail(queue) /\ UNCHANGED <<folder, worker, lost>>
    <3>1. TaggingIsDue => TaggingIsDue'
      BY <2>0, <2>1, AddTaken
    <3> QED BY <2>0, <2>1, <3>1 DEF WorkerShape, BusyIsOwned, Rows
  <2>2. CASE ~(NextJobIs({"add"}) /\ queue' = Tail(queue) /\ UNCHANGED <<folder, worker, lost>>)
    <3>1. PICK refused \in SUBSET worker.targets :
             /\ worker.kind = "add"
             /\ Interrupt(refused) /\ worker' = IdleWorker /\ UNCHANGED queue
             /\ lost' = IF refused = {} THEN lost ELSE lost \cup {"indexing"}
      BY <1>1, <2>2 DEF AddRaises
    <3>2. Rows' = Rows
      BY <3>1, SetIndexingTyped DEF Interrupt
    <3>3. \A i \in Rows : /\ folder'[i].ai = folder[i].ai
                          /\ folder'[i].tagged = folder[i].tagged
                          /\ i \notin worker.targets => folder'[i].indexing = folder[i].indexing
                          /\ i \in worker.targets \ refused => folder'[i].indexing = "interrupted"
      BY <3>1 DEF Interrupt, SetIndexing, FolderOK, Row
    <3>4. TaggingIsDue => TaggingIsDue'
      BY <2>0, <3>1 DEF TaggingIsDue
    <3>5. alive => \A i \in Rows' : folder'[i].indexing = "in_progress" => "indexing" \in lost'
      BY <3>1, <3>2, <3>3 DEF BusyIsOwned
    <3>6. worker'.pc = "idle" /\ worker'.kind = "none"
      BY <3>1 DEF IdleWorker
    <3>7. lost \subseteq lost'
      BY <3>1
    <3> QED BY <2>0, <3>2, <3>3, <3>4, <3>5, <3>6, <3>7 DEF WorkerShape, BusyIsOwned
  <2> QED BY <2>1, <2>2
<1>2. CASE TaggingRaises
  <2>1. /\ worker'.kind \in {"tag", "sync"} /\ worker'.pc = "flagup"
        /\ worker.kind # "add"
    <3>1. CASE worker.pc \in {"untagged", "tag"} /\ worker' = [worker EXCEPT !.pc = "flagup", !.todo = {}]
      BY <3>1 DEF WorkerShape, Worker
    <3>2. CASE /\ NextJobIs({"tag", "sync"})
               /\ worker' = [IdleWorker EXCEPT !.pc = "flagup", !.kind = Head(queue).kind]
      BY <3>2 DEF NextJobIs, WorkerShape, IdleWorker
    <3> QED BY <1>2, <3>1, <3>2 DEF TaggingRaises
  <2>2. TaggingIsDue'
    BY <2>1 DEF TaggingIsDue
  <2>3. Rows' = Rows /\ folder' = folder /\ UNCHANGED <<alive, lost>>
    BY <1>2 DEF TaggingRaises, Rows
  <2> QED BY <2>1, <2>2, <2>3 DEF WorkerShape, BusyIsOwned
<1>3. CASE WorkerDies
  BY <1>3 DEF WorkerDies, IdleWorker, WorkerShape, BusyIsOwned
<1>4. CASE Restart
  <2>1. worker'.pc = "idle" /\ worker'.kind = "none"
    BY <1>4 DEF Restart, IdleWorker
  <2>2. CASE folder' = FlagsCleared
    <3>1. Rows' = Rows
      BY <2>2, FlagsClearedTyped
    <3>2. \A i \in Rows : /\ folder'[i].indexing # "in_progress"
                          /\ folder'[i].ai => folder'[i].tagged
      BY <2>2 DEF FlagsCleared, FolderOK, Row
    <3> QED BY <2>1, <3>1, <3>2 DEF WorkerShape, BusyIsOwned
  <2>3. CASE lost' = {"indexing", "tagging"}
    BY <2>1, <2>3 DEF WorkerShape, BusyIsOwned
  <2> QED BY <1>4, <2>2, <2>3 DEF Restart
<1> QED BY <1>1, <1>2, <1>3, <1>4

LEMMA DiskOwned ==
    ASSUME IInv, NEW p \in Paths, Appear(p) \/ Disappear(p)
    PROVE  WorkerShape' /\ BusyIsOwned'
BY DEF IInv, Appear, Disappear, tables, handlers, mishaps, WorkerShape, BusyIsOwned, TaggingIsDue, Rows

LEMMA StutterOwned ==
    ASSUME IInv, UNCHANGED vars
    PROVE  WorkerShape' /\ BusyIsOwned'
BY DEF IInv, vars, WorkerShape, BusyIsOwned, TaggingIsDue, Rows

(* As long as the executor works and the database takes the writes that    *)
(* end the flags, no folder is left busy with nobody to finish it, however *)
(* requests interleave and however often a sequence raises, the indexing   *)
(* fails, the worker process has died before or the application is started *)
(* again: neither the finally clauses, nor the 'interrupted' handler, nor  *)
(* db_clear_stale_processing_flags misses a case.                          *)
THEOREM NobodyLeftBusy == Spec => []BusyIsOwned
<1>1. Init => IInv
  BY InitTyped, InitOwned DEF IInv
<1>2. IInv /\ [Next]_vars => IInv'
  <2>1. IInv /\ [Next]_vars => Typed'
    BY HandlersTyped, UserTyped, WorkerTyped, FaultsTyped, DiskTyped, StutterTyped DEF Next, IInv
  <2>2. IInv /\ [Next]_vars => WorkerShape' /\ BusyIsOwned'
    BY HandlersOwned, UserOwned, WorkerOwned, FaultsOwned, DiskOwned, StutterOwned DEF Next
  <2> QED BY <2>1, <2>2 DEF IInv
<1>3. IInv => BusyIsOwned
  BY DEF IInv
<1> QED BY <1>1, <1>2, <1>3, PTL DEF Spec

---------------------------------------------------------------------------
(* CompletedMeansIndexed.  What an add has marked may be deleted before it *)
(* is read, written or completed, and the row that comes in its place has  *)
(* another id: an id is never drawn twice.                                 *)

StaysOnDisk == \A p \in Paths : Stays(p) => p \in dirs

OneRowPerPath == \A i, j \in Rows : PathOf(i) = PathOf(j) => i = j

IdsDrawn == \A i \in Rows : i[1] <= walks

(* A target that has stayed, and whose files the add has not missed. *)
Sound(i) == i \in worker.targets /\ i \in Rows /\ Stays(PathOf(i)) /\ i \notin missed

(* What the add sequence has marked and not missed, it has read and, at    *)
(* the end, written.                                                       *)
AddIsExact ==
    worker.kind = "add" =>
        /\ \A i \in worker.targets : i[1] <= walks
        /\ worker.pc = "write" => \A i \in Rows : Sound(i) => i \in worker.records
        /\ worker.pc = "complete" => \A i \in Rows : Sound(i) => Indexed(i)

IndexFacts == StaysOnDisk /\ OneRowPerPath /\ IdsDrawn /\ CompletedMeansIndexed /\ AddIsExact

IndexInv == IInv /\ IndexFacts

LEMMA IdsAreNumbered == ASSUME IInv, NEW i, i \in Rows \/ i \in worker.targets
                        PROVE  i[1] \in Nat /\ PathOf(i) \in Paths /\ i = <<i[1], PathOf(i)>>
BY DEF IInv, Typed, TypeOK, FolderOK, Worker, Ids, PathOf

LEMMA InitIndexed == Init => IndexFacts
<1> SUFFICES ASSUME Init PROVE IndexFacts
  OBVIOUS
<1>1. Rows = {0} \X Library
  BY DEF Init, Rows
<1>2. ASSUME NEW i \in Rows PROVE Indexed(i) /\ i[1] = 0
  <2>1. i = <<0, PathOf(i)>> /\ PathOf(i) \in Library
    BY <1>1 DEF PathOf
  <2>2. DOMAIN media = Library /\ media[PathOf(i)].folder = <<0, PathOf(i)>>
    BY <2>1 DEF Init
  <2> QED BY <2>1, <2>2 DEF Indexed
<1>3. OneRowPerPath
  BY <1>1 DEF OneRowPerPath, PathOf
<1>4. worker.kind = "none" /\ walks = 0 /\ dirs = Paths
  BY DEF Init, IdleWorker
<1> QED BY <1>2, <1>3, <1>4
       DEF IndexFacts, StaysOnDisk, IdsDrawn, CompletedMeansIndexed, AddIsExact

(* A step that completes no folder, adds none and takes no indexed one its *)
(* files preserves what is said of the tables ...                          *)
LEMMA TablesKept ==
    ASSUME IndexInv, UNCHANGED <<dirs, walks>>, Rows' \subseteq Rows, missed \subseteq missed',
           \A i \in Rows' : /\ folder'[i].indexing = "completed" =>
                                  folder[i].indexing = "completed" \/ i \in missed \/ Indexed(i)
                                    \/ ~Stays(PathOf(i))
                            /\ Stays(PathOf(i)) /\ Indexed(i) => Indexed(i)'
    PROVE  StaysOnDisk' /\ OneRowPerPath' /\ IdsDrawn' /\ CompletedMeansIndexed'
BY DEF IndexInv, IndexFacts, StaysOnDisk, OneRowPerPath, IdsDrawn, CompletedMeansIndexed

(* ... and, where the worker stays where it is, of the add sequence. *)
LEMMA AddKept ==
    ASSUME IndexInv, UNCHANGED <<worker, walks>>, Rows' \subseteq Rows, missed \subseteq missed',
           \A i \in Rows' : Indexed(i) => Indexed(i)'
    PROVE  AddIsExact'
BY DEF IndexInv, IndexFacts, AddIsExact, Sound

LEMMA SameLibrary ==
    ASSUME IndexInv, UNCHANGED <<dirs, walks, worker, missed, media>>, Rows' \subseteq Rows,
           \A i \in Rows' : folder'[i].indexing = "completed" => folder[i].indexing = "completed"
    PROVE  IndexFacts'
<1>1. \A i \in Rows' : Indexed(i) => Indexed(i)'
  BY DEF Indexed
<1> QED BY <1>1, TablesKept, AddKept DEF IndexFacts

(* Deleting folders takes no file of another folder along. *)
LEMMA DeletedIndexed ==
    ASSUME IndexInv, NEW S, DeleteFolders(S), UNCHANGED <<dirs, walks, worker, missed>>
    PROVE  IndexFacts'
<1> DEFINE gone == Cascade(S \cap Rows)
<1> HIDE DEF gone
<1>1. folder' = [i \in Rows \ gone |-> folder[i]]
  BY DEF DeleteFolders, gone
<1>2. media' = [p \in {q \in DOMAIN media : media[q].folder \notin gone} |-> media[p]]
  BY DEF DeleteFolders, gone
<1>3. Rows' = Rows \ gone /\ \A i \in Rows' : folder'[i] = folder[i]
  BY <1>1 DEF Rows
<1>4. \A i \in Rows' : Indexed(i) => Indexed(i)'
  BY <1>2, <1>3 DEF Indexed
<1> QED BY <1>3, <1>4, TablesKept, AddKept DEF IndexFacts

LEMMA HandlersIndexed ==
    ASSUME IndexInv, NEW c \in Callers, HandlerStep(c)
    PROVE  IndexFacts'
<1> USE DEF disk, tables, mishaps
<1>1. CASE FindParent(c)
  BY <1>1, SameLibrary DEF FindParent, Rows
<1>2. CASE CompareWithDisk(c)
  BY <1>2, SameLibrary DEF CompareWithDisk, Rows
<1>3. CASE DeleteObsolete(c)
  BY <1>3, DeletedIndexed DEF DeleteObsolete
<1>4. ASSUME NEW r \in Paths, InsertTree(c, r) PROVE IndexFacts'
  <2> DEFINE tree == Subtree[r] \cap dirs
             new == {<<walks + 1, q>> : q \in {q \in tree : RowsAt(q) = {}}}
  <2>0. walks \in Nat
    BY DEF IndexInv, IInv, Typed, TypeOK
  <2>1. folder' = [i \in Rows \cup new |-> IF i \in Rows THEN folder[i] ELSE NewRow]
    BY <1>4 DEF InsertTree
  <2>2. \A i \in new : i[1] = walks + 1 /\ i = <<walks + 1, PathOf(i)>> /\ RowsAt(PathOf(i)) = {}
    BY DEF PathOf
  <2> HIDE DEF new, tree
  <2>3. Rows' = Rows \cup new
    BY <2>1 DEF Rows
  <2>4. walks' = walks + 1 /\ UNCHANGED <<dirs, media, worker, missed>>
    BY <1>4 DEF InsertTree
  <2>5. OneRowPerPath'
    <3> SUFFICES ASSUME NEW i \in Rows', NEW j \in Rows', PathOf(i) = PathOf(j) PROVE i = j
      BY DEF OneRowPerPath
    <3>1. CASE i \in Rows /\ j \in Rows
      BY <3>1 DEF IndexInv, IndexFacts, OneRowPerPath
    <3>2. CASE i \in new /\ j \in new
      BY <2>2, <3>2
    <3>3. CASE (i \in new /\ j \in Rows) \/ (i \in Rows /\ j \in new)
      BY <2>2, <3>3 DEF RowsAt
    <3> QED BY <2>3, <3>1, <3>2, <3>3
  <2>6. IdsDrawn'
    <3> SUFFICES ASSUME NEW i \in Rows' PROVE i[1] <= walks'
      BY DEF IdsDrawn
    <3>1. CASE i \in new
      BY <2>0, <2>2, <2>4, <3>1
    <3>2. CASE i \in Rows
      <4>1. i[1] <= walks /\ i[1] \in Nat
        BY <3>2, IdsAreNumbered DEF IndexInv, IndexFacts, IdsDrawn
      <4> QED BY <2>0, <2>4, <4>1
    <3> QED BY <2>3, <3>1, <3>2
  <2>7. \A i \in Rows' : \/ i \in Rows /\ folder'[i] = folder[i]
                         \/ folder'[i].indexing = "not_started"
    BY <2>1, <2>3 DEF NewRow
  <2>8. \A i : Indexed(i) = Indexed(i)'
    BY <2>4 DEF Indexed
  <2>9. CompletedMeansIndexed' /\ StaysOnDisk'
    BY <2>4, <2>7, <2>8 DEF IndexInv, IndexFacts, CompletedMeansIndexed, StaysOnDisk
  <2>10. AddIsExact'
    <3> SUFFICES ASSUME worker.kind = "add" PROVE AddIsExact'
      BY <2>4 DEF AddIsExact
    <3>1. \A i \in worker.targets : i[1] <= walks /\ i[1] \in Nat
      BY IdsAreNumbered DEF IndexInv, IndexFacts, AddIsExact
    <3>2. \A i \in worker.targets : i[1] <= walks' /\ i \notin new
      BY <2>0, <2>2, <2>4, <3>1
    <3>3. \A i \in Rows' : Sound(i)' => i \in Rows /\ Sound(i)
      BY <2>3, <2>4, <3>2 DEF Sound
    <3> QED BY <2>4, <2>8, <3>2, <3>3 DEF IndexInv, IndexFacts, AddIsExact
  <2> QED BY <2>5, <2>6, <2>9, <2>10 DEF IndexFacts
<1>5. ASSUME NEW r \in Paths, SkipTree(c, r) PROVE IndexFacts'
  BY <1>5, SameLibrary DEF SkipTree, Rows
<1>6. CASE LinkTree(c)
  <2>1. ASSUME NEW i \in Rows PROVE folder'[i].indexing = folder[i].indexing
    <3>1. folder'[i] = IF PathOf(i) \in call[c].tree /\ folder[i].parent = NoId
                       THEN [folder[i] EXCEPT !.parent = MappedParent(c, PathOf(i))]
                       ELSE folder[i]
      BY <1>6 DEF LinkTree
    <3>2. folder[i] \in Row
      BY DEF IndexInv, IInv, Typed, TypeOK, FolderOK
    <3> QED BY <3>1, <3>2 DEF Row
  <2>2. Rows' = Rows /\ UNCHANGED <<dirs, walks, worker, missed, media>>
    BY <1>6 DEF LinkTree, Rows
  <2> QED BY <2>1, <2>2, SameLibrary
<1>7. CASE Submit(c)
  BY <1>7, SameLibrary DEF Submit, Rows
<1> QED BY <1>1, <1>2, <1>3, <1>4, <1>5, <1>6, <1>7 DEF HandlerStep

LEMMA UserIndexed ==
    ASSUME IndexInv, UserStep
    PROVE  IndexFacts'
<1> USE DEF disk, tables, mishaps
<1>0. FolderOK
  BY DEF IndexInv, IInv, Typed, TypeOK
<1>a. ASSUME NEW S, NEW on \in BOOLEAN, SetAI(S, on),
             UNCHANGED <<dirs, walks, worker, missed, media>>
      PROVE  IndexFacts'
  <2>1. Rows' = Rows
    BY <1>0, <1>a, SetAITyped
  <2>2. \A i \in Rows : folder'[i].indexing = folder[i].indexing
    BY <1>0, <1>a DEF SetAI, FolderOK, Row
  <2> QED BY <1>a, <2>1, <2>2, SameLibrary
<1>1. ASSUME NEW S, DisableAITagging(S) PROVE IndexFacts'
  BY <1>1, <1>a DEF DisableAITagging
<1>2. ASSUME NEW S, DeleteRequest(S) PROVE IndexFacts'
  BY <1>2, DeletedIndexed DEF DeleteRequest
<1>3. ASSUME NEW c \in Callers, NEW S, EnableAITagging(c, S) PROVE IndexFacts'
  BY <1>3, <1>a DEF EnableAITagging
<1>4. ASSUME NEW c \in Callers, NEW p \in Paths, AddFolder(c, p) PROVE IndexFacts'
  BY <1>4, SameLibrary DEF AddFolder, Rows
<1>5. ASSUME NEW c \in Callers, NEW i \in Rows, SyncFolder(c, i) PROVE IndexFacts'
  BY <1>5, SameLibrary DEF SyncFolder, Rows
<1> QED BY <1>1, <1>2, <1>3, <1>4, <1>5 DEF UserStep

(* What is written keeps every indexed row of a directory that stays       *)
(* indexed, and indexes the rows it is written for.                        *)
LEMMA WritingIndexes ==
    ASSUME IndexInv, NEW kept, NEW written, WriteMedia(kept, written),
           Kept \subseteq kept, written \subseteq Written
    PROVE  /\ \A i \in Rows : Stays(PathOf(i)) /\ Indexed(i) => Indexed(i)'
           /\ \A i \in Rows : PathOf(i) \in written => Indexed(i)'
<1> DEFINE owner(p) == CHOOSE i \in worker.records : PathOf(i) = p
<1>1. media' = [p \in kept \cup written |->
                  IF p \in written
                  THEN [folder |-> owner(p), tagged |-> p \in kept /\ media[p].tagged]
                  ELSE media[p]]
  BY DEF WriteMedia
<1>2. ASSUME NEW i \in Rows, PathOf(i) \in written PROVE owner(PathOf(i)) = i
  <2>1. worker.records \subseteq Rows /\ \E j \in worker.records : PathOf(j) = PathOf(i)
    BY <1>2 DEF Written
  <2>2. owner(PathOf(i)) \in worker.records /\ PathOf(owner(PathOf(i))) = PathOf(i)
    BY <2>1
  <2> HIDE DEF owner
  <2> QED BY <2>1, <2>2 DEF IndexInv, IndexFacts, OneRowPerPath
<1>3. ASSUME NEW i \in Rows, PathOf(i) \in written PROVE Indexed(i)'
  <2>1. owner(PathOf(i)) = i
    BY <1>2, <1>3
  <2> HIDE DEF owner
  <2>2. PathOf(i) \in DOMAIN media' /\ media'[PathOf(i)].folder = owner(PathOf(i))
    BY <1>1, <1>3
  <2> QED BY <2>1, <2>2 DEF Indexed
<1>4. ASSUME NEW i \in Rows, Stays(PathOf(i)), Indexed(i), PathOf(i) \notin written
      PROVE  Indexed(i)'
  <2>1. PathOf(i) \in kept
    BY <1>4, IdsAreNumbered DEF Kept, Indexed, IndexInv, IndexFacts, StaysOnDisk
  <2> HIDE DEF owner
  <2>2. PathOf(i) \in DOMAIN media' /\ media'[PathOf(i)] = media[PathOf(i)]
    BY <1>1, <1>4, <2>1
  <2> QED BY <1>4, <2>2 DEF Indexed
<1> QED BY <1>3, <1>4

LEMMA StatusSet ==
    ASSUME FolderOK, NEW S,
           NEW status \in {"in_progress", "completed", "interrupted"}, SetIndexing(S, status)
    PROVE  /\ Rows' = Rows
           /\ \A i \in Rows \ S : folder'[i].indexing = folder[i].indexing
           /\ \A i \in Rows \cap S : folder'[i].indexing = status
<1>1. Rows' = Rows
  BY SetIndexingTyped
<1> QED BY <1>1 DEF SetIndexing, FolderOK, Row

LEMMA WorkerIndexed ==
    ASSUME IndexInv, WorkerStep \/ IndexingFails \/ FlagRefused
    PROVE  IndexFacts'
<1> USE DEF disk, tables, handlers, mishaps
<1>0. /\ FolderOK /\ MediaOK /\ worker \in Worker /\ WorkerShape
      /\ StaysOnDisk /\ IdsDrawn /\ CompletedMeansIndexed /\ AddIsExact
  BY DEF IndexInv, IInv, Typed, TypeOK, IndexFacts
<1>b. ASSUME UNCHANGED <<dirs, walks, folder, media>>, missed \subseteq missed', AddIsExact'
      PROVE  IndexFacts'
  <2>1. \A i : Indexed(i) => Indexed(i)'
    BY <1>b DEF Indexed
  <2> QED BY <1>b, <2>1, TablesKept DEF Rows, IndexFacts
<1>c. ASSUME NEW done \in BOOLEAN, SetTagged(done) \/ UNCHANGED folder,
             UNCHANGED <<dirs, walks, media, missed>>, AddIsExact'
      PROVE  IndexFacts'
  <2>1. Rows' = Rows
    BY <1>0, <1>c, SetTaggedTyped DEF Rows
  <2>2. \A i \in Rows : folder'[i].indexing = folder[i].indexing
    BY <1>0, <1>c DEF SetTagged, FolderOK, Row
  <2>3. \A i : Indexed(i) => Indexed(i)'
    BY <1>c DEF Indexed
  <2> QED BY <1>c, <2>1, <2>2, <2>3, TablesKept DEF IndexFacts
<1>1. ASSUME NEW refused, StartAdd(refused) PROVE IndexFacts'
  <2> DEFINE targets == {i \in Rows : PathOf(i) \in Prefixed[Head(queue).path]}
  <2>1. SetIndexing(targets \ refused, "in_progress")
    BY <1>1 DEF StartAdd
  <2>2. worker'.targets = targets /\ worker'.pc = "collect"
    BY <1>1 DEF StartAdd, IdleWorker
  <2>3. targets \subseteq Rows
    OBVIOUS
  <2> HIDE DEF targets
  <2>4. UNCHANGED <<dirs, walks, media, missed>>
    BY <1>1 DEF StartAdd
  <2>5. /\ Rows' = Rows
        /\ \A i \in Rows : folder'[i].indexing = "completed" => folder[i].indexing = "completed"
    BY <1>0, <2>1, StatusSet
  <2>6. AddIsExact'
    BY <1>0, <2>2, <2>3, <2>4 DEF AddIsExact, IdsDrawn
  <2>7. \A i : Indexed(i) => Indexed(i)'
    BY <2>4 DEF Indexed
  <2> QED BY <2>4, <2>5, <2>6, <2>7, TablesKept DEF IndexFacts
<1>2. ASSUME NEW refused, StartTagging(refused) PROVE IndexFacts'
  <2>1. worker'.kind # "add"
    <3>1. Head(queue).kind \in {"tag", "sync"}
      BY <1>2 DEF StartTagging, NextJobIs
    <3> QED BY <1>2, <3>1 DEF StartTagging, IdleWorker
  <2>2. AddIsExact'
    BY <2>1 DEF AddIsExact
  <2>3. SetTagged(FALSE) \/ UNCHANGED folder
    BY <1>2 DEF StartTagging
  <2> QED BY <1>2, <1>c, <2>2, <2>3 DEF StartTagging
<1>3. ASSUME NEW unread, Collect(unread) PROVE IndexFacts'
  <2>1. /\ worker'.kind = worker.kind /\ worker'.targets = worker.targets
        /\ worker'.pc = "write"
        /\ worker'.records = {i \in worker.targets : PathOf(i) \in dirs} \ unread
    BY <1>0, <1>3 DEF Collect, Worker
  <2>2. UNCHANGED <<dirs, walks, folder, media>> /\ missed' = Missed(unread)
    BY <1>3 DEF Collect
  <2>3. missed \subseteq missed' /\ (worker.kind = "add" => unread \subseteq missed')
    BY <2>2 DEF Missed
  <2>4. ASSUME NEW i \in Rows, worker.kind = "add", Sound(i)' PROVE i \in worker'.records
    <3>1. i \in worker.targets /\ Stays(PathOf(i)) /\ i \notin unread
      BY <2>1, <2>3, <2>4 DEF Sound
    <3>2. PathOf(i) \in dirs
      BY <1>0, <3>1, IdsAreNumbered DEF StaysOnDisk, IndexInv
    <3> QED BY <2>1, <3>1, <3>2
  <2>5. AddIsExact'
    BY <1>0, <2>1, <2>2, <2>4 DEF AddIsExact, Rows
  <2> QED BY <1>b, <2>2, <2>3, <2>5
<1>4. ASSUME NEW kept, NEW written, WriteMedia(kept, written),
             Kept \subseteq kept, written \subseteq Written
      PROVE  IndexFacts'
  <2>1. /\ worker'.kind = worker.kind /\ worker'.targets = worker.targets
        /\ worker'.pc = IF worker.kind = "add" THEN "complete" ELSE "untagged"
        /\ worker.pc = "write"
    BY <1>0, <1>4 DEF WriteMedia, Worker
  <2>2. UNCHANGED <<dirs, walks, folder>> /\ Rows' = Rows
    BY <1>4 DEF WriteMedia, Rows
  <2>3. missed \subseteq missed'
    BY <1>4 DEF WriteMedia, Missed
  <2>4. ASSUME NEW i \in Rows, worker.kind = "add", Sound(i)' PROVE Indexed(i)'
    <3>1. i \in worker.targets /\ i \notin missed' /\ Sound(i)
      BY <2>1, <2>2, <2>3, <2>4 DEF Sound
    <3>2. \A j \in worker.records : PathOf(j) \in written
      BY <1>4, <2>4, <3>1 DEF WriteMedia, Missed
    <3>3. i \in worker.records
      BY <1>0, <2>1, <2>4, <3>1 DEF AddIsExact
    <3> QED BY <1>4, <3>2, <3>3, WritingIndexes
  <2>5. AddIsExact'
    BY <1>0, <2>1, <2>2, <2>4 DEF AddIsExact
  <2> QED BY <1>4, <2>2, <2>3, <2>5, WritingIndexes, TablesKept DEF IndexFacts
<1>5. ASSUME NEW refused, CompleteAdd(refused) PROVE IndexFacts'
  <2>1. /\ SetIndexing(worker.targets \ refused, "completed")
        /\ UNCHANGED <<dirs, walks, media, missed>>
        /\ worker.kind = "add" /\ worker.pc = "complete"
    BY <1>0, <1>5 DEF CompleteAdd, WorkerShape
  <2>2. AddIsExact'
    BY <1>5 DEF AddIsExact, CompleteAdd, IdleWorker
  <2>3. \A i \in Rows : Sound(i) => Indexed(i)
    BY <1>0, <2>1 DEF AddIsExact
  <2>4. /\ Rows' = Rows
        /\ \A i \in Rows : folder'[i].indexing = "completed" =>
              folder[i].indexing = "completed" \/ i \in worker.targets
    BY <1>0, <2>1, StatusSet
  <2>5. \A i : Indexed(i) => Indexed(i)'
    BY <2>1 DEF Indexed
  <2> QED BY <2>1, <2>2, <2>3, <2>4, <2>5, TablesKept DEF IndexFacts, Sound
<1>6. CASE ReadUntagged
  <2>1. worker'.pc = "tag" /\ worker'.kind = worker.kind /\ worker.kind # "add"
    BY <1>0, <1>6 DEF ReadUntagged, Worker, WorkerShape
  <2>2. AddIsExact'
    BY <2>1 DEF AddIsExact
  <2> QED BY <1>6, <1>b, <2>2 DEF ReadUntagged
<1>7. CASE TagOne
  <2> PICK p \in worker.todo :
         /\ worker' = [worker EXCEPT !.todo = @ \ {p}]
         /\ media' = [q \in DOMAIN media |-> IF q = p THEN [media[q] EXCEPT !.tagged = TRUE]
                                                      ELSE media[q]]
    BY <1>7 DEF TagOne
  <2>1. worker'.kind = worker.kind /\ worker.kind # "add"
    BY <1>0, <1>7 DEF TagOne, Worker, WorkerShape
  <2>2. UNCHANGED <<dirs, walks, folder, missed>> /\ Rows' = Rows
    BY <1>7 DEF TagOne, Rows
  <2>3. AddIsExact'
    BY <2>1 DEF AddIsExact
  <2>4. /\ DOMAIN media' = DOMAIN media
        /\ \A q \in DOMAIN media : media'[q].folder = media[q].folder
    BY <1>0 DEF MediaOK, MediaRow
  <2>5. \A i : Indexed(i) => Indexed(i)'
    BY <2>4 DEF Indexed
  <2> QED BY <2>2, <2>3, <2>5, TablesKept DEF IndexFacts
<1>8. CASE TagDone
  <2>1. worker'.pc = "flagup" /\ worker'.kind = worker.kind /\ worker.kind # "add"
    BY <1>0, <1>8 DEF TagDone, Worker, WorkerShape
  <2>2. AddIsExact'
    BY <2>1 DEF AddIsExact
  <2> QED BY <1>8, <1>b, <2>2 DEF TagDone
<1>9. ASSUME NEW refused, FinishTagging(refused) PROVE IndexFacts'
  <2>1. AddIsExact'
    BY <1>9 DEF AddIsExact, FinishTagging, IdleWorker
  <2>2. SetTagged(TRUE) \/ UNCHANGED folder
    BY <1>9 DEF FinishTagging
  <2> QED BY <1>9, <1>c, <2>1, <2>2 DEF FinishTagging
<1>k. Kept \subseteq DOMAIN media
  BY DEF Kept
<1> QED BY <1>k, <1>1, <1>2, <1>3, <1>4, <1>5, <1>6, <1>7, <1>8, <1>9
       DEF WorkerStep, IndexingFails, FlagRefused

LEMMA FaultsIndexed ==
    ASSUME IndexInv, AddRaises \/ TaggingRaises \/ WorkerDies \/ Restart
    PROVE  IndexFacts'
<1> USE DEF disk, tables, handlers
<1>0. FolderOK /\ worker \in Worker /\ WorkerShape
  BY DEF IndexInv, IInv, Typed, TypeOK
<1>1. UNCHANGED <<dirs, walks, media, missed>>
  BY DEF AddRaises, TaggingRaises, WorkerDies, Restart
<1>a. \A i : Indexed(i) => Indexed(i)'
  BY <1>1 DEF Indexed
<1>b. ASSUME Rows' = Rows, AddIsExact',
             \A i \in Rows : folder'[i].indexing = "completed" => folder[i].indexing = "completed"
      PROVE  IndexFacts'
  BY <1>1, <1>a, <1>b, TablesKept DEF IndexFacts
<1>c. ASSUME worker' = IdleWorker \/ worker'.kind # "add" PROVE AddIsExact'
  BY <1>c DEF AddIsExact, IdleWorker
<1>2. CASE AddRaises
  <2>1. CASE UNCHANGED <<folder, worker>>
    BY <1>1, <2>1, SameLibrary DEF Rows
  <2>2. CASE ~UNCHANGED <<folder, worker>>
    <3>1. PICK refused \in SUBSET worker.targets : Interrupt(refused) /\ worker' = IdleWorker
      BY <1>2, <2>2 DEF AddRaises
    <3> QED BY <1>0, <1>b, <1>c, <3>1, StatusSet DEF Interrupt
  <2> QED BY <2>1, <2>2
<1>3. CASE TaggingRaises
  <2>1. worker'.kind # "add"
    <3>1. CASE worker.pc \in {"untagged", "tag"} /\ worker' = [worker EXCEPT !.pc = "flagup", !.todo = {}]
      BY <1>0, <3>1 DEF WorkerShape, Worker
    <3>2. CASE /\ NextJobIs({"tag", "sync"})
               /\ worker' = [IdleWorker EXCEPT !.pc = "flagup", !.kind = Head(queue).kind]
      BY <3>2 DEF NextJobIs, IdleWorker
    <3> QED BY <1>3, <3>1, <3>2 DEF TaggingRaises
  <2> QED BY <1>3, <1>b, <1>c, <2>1 DEF TaggingRaises, Rows
<1>4. CASE WorkerDies
  BY <1>4, <1>b, <1>c DEF WorkerDies, Rows
<1>5. CASE Restart
  <2>1. CASE folder' = FlagsCleared
    <3>1. Rows' = Rows
      BY <1>0, <2>1, FlagsClearedTyped
    <3>2. \A i \in Rows : folder'[i].indexing \in {folder[i].indexing, "interrupted"}
      BY <1>0, <2>1 DEF FlagsCleared, FolderOK, Row
    <3> QED BY <1>5, <1>b, <1>c, <3>1, <3>2 DEF Restart
  <2>2. CASE UNCHANGED folder
    BY <1>5, <1>b, <1>c, <2>2 DEF Restart, Rows
  <2> QED BY <1>5, <2>1, <2>2 DEF Restart
<1> QED BY <1>2, <1>3, <1>4, <1>5

LEMMA DiskIndexed ==
    ASSUME IndexInv, NEW p \in Paths, Appear(p) \/ Disappear(p)
    PROVE  IndexFacts'
<1>1. UNCHANGED <<folder, media, walks, worker, missed>> /\ Rows' = Rows
  BY DEF Appear, Disappear, tables, handlers, mishaps, Rows
<1>2. StaysOnDisk'
  BY DEF IndexInv, IndexFacts, StaysOnDisk, Appear, Disappear, Stays
<1> QED BY <1>1, <1>2 DEF IndexInv, IndexFacts, OneRowPerPath, IdsDrawn, CompletedMeansIndexed,
                          AddIsExact, Sound, Indexed

(* A folder that is "completed" has the rows of its files if its directory *)
(* stays on disk and no add has missed it: whatever adds, deletions, syncs *)
(* and tagging requests interleave, whatever appears and disappears, and   *)
(* however often a sequence raises, the worker dies, a flag is refused or  *)
(* the application restarts (post_folder_add_sequence in routes/folders.py *)
(* with image_util_process_folder_images).                                 *)
THEOREM CompletedIsIndexed == Spec => []CompletedMeansIndexed
<1>1. Init => IndexInv
  BY InitTyped, InitOwned, InitIndexed DEF IndexInv, IInv
<1>2. IndexInv /\ [Next]_vars => IndexInv'
  <2>1. IndexInv /\ [Next]_vars => Typed'
    BY HandlersTyped, UserTyped, WorkerTyped, FaultsTyped, DiskTyped, StutterTyped
       DEF Next, IInv, IndexInv
  <2>2. IndexInv /\ [Next]_vars => WorkerShape' /\ BusyIsOwned'
    BY HandlersOwned, UserOwned, WorkerOwned, FaultsOwned, DiskOwned, StutterOwned
       DEF Next, IndexInv
  <2>3. ASSUME IndexInv, UNCHANGED vars PROVE IndexFacts'
    BY <2>3, SameLibrary DEF vars, Rows
  <2>4. IndexInv /\ [Next]_vars => IndexFacts'
    BY <2>3, HandlersIndexed, UserIndexed, WorkerIndexed, FaultsIndexed, DiskIndexed DEF Next
  <2> QED BY <2>1, <2>2, <2>4 DEF IndexInv, IInv
<1>3. IndexInv => CompletedMeansIndexed
  BY DEF IndexInv, IndexFacts
<1> QED BY <1>1, <1>2, <1>3, PTL DEF Spec

---------------------------------------------------------------------------
(* NothingLeftUntagged, as long as nothing is added and nothing raises: an *)
(* add sequence does not tag what it finds, and a fault gives the rest of  *)
(* a sequence up.                                                          *)

NoAdds ==
    /\ \A c \in Callers : call[c].op # "add"
    /\ \A n \in 1 .. Len(queue) : queue[n].kind # "add"
    /\ worker.kind # "add"

OwnedMedia == \A p \in DOMAIN media : media[p].folder \in Rows

(* An untagged file in a folder with AI tagging is ahead of someone: the   *)
(* handler that enabled it, a job of the queue, a sequence that has not    *)
(* asked for the untagged files yet, or one that has this file on its list. *)
Awaited(p) ==
    \/ \E c \in Callers : call[c].pc = "submit" /\ call[c].op = "enable"
    \/ queue # <<>>
    \/ worker.pc \in {"collect", "write", "untagged"}
    \/ worker.pc = "tag" /\ p \in worker.todo

NothingForgotten ==
    \A p \in DOMAIN media : folder[media[p].folder].ai /\ ~media[p].tagged => Awaited(p)

TaggingFacts == NoAdds /\ OwnedMedia /\ NothingForgotten

TaggingInv == IInv /\ alive /\ TaggingFacts

LEMMA InitTagging == Init => alive /\ TaggingFacts
<1> SUFFICES ASSUME Init PROVE alive /\ TaggingFacts
  OBVIOUS
<1>1. NoAdds
  <2>1. queue = <<>>
    BY DEF Init
  <2>2. 1 .. Len(queue) = {}
    BY <2>1
  <2>3. worker.kind # "add" /\ \A c \in Callers : call[c].op # "add"
    BY DEF Init, IdleCall, IdleWorker
  <2> QED BY <2>2, <2>3 DEF NoAdds
<1>2. \A p \in DOMAIN media : media[p].folder \in Rows
  BY DEF Init, Rows
<1>3. \A i \in Rows : ~folder[i].ai
  BY DEF Init, Rows, NewRow
<1> QED BY <1>1, <1>2, <1>3 DEF Init, TaggingFacts, OwnedMedia, NothingForgotten

(* The step of a request that leaves the worker and its queue alone, and   *)
(* brings neither a file nor AI tagging.                                   *)
LEMMA CalmStep ==
    ASSUME TaggingInv, UNCHANGED <<queue, worker>>,
           \A p \in DOMAIN media' : p \in DOMAIN media /\ media'[p] = media[p],
           \A p \in DOMAIN media' : media[p].folder \in Rows',
           \A i \in Rows \cap Rows' : folder'[i].ai => folder[i].ai,
           \A c \in Callers : call'[c].op # "add" /\ (call[c].pc = "submit" => call'[c] = call[c])
    PROVE  TaggingFacts'
<1>1. NoAdds' /\ OwnedMedia'
  BY DEF TaggingInv, TaggingFacts, NoAdds, OwnedMedia
<1>2. \A p : Awaited(p) => Awaited(p)'
  BY DEF Awaited
<1>3. NothingForgotten'
  BY <1>2 DEF TaggingInv, TaggingFacts, NothingForgotten, OwnedMedia
<1> QED BY <1>1, <1>3 DEF TaggingFacts

LEMMA SameFilesAndFolders ==
    ASSUME TaggingInv, UNCHANGED <<folder, media, queue, worker>>,
           \A c \in Callers : call'[c].op # "add" /\ (call[c].pc = "submit" => call'[c] = call[c])
    PROVE  TaggingFacts'
BY CalmStep DEF TaggingInv, TaggingFacts, OwnedMedia, Rows

(* Deleting folders takes their files along. *)
LEMMA DeletedWithFiles ==
    ASSUME TaggingInv, NEW S, DeleteFolders(S)
    PROVE  /\ \A p \in DOMAIN media' : p \in DOMAIN media /\ media'[p] = media[p]
           /\ \A p \in DOMAIN media' : media[p].folder \in Rows'
           /\ \A i \in Rows \cap Rows' : folder'[i] = folder[i]
<1> DEFINE gone == Cascade(S \cap Rows)
<1> HIDE DEF gone
<1>1. folder' = [i \in Rows \ gone |-> folder[i]]
  BY DEF DeleteFolders, gone
<1>2. media' = [p \in {q \in DOMAIN media : media[q].folder \notin gone} |-> media[p]]
  BY DEF DeleteFolders, gone
<1>3. Rows' = Rows \ gone
  BY <1>1 DEF Rows
<1> QED BY <1>1, <1>2, <1>3 DEF TaggingInv, TaggingFacts, OwnedMedia

LEMMA HandlersTag ==
    ASSUME TaggingInv, NEW c \in Callers, HandlerStep(c)
    PROVE  TaggingFacts'
<1> USE DEF disk, tables, mishaps
<1>0. /\ call \in [Callers -> Call] /\ call[c] \in Call /\ CallOK(call[c])
      /\ \A d \in Callers : call[d].op # "add"
      /\ queue \in Seq(Job) /\ FolderOK
  BY DEF TaggingInv, TaggingFacts, NoAdds, IInv, Typed, TypeOK, CallsOK
<1>a. ASSUME NEW k, k.op # "add", call' = [call EXCEPT ![c] = k], call[c].pc # "submit"
      PROVE  \A d \in Callers : call'[d].op # "add" /\ (call[d].pc = "submit" => call'[d] = call[d])
  BY <1>0, <1>a
<1>b. IdleCall.op # "add"
  BY DEF IdleCall
<1>1. CASE FindParent(c)
  BY <1>0, <1>1 DEF FindParent, CallOK
<1>2. CASE CompareWithDisk(c)
  <2> DEFINE children == {j \in Rows : folder[j].parent = call[c].parent}
             onDisk == {q \in dirs : Parent[q] = call[c].path}
             next == [call[c] EXCEPT !.pc = "delete",
                                     !.doomed = {j \in children : PathOf(j) \notin onDisk},
                                     !.todo = onDisk \ {PathOf(j) : j \in children}]
  <2>1. next.op # "add"
    BY <1>0 DEF Call
  <2>2. call' = [call EXCEPT ![c] = IF call[c].path \notin dirs THEN IdleCall ELSE next]
    BY <1>2 DEF CompareWithDisk
  <2> HIDE DEF next
  <2>3. call[c].pc # "submit" /\ UNCHANGED <<folder, media, queue, worker>>
    BY <1>2 DEF CompareWithDisk
  <2> QED BY <1>a, <1>b, <2>1, <2>2, <2>3, SameFilesAndFolders
<1>3. CASE DeleteObsolete(c)
  <2> DEFINE next == [call[c] EXCEPT !.pc = InsertOrSubmit(call[c].todo), !.doomed = {}]
  <2>1. next.op # "add"
    BY <1>0 DEF Call
  <2>2. call' = [call EXCEPT ![c] = next]
    BY <1>3 DEF DeleteObsolete
  <2> HIDE DEF next
  <2>3. call[c].pc # "submit" /\ UNCHANGED <<queue, worker>> /\ DeleteFolders(call[c].doomed)
    BY <1>3 DEF DeleteObsolete
  <2> QED BY <1>a, <2>1, <2>2, <2>3, DeletedWithFiles, CalmStep
<1>4. ASSUME NEW r \in Paths, InsertTree(c, r)
      PROVE  TaggingFacts'
  <2> DEFINE tree == Subtree[r] \cap dirs
             new == {<<walks + 1, q>> : q \in {q \in tree : RowsAt(q) = {}}}
             next == [call[c] EXCEPT !.pc = "link", !.root = r, !.tree = tree,
                                     !.walk = walks + 1, !.todo = @ \ {r}]
  <2>1. folder' = [i \in Rows \cup new |-> IF i \in Rows THEN folder[i] ELSE NewRow]
    BY <1>4 DEF InsertTree
  <2>2. call' = [call EXCEPT ![c] = next]
    BY <1>4 DEF InsertTree
  <2>3. next.op # "add"
    BY <1>0 DEF Call
  <2> HIDE DEF new, next
  <2>4. Rows \subseteq Rows' /\ \A i \in Rows : folder'[i] = folder[i]
    BY <2>1 DEF Rows
  <2>5. call[c].pc # "submit" /\ UNCHANGED <<media, queue, worker>>
    BY <1>4 DEF InsertTree
  <2>6. \A p \in DOMAIN media' : media[p].folder \in Rows'
    BY <2>4, <2>5 DEF TaggingInv, TaggingFacts, OwnedMedia
  <2> QED BY <1>a, <2>2, <2>3, <2>4, <2>5, <2>6, CalmStep
<1>5. ASSUME NEW r \in Paths, SkipTree(c, r)
      PROVE  TaggingFacts'
  <2> DEFINE next == [call[c] EXCEPT !.pc = InsertOrSubmit(call[c].todo \ {r}),
                                     !.todo = call[c].todo \ {r}]
  <2>1. next.op # "add"
    BY <1>0 DEF Call
  <2>2. call' = [call EXCEPT ![c] = IF call[c].op = "add" THEN IdleCall ELSE next]
    BY <1>5 DEF SkipTree
  <2> HIDE DEF next
  <2>3. call[c].pc # "submit" /\ UNCHANGED <<folder, media, queue, worker>>
    BY <1>5 DEF SkipTree
  <2> QED BY <1>a, <1>b, <2>1, <2>2, <2>3, SameFilesAndFolders
<1>6. CASE LinkTree(c)
  <2> DEFINE next == [call[c] EXCEPT !.pc = InsertOrSubmit(call[c].todo),
                            !.added = @ \cup ({call[c].walk} \X call[c].tree),
                            !.root = NoPath, !.tree = {}, !.walk = 0]
  <2>1. next.op # "add"
    BY <1>0 DEF Call
  <2>2. call' = [call EXCEPT ![c] = next]
    BY <1>6 DEF LinkTree
  <2> HIDE DEF next
  <2>3. /\ call[c].pc # "submit" /\ UNCHANGED <<media, queue, worker>> /\ Rows' = Rows
    BY <1>6 DEF LinkTree, Rows
  <2>4. ASSUME NEW i \in Rows PROVE folder'[i].ai = folder[i].ai
    <3>1. folder'[i] = IF PathOf(i) \in call[c].tree /\ folder[i].parent = NoId
                       THEN [folder[i] EXCEPT !.parent = MappedParent(c, PathOf(i))]
                       ELSE folder[i]
      BY <1>6 DEF LinkTree
    <3>2. folder[i] \in Row
      BY <1>0 DEF FolderOK
    <3> QED BY <3>1, <3>2 DEF Row
  <2>5. \A p \in DOMAIN media' : media[p].folder \in Rows'
    BY <2>3 DEF TaggingInv, TaggingFacts, OwnedMedia
  <2> QED BY <1>a, <2>1, <2>2, <2>3, <2>4, <2>5, CalmStep
<1>7. CASE Submit(c)
  <2>1. JobOf(c).kind # "add"
    BY <1>0 DEF JobOf
  <2>2. queue' = Append(queue, JobOf(c)) /\ call' = [call EXCEPT ![c] = IdleCall]
    BY <1>7 DEF Submit, TaggingInv
  <2>3. /\ queue' # <<>>
        /\ \A n \in 1 .. Len(queue') : queue'[n].kind # "add"
    <3>1. /\ Len(queue') = Len(queue) + 1 /\ Len(queue) \in Nat
          /\ queue'[Len(queue) + 1] = JobOf(c)
          /\ \A n \in 1 .. Len(queue) : queue'[n] = queue[n]
      BY <1>0, <2>2
    <3>2. \A n \in 1 .. Len(queue) : queue[n].kind # "add"
      BY DEF TaggingInv, TaggingFacts, NoAdds
    <3>3. queue' # <<>>
      BY <1>0, <2>2
    <3> QED BY <2>1, <3>1, <3>2, <3>3
  <2>4. UNCHANGED <<folder, media, worker>> /\ Rows' = Rows
    BY <1>7 DEF Submit, Rows
  <2>5. NoAdds'
    BY <1>0, <1>b, <2>2, <2>3, <2>4 DEF TaggingInv, TaggingFacts, NoAdds
  <2> QED BY <2>3, <2>4, <2>5 DEF TaggingInv, TaggingFacts, OwnedMedia, NothingForgotten, Awaited
<1> QED BY <1>1, <1>2, <1>3, <1>4, <1>5, <1>6, <1>7 DEF HandlerStep

LEMMA UserTags ==
    ASSUME TaggingInv, UserStep, "add" \notin Kinds
    PROVE  TaggingFacts'
<1> USE DEF disk, tables, mishaps
<1>0. /\ call \in [Callers -> Call] /\ FolderOK
      /\ \A d \in Callers : call[d].op # "add"
      /\ \A p \in DOMAIN media : media[p].folder \in Rows
  BY DEF TaggingInv, TaggingFacts, NoAdds, OwnedMedia, IInv, Typed, TypeOK
<1>1. ASSUME NEW S, DisableAITagging(S) PROVE TaggingFacts'
  <2>1. \A i \in Rows : folder'[i].ai => folder[i].ai
    BY <1>1 DEF DisableAITagging, SetAI, FolderOK, Row
  <2>2. Rows' = Rows
    BY <1>0, <1>1, SetAITyped DEF DisableAITagging
  <2>3. UNCHANGED <<media, call, queue, worker>>
    BY <1>1 DEF DisableAITagging
  <2> QED BY <1>0, <2>1, <2>2, <2>3, CalmStep
<1>2. ASSUME NEW S, DeleteRequest(S) PROVE TaggingFacts'
  BY <1>0, <1>2, DeletedWithFiles, CalmStep DEF DeleteRequest
<1>3. ASSUME NEW c \in Callers, NEW S, EnableAITagging(c, S)
      PROVE  TaggingFacts'
  <2>1. Rows' = Rows /\ UNCHANGED <<media, queue, worker>>
    BY <1>0, <1>3, SetAITyped DEF EnableAITagging
  <2>2. call'[c].pc = "submit" /\ call'[c].op = "enable"
    BY <1>0, <1>3 DEF EnableAITagging, IdleCall
  <2>3. \A d \in Callers : call'[d].op # "add"
    BY <1>0, <1>3, <2>2 DEF EnableAITagging
  <2>4. NoAdds'
    BY <2>1, <2>3 DEF TaggingInv, TaggingFacts, NoAdds
  <2> QED BY <2>1, <2>2, <2>4 DEF TaggingInv, TaggingFacts, OwnedMedia, NothingForgotten, Awaited
<1>4. ASSUME NEW c \in Callers, NEW p \in Paths, AddFolder(c, p) PROVE FALSE
  BY <1>4 DEF AddFolder, Request
<1>5. ASSUME NEW c \in Callers, NEW i \in Rows, SyncFolder(c, i)
      PROVE  TaggingFacts'
  <2> DEFINE next == [IdleCall EXCEPT !.pc = "read", !.op = "sync",
                                      !.path = PathOf(i), !.parent = i]
  <2>1. next.op # "add"
    BY DEF IdleCall
  <2>2. call' = [call EXCEPT ![c] = next] /\ call[c].pc = "idle"
    BY <1>5 DEF SyncFolder
  <2> HIDE DEF next
  <2>3. UNCHANGED <<folder, media, queue, worker>>
    BY <1>5 DEF SyncFolder
  <2> QED BY <1>0, <2>1, <2>2, <2>3, SameFilesAndFolders
<1> QED BY <1>1, <1>2, <1>3, <1>4, <1>5 DEF UserStep

LEMMA WorkerTags ==
    ASSUME TaggingInv, WorkerStep
    PROVE  TaggingFacts'
<1> USE DEF disk, tables, handlers, mishaps
<1>0. /\ queue \in Seq(Job) /\ worker \in Worker /\ WorkerShape
      /\ FolderOK /\ MediaOK /\ NoAdds /\ OwnedMedia
      /\ \A n \in 1 .. Len(queue) : queue[n].kind # "add"
  BY DEF TaggingInv, TaggingFacts, NoAdds, IInv, Typed, TypeOK
<1>a. ASSUME worker'.kind # "add", UNCHANGED <<call, queue>> PROVE NoAdds'
  BY <1>0, <1>a DEF NoAdds
<1>1. ASSUME NEW refused, StartAdd(refused) PROVE TaggingFacts'
  <2>1. queue # <<>> /\ Head(queue).kind = "add"
    BY <1>1 DEF StartAdd, NextJobIs
  <2>2. Head(queue) = queue[1] /\ 1 \in 1 .. Len(queue)
    BY <1>0, <2>1
  <2> QED BY <1>0, <2>1, <2>2
<1>2. ASSUME NEW refused, StartTagging(refused) PROVE TaggingFacts'
  <2>1. Head(queue).kind \in {"tag", "sync"} /\ queue # <<>> /\ queue' = Tail(queue)
    BY <1>2 DEF StartTagging, NextJobIs
  <2>2. worker'.kind # "add" /\ worker'.pc \in {"collect", "untagged"}
    BY <1>2, <2>1 DEF StartTagging, IdleWorker
  <2>3. \A n \in 1 .. Len(queue') : n + 1 \in 1 .. Len(queue) /\ queue'[n] = queue[n + 1]
    BY <1>0, <2>1
  <2>4. NoAdds'
    BY <1>0, <1>2, <2>2, <2>3 DEF NoAdds, StartTagging
  <2>5. Rows' = Rows /\ media' = media
    BY <1>0, <1>2, SetTaggedTyped DEF StartTagging, Rows
  <2> QED BY <1>0, <2>2, <2>4, <2>5 DEF TaggingFacts, OwnedMedia, NothingForgotten, Awaited
<1>3. ASSUME NEW unread, Collect(unread) PROVE TaggingFacts'
  <2>1. worker'.kind = worker.kind /\ worker'.pc = "write"
    BY <1>0, <1>3 DEF Collect, Worker
  <2>2. UNCHANGED <<call, queue, folder, media>> /\ Rows' = Rows
    BY <1>3 DEF Collect, Rows
  <2>3. NoAdds'
    BY <1>0, <1>a, <2>1, <2>2 DEF NoAdds
  <2> QED BY <1>0, <2>1, <2>2, <2>3 DEF TaggingFacts, OwnedMedia, NothingForgotten, Awaited
<1>4. CASE WriteMedia(Kept, Written)
  <2> DEFINE owner(p) == CHOOSE i \in worker.records : PathOf(i) = p
  <2>1. media' = [p \in Kept \cup Written |->
                    IF p \in Written
                    THEN [folder |-> owner(p), tagged |-> p \in Kept /\ media[p].tagged]
                    ELSE media[p]]
    BY <1>4 DEF WriteMedia
  <2>2. ASSUME NEW p \in Written PROVE owner(p) \in Rows
    <3>1. worker.records \subseteq Rows /\ \E i \in worker.records : PathOf(i) = p
      BY <2>2 DEF Written
    <3> QED BY <3>1
  <2>3. Kept \subseteq DOMAIN media
    BY DEF Kept
  <2> HIDE DEF owner
  <2>4. \A p \in DOMAIN media' : media'[p].folder \in Rows
    BY <1>0, <2>1, <2>2, <2>3 DEF OwnedMedia
  <2>5. worker'.kind = worker.kind /\ worker'.pc = "untagged"
    BY <1>0, <1>4 DEF WriteMedia, Worker, NoAdds
  <2>6. UNCHANGED <<call, queue, folder>> /\ Rows' = Rows
    BY <1>4 DEF WriteMedia, Rows
  <2>7. NoAdds'
    BY <1>0, <1>a, <2>5, <2>6 DEF NoAdds
  <2> QED BY <2>4, <2>5, <2>6, <2>7 DEF TaggingFacts, OwnedMedia, NothingForgotten, Awaited
<1>5. ASSUME NEW refused, CompleteAdd(refused) PROVE TaggingFacts'
  BY <1>0, <1>5 DEF CompleteAdd, WorkerShape, NoAdds
<1>6. CASE ReadUntagged
  <2>1. /\ worker'.kind = worker.kind /\ worker'.pc = "tag"
        /\ worker'.todo = {p \in DOMAIN media : /\ media[p].folder \in Rows
                                                /\ folder[media[p].folder].ai
                                                /\ ~media[p].tagged}
    BY <1>0, <1>6 DEF ReadUntagged, Worker
  <2>2. UNCHANGED <<call, queue, folder, media>> /\ Rows' = Rows
    BY <1>6 DEF ReadUntagged, Rows
  <2>3. NoAdds'
    BY <1>0, <1>a, <2>1, <2>2 DEF NoAdds
  <2> QED BY <1>0, <2>1, <2>2, <2>3 DEF TaggingFacts, OwnedMedia, NothingForgotten, Awaited
<1>7. CASE TagOne
  <2> PICK p \in worker.todo :
         /\ worker' = [worker EXCEPT !.todo = @ \ {p}]
         /\ media' = [q \in DOMAIN media |-> IF q = p THEN [media[q] EXCEPT !.tagged = TRUE]
                                                      ELSE media[q]]
    BY <1>7 DEF TagOne
  <2>1. /\ worker'.pc = "tag" /\ worker.pc = "tag" /\ worker'.kind = worker.kind
        /\ worker'.todo = worker.todo \ {p}
    BY <1>0, <1>7 DEF TagOne, Worker
  <2>2. UNCHANGED <<call, queue, folder>> /\ Rows' = Rows
    BY <1>7 DEF TagOne, Rows
  <2>3. NoAdds'
    BY <1>0, <1>a, <2>1, <2>2 DEF NoAdds
  <2>4. /\ DOMAIN media' = DOMAIN media
        /\ \A q \in DOMAIN media : media'[q].folder = media[q].folder
        /\ \A q \in DOMAIN media : q # p => media'[q] = media[q]
        /\ p \in DOMAIN media => media'[p].tagged
    BY <1>0 DEF MediaOK, MediaRow
  <2>5. ASSUME NEW q \in DOMAIN media', folder'[media'[q].folder].ai, ~media'[q].tagged
        PROVE  Awaited(q)'
    <3>1. q # p
      BY <2>4, <2>5
    <3>2. Awaited(q)
      BY <2>2, <2>4, <2>5, <3>1 DEF TaggingInv, TaggingFacts, NothingForgotten
    <3> QED BY <2>1, <2>2, <3>1, <3>2 DEF Awaited
  <2> QED BY <1>0, <2>2, <2>3, <2>4, <2>5 DEF TaggingFacts, OwnedMedia, NothingForgotten
<1>8. CASE TagDone
  <2>1. /\ worker.pc = "tag" /\ worker.todo = {} /\ worker'.kind = worker.kind
    BY <1>0, <1>8 DEF TagDone, Worker
  <2>2. UNCHANGED <<call, queue, folder, media>> /\ Rows' = Rows
    BY <1>8 DEF TagDone, Rows
  <2>3. NoAdds'
    BY <1>0, <1>a, <2>1, <2>2 DEF NoAdds
  <2>4. \A p : Awaited(p) => Awaited(p)'
    BY <2>1, <2>2 DEF Awaited
  <2> QED BY <1>0, <2>2, <2>3, <2>4 DEF TaggingInv, TaggingFacts, OwnedMedia, NothingForgotten
<1>9. ASSUME NEW refused, FinishTagging(refused) PROVE TaggingFacts'
  <2>1. worker.pc = "flagup" /\ worker'.kind = "none"
    BY <1>9 DEF FinishTagging, IdleWorker
  <2>2. UNCHANGED <<call, queue, media>> /\ Rows' = Rows
    BY <1>0, <1>9, SetTaggedTyped DEF FinishTagging, Rows
  <2>3. \A i \in Rows : folder'[i].ai = folder[i].ai
    BY <1>0, <1>9 DEF FinishTagging, SetTagged, FolderOK, Row
  <2>4. \A p : Awaited(p) => Awaited(p)'
    BY <2>1, <2>2 DEF Awaited
  <2>5. NoAdds'
    BY <1>a, <2>1, <2>2
  <2> QED BY <1>0, <2>2, <2>3, <2>4, <2>5 DEF TaggingInv, TaggingFacts, OwnedMedia, NothingForgotten
<1> QED BY <1>1, <1>2, <1>3, <1>4, <1>5, <1>6, <1>7, <1>8, <1>9 DEF WorkerStep

(* When all requests and all jobs are done, every file in a folder with AI *)
(* tagging is tagged: enabling it during a sequence that has already asked *)
(* for the untagged files, disabling it in between, deletions, and syncs   *)
(* whose batch is not written, all leave a job that comes back for the     *)
(* rest (post_AI_tagging_enabled_sequence, post_sync_folder_sequence).     *)
THEOREM TaggingForgetsNothing ==
    ASSUME "add" \notin Kinds, FaultKinds = {}
    PROVE  Spec => []NothingLeftUntagged
<1>1. Init => TaggingInv
  BY InitTyped, InitOwned, InitTagging DEF TaggingInv, TaggingFacts, IInv
<1>2. TaggingInv /\ [Next]_vars => TaggingInv'
  <2>1. TaggingInv /\ [Next]_vars => Typed'
    BY HandlersTyped, UserTyped, WorkerTyped, FaultsTyped, DiskTyped, StutterTyped
       DEF Next, IInv, TaggingInv, TaggingFacts
  <2>2. TaggingInv /\ [Next]_vars => WorkerShape' /\ BusyIsOwned'
    BY HandlersOwned, UserOwned, WorkerOwned, FaultsOwned, DiskOwned, StutterOwned
       DEF Next, TaggingInv, TaggingFacts
  <2>3. ~(AddRaises \/ TaggingRaises \/ IndexingFails \/ FlagRefused \/ WorkerDies \/ Restart)
    BY DEF AddRaises, TaggingRaises, IndexingFails, FlagRefused, WorkerDies, Restart, Fault
  <2>4. ASSUME TaggingInv, UNCHANGED <<folder, media, call, queue, worker>>
        PROVE  TaggingFacts'
    BY <2>4, SameFilesAndFolders DEF TaggingInv, TaggingFacts, NoAdds
  <2>5. \A p \in Paths : Appear(p) \/ Disappear(p) => UNCHANGED <<folder, media, call, queue, worker>>
    BY DEF Appear, Disappear, tables, handlers, mishaps
  <2>6. TaggingInv /\ [Next]_vars => TaggingFacts'
    BY <2>3, <2>4, <2>5, HandlersTag, UserTags, WorkerTags DEF Next, vars
  <2>7. TaggingInv /\ [Next]_vars => alive'
    <3> SUFFICES ASSUME TaggingInv, [Next]_vars PROVE alive' = alive
      BY DEF TaggingInv
    <3> USE DEF mishaps
    <3>1. CASE UserStep
      BY <3>1 DEF UserStep, DisableAITagging, DeleteRequest, EnableAITagging, AddFolder, SyncFolder
    <3>2. CASE \E c \in Callers : HandlerStep(c)
      BY <3>2 DEF HandlerStep, FindParent, CompareWithDisk, DeleteObsolete, InsertTree, SkipTree,
                  LinkTree, Submit
    <3>3. CASE WorkerStep
      BY <3>3 DEF WorkerStep, StartAdd, StartTagging, Collect, WriteMedia, CompleteAdd,
                  ReadUntagged, TagOne, TagDone, FinishTagging
    <3>4. CASE \E p \in Paths : Appear(p) \/ Disappear(p)
      BY <3>4 DEF Appear, Disappear
    <3>5. CASE UNCHANGED vars
      BY <3>5 DEF vars
    <3> QED BY <2>3, <3>1, <3>2, <3>3, <3>4, <3>5 DEF Next
  <2> QED BY <2>1, <2>2, <2>6, <2>7 DEF TaggingInv, TaggingFacts, IInv
<1>3. TaggingInv => NothingLeftUntagged
  BY DEF TaggingInv, TaggingFacts, NothingForgotten, NothingLeftUntagged, Awaited, Quiet, IdleCall, IdleWorker
<1> QED BY <1>1, <1>2, <1>3, PTL DEF Spec

=============================================================================
