----------------------------- MODULE MediaItems -----------------------------
(***************************************************************************)
(* What the pipeline promises to somebody who lists the library: a file is *)
(* listed or not; a listed one is tagged with objects once, is found by    *)
(* meaning from the moment it has a vector, gets labels only from then on, *)
(* and keeps all of that, and its heart, until it is listed no more.       *)
(***************************************************************************)
CONSTANTS Paths, NotListed

VARIABLE item

New == [tagged |-> FALSE, searchable |-> FALSE, favourite |-> FALSE, objects |-> {}, tags |-> {}]

Init == item = [m \in Paths |-> NotListed]

Becomes(m, new) == item'[m] = new

List(m)   == item[m] = NotListed /\ Becomes(m, New)
Unlist(m) == item[m] # NotListed /\ Becomes(m, NotListed)

Listed(m) == item[m] # NotListed /\ item'[m] # NotListed

(* Until a medium is tagged its objects may change, and the sample that    *)
(* its vectors come from may be taken again.                               *)
Detect(m) == ~item[m].tagged /\ Becomes(m, [item[m] EXCEPT !.objects = item'[m].objects])
Sample(m) == ~item[m].tagged /\ Becomes(m, [item[m] EXCEPT !.searchable = FALSE])
Tag(m)    == Becomes(m, [item[m] EXCEPT !.tagged = TRUE])

Embed(m)  == Becomes(m, [item[m] EXCEPT !.searchable = TRUE])
Score(m)  == item[m].searchable /\ Becomes(m, [item[m] EXCEPT !.tags = item'[m].tags])
Like(m)   == Becomes(m, [item[m] EXCEPT !.favourite = ~@])

Step(m) ==
    \/ List(m) \/ Unlist(m)
    \/ Listed(m) /\ (Detect(m) \/ Sample(m) \/ Tag(m) \/ Embed(m) \/ Score(m) \/ Like(m))

(* A batch, a scan or the deletion of the folder changes several at once. *)
Next == \A m \in Paths : item'[m] = item[m] \/ Step(m)

Spec == Init /\ [][Next]_item
=============================================================================
