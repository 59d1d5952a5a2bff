----------------------------- MODULE PhotoLibrary -----------------------------
(***************************************************************************)
(* The photos that people, memories and albums are made of, seen from      *)
(* those three: which rows of images exist, and when each was taken.  How  *)
(* the rows come about is the business of the scan (PhotoIndex).           *)
(***************************************************************************)
EXTENDS Integers, Sequences, FiniteSets, Functions, FiniteSetsExt, SequencesExt

CONSTANTS
    Photos,         \* the ids of images
    Scopes,         \* which parts of the gallery one behaviour exercises
    TakenAt,        \* captured_at as first extracted, in hours, or None
    Fragile,        \* bound: the photos that may go, or be given another date
    Corrections,    \* what a later extraction may read instead
    None,           \* NULL
    FirstDay,       \* the day on which behaviours start
    MaxEvents       \* bound on what users and scans do, for each scope

ASSUME PhotosAssumption ==
    /\ IsFiniteSet(Photos) /\ Photos \subseteq Nat
    /\ TakenAt \in [Photos -> Int \cup {None}] /\ Corrections \subseteq Int \cup {None}
    /\ FirstDay \in Int

VARIABLES
    scope,      \* the parts this behaviour exercises
    alive,      \* the images that have a row
    taken,      \* images.captured_at
    today,      \* the date
    events      \* how much users and scans have done

libraryVars == <<scope, alive, taken, today, events>>

LibraryInit ==
    /\ scope \in Scopes
    /\ alive = Photos
    /\ taken = TakenAt
    /\ today = FirstDay
    /\ events = 0

About(part) == part \in scope

(* Users and scans. *)
Happens == events < MaxEvents[scope] /\ events' = events + 1

(* A file is gone or its folder is deleted: the row goes, and by ON DELETE *)
(* CASCADE its faces, memory_images and album_images.                      *)
DeletePhoto(p) ==
    /\ Happens
    /\ p \in alive \cap Fragile
    /\ alive' = alive \ {p}
    /\ UNCHANGED <<scope, taken, today>>

(* A re-sync reads another date from the file, or withdraws a guess. *)
CorrectDate(p) ==
    /\ Happens
    /\ p \in alive \cap Fragile
    /\ \E t \in Corrections : t # taken[p] /\ taken' = [taken EXCEPT ![p] = t]
    /\ UNCHANGED <<scope, alive, today>>

Tomorrow ==
    /\ Happens
    /\ today' = today + 1
    /\ UNCHANGED <<scope, alive, taken>>

Abs(x) == IF x < 0 THEN -x ELSE x

(* Members of S, numbers, in the order that Before gives, ties by number. *)
InOrder(S, Before(_, _)) ==
    LET Ahead(q) == {p \in S : Before(p, q) \/ (~Before(q, p) /\ p < q)}
    IN  [i \in 1..Cardinality(S) |-> CHOOSE p \in S : Cardinality(Ahead(p)) = i - 1]

(* The elements of seq that are in S, in their order. *)
Those(seq, S) ==
    LET at == InOrder({i \in DOMAIN seq : seq[i] \in S}, <)
    IN  [i \in DOMAIN at |-> seq[at[i]]]

FirstOf(n, seq) == SubSeq(seq, 1, IF Len(seq) < n THEN Len(seq) ELSE n)
=============================================================================
