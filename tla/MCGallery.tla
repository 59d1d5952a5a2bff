------------------------------ MODULE MCGallery ------------------------------
(***************************************************************************)
(* One library of nine photos for the three parts of the gallery.  Photos  *)
(* 1 to 3 were taken a year ago on this day, two of them with two faces    *)
(* each, and photo 8 has another; 4 to 6 are an event that labels recognise, 6 without a label and  *)
(* a near-duplicate of 5; 7 to 9 are a burst, and 9 does not look like it. *)
(* A year has ten days.                                                    *)
(***************************************************************************)
EXTENDS Gallery, TLC

CONSTANTS Ann, Ben, Beach, Trip, Secret, Guess

MCScopes    == {{"people"}, {"memories"}, {"albums"}}
Budget     == [s \in MCScopes |-> CASE s = {"people"} -> 3 [] s = {"memories"} -> 2 [] OTHER -> 2]
MCTaken    == <<362, 363, 364, 530, 532, 532, 560, 561, 562>>
MCPlace    == <<0, 1, 2, 200, 200, None, 0, 0, 0>>
MCScene    == <<10, 40, None, 50, 52, 51, 20, 25, 90>>
MCMatches  == <<(1 :> 100), (2 :> 200), <<>>, (1 :> 600) @@ (2 :> 100), (1 :> 700), <<>>,
                (2 :> 600), (2 :> 500), <<>>>>
MCImageOf  == <<1, 1, 2, 2, 8>>
MCLook     == <<0, 3, 0, 5, 4>>
MCClusters == [s \in MCScopes |-> IF s = {"people"} THEN <<None, None, NoFace, NoFace, NoFace>>
                                 ELSE <<1, 2, 1, None, 2>>]
MCAlbums   == [s \in MCScopes |-> IF "albums" \in s THEN (1 :> Album(Beach, TRUE, Secret, {7})) ELSE <<>>]
MCMemories == [s \in MCScopes |-> IF "albums" \notin s THEN <<>> ELSE
    <<"import", 23, 23>> :>
        [photos |-> <<7, 8>>, clips |-> {3}, scores |-> (7 :> 60 @@ 8 :> 50), title |-> 2, start |-> 560,
         end |-> 561, cover |-> 7, score |-> 58, surface |-> 25, viewed |-> FALSE, dismissed |-> FALSE]]
MCClipTaken   == <<531, 560, 561>>
MCClipLength  == <<9, None, 12>>
MCClipSignals == <<[favourite |-> 1000], [favourite |-> 0], [favourite |-> 0, event_strength |-> 100]>>
MCWeights == [favourite |-> 22, known_people |-> 20, event_strength |-> 18, face_presence |-> 12,
              semantic_confidence |-> 10, gps_novelty |-> 10, in_album |-> 8]
=============================================================================
