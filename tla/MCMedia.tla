------------------------------- MODULE MCMedia -------------------------------
(* Small media: content "x" has a person, three keyframes at the short     *)
(* interval and two at the long one; "y" has no person and one keyframe.   *)
EXTENDS MediaPipeline

OnePhotoOrOneVideo == {Photos, Videos}
TwoPhotos == {Photos}

ShowsObjects == [x |-> {0, 1}, y |-> {1}]
ShowsFaces   == [x |-> 2, y |-> 0]
Lasts        == [x |-> 4, y |-> 1]
ShowsFrames  == [x |-> <<{0, 1}, {1}, {1}>>, y |-> <<{1}, {}, {}>>]

Beach == [beach |-> [desc |-> 1, threshold |-> 1]]
BeachAndDog == [beach |-> [desc |-> 1, threshold |-> 2], dog |-> [desc |-> 1, threshold |-> 1]]
TwoReleases == {Beach, BeachAndDog}

LooksLike == [x |-> [beach |-> 1, dog |-> 2], y |-> [beach |-> 0, dog |-> 0],
              opaque |-> [beach |-> 1, dog |-> 0]]
FramesLookLike ==
    [x |-> <<[beach |-> 1, dog |-> 3], [beach |-> 2, dog |-> 1], [beach |-> 0, dog |-> 0]>>,
     y |-> <<[beach |-> 0, dog |-> 0], [beach |-> 0, dog |-> 0], [beach |-> 0, dog |-> 0]>>]
=============================================================================
