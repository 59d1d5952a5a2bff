CONSTANTS
    Photos = {p1}
    Videos = {v1}
    Libraries <- OnePhotoOrOneVideo
    p1 = p1
    v1 = v1
    Contents = {"x", "y"}
    Opaque = "opaque"
    Corrupt = "corrupt"
    NoFile = "nofile"
    None = None
    EmbedBatch = 2
    MaxEvents = 2
    MaxFaults = 1
    MaxCrashes = 1
    MaxTrouble = 3
    MaxUuids = 2
    ObjectsIn <- ShowsObjects
    Person = 0
    FacesIn <- ShowsFaces
    Duration <- Lasts
    FrameObjects <- ShowsFrames
    Intervals = {1, 2}
    DefaultInterval = 1
    MaxFrames = 3
    MinSupport = 2
    Labels = {"beach", "dog"}
    Owned = {}
    Seeds <- TwoReleases
    PhotoScores <- LooksLike
    FrameScores <- FramesLookLike
    TopK = 1
SPECIFICATION FairSpec
INVARIANTS TypeOK FlagsFollowEffects FacesRepeatOnlyAfterAFault VideoTagsFollowFrames FramesAreOneSample
PROPERTIES PostersInUseStay ImplementsItems SequencesEnd
CHECK_DEADLOCK FALSE
