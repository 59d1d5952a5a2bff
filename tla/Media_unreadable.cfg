CONSTANTS
    Photos = {p1, p2}
    Videos = {v1}
    Libraries <- TwoPhotos
    p1 = p1
    p2 = p2
    v1 = v1
    Contents = {"x", "y"}
    Opaque = "opaque"
    Corrupt = "corrupt"
    NoFile = "nofile"
    None = None
    EmbedBatch = 2
    MaxEvents = 0
    MaxFaults = 0
    MaxCrashes = 0
    MaxTrouble = 3
    MaxUuids = 4
    ObjectsIn <- ShowsObjects
    Person = 0
    FacesIn <- ShowsFaces
    Duration <- Lasts
    FrameObjects <- ShowsFrames
    Intervals = {1, 2}
    DefaultInterval = 1
    MaxFrames = 3
    MinSupport = 2
    Labels = {"beach", "dog"}
    Owned = {}
    Seeds <- TwoReleases
    PhotoScores <- LooksLike
    FrameScores <- FramesLookLike
    TopK = 1
SPECIFICATION FairSpec
PROPERTIES TaggingReachesEveryPhoto
CHECK_DEADLOCK FALSE
