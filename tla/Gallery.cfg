SPECIFICATION Spec
CONSTANTS
  None = None
  NoFace = NoFace
  NoCluster = NoCluster
  Ann = Ann
  Ben = Ben
  Beach = Beach
  Trip = Trip
  Secret = Secret
  Guess = Guess
  Photos = {1, 2, 3, 4, 5, 6, 7, 8, 9}
  Scopes <- MCScopes
  MaxEvents <- Budget
  TakenAt <- MCTaken
  Fragile = {1, 5, 8}
  Corrections = {532, None}
  FirstDay = 25
  Faces = {1, 2, 3, 4, 5}
  ImageOf <- MCImageOf
  Look <- MCLook
  Usable = {1, 2, 3, 4, 5}
  MinSamples = 2
  MaxDistance = 3
  MergeDistance = 2
  AssignDistance = 2
  Clusters = {1, 2, 3, 4, 5, 6}
  Names = {Ann, Ben}
  InitialCluster <- MCClusters
  ManyFaces = 3
  MaxPasses = 3
  Clients = {1, 2}
  AlbumIds = {1, 2, 3}
  AlbumNames = {Beach, Trip}
  Passwords = {Secret, Guess}
  InitialAlbums <- MCAlbums
  Place <- MCPlace
  Scene <- MCScene
  Favourites = {1, 6}
  Matches <- MCMatches
  Events = {1}
  Titles = {1, 2}
  Clips = {1, 2, 3}
  ClipTakenAt <- MCClipTaken
  ClipLength <- MCClipLength
  ClipSignals <- MCClipSignals
  Weights <- MCWeights
  DayLength = 24
  YearLength = 10
  MinImages = 2
  MaxImages = 3
  MinForHome = 3
  CandidateLimit = 8
  GapHours = 8
  JumpKm = 40
  SpanDays = 14
  MaxImports = 3
  EventGap = 36
  EventMin = 2
  EventMargin = 15
  OverlapPercent = 60
  MaxSemantics = 3
  Lookahead = 3
  DayWindow = 1
  MaxAnniversaries = 2
  LabelTopN = 2
  TitleMinImages = 2
  ClipSeconds = 15
  StorySeconds = 20
  PhotosPerClip = 9
  MaxClips = 3
  TrimMargin = 10
  RecentDays = 30
  InitialMemories <- MCMemories
  MaxPassesQueued = 2
INVARIANTS
  PeopleTypeOK
  OneFacePerPhoto
  AlbumsTypeOK
  MemoriesShowPhotos
  NothingStale
  NamesReachMemories
PROPERTIES
  NamesAreKept
  NoFacelessPeople
  FirstPeopleAppear
  NoStrandedAlbums
  LocksAreRespected
  LaterTriggersSpareClaims
  UserStateSurvives
CHECK_DEADLOCK FALSE
