\* Streams, limits, surfaces and deletions of one upload.
SPECIFICATION FairOneSpec
CONSTANTS
  Subjects = {"stream", "limits", "call", "delete"}
  Plans <- PlanSet
  MaxPart = 2
  MaxTotal = 3
  MaxItems = 3
  WireCap = 2
  LargestInteger <- WidestInteger
  ServerOptions <- ServedTried
  CallerLimits <- AskedTried
  UploadSizes <- UploadsTried
  CallRequests <- CallsTried
  ServerReleases <- ServersTried
  CoreFailures <- FailuresTried
  ResultItems <- ItemsTried
INVARIANTS
  TypesOK
  NothingLeft
  UploadHonest
  LimitsAgree
  AnswerTrue
  BundleUnderstood
  GoneIsClean
PROPERTIES
  DeletionOrder
  LivesOnce
  AllEnd
CHECK_DEADLOCK FALSE
