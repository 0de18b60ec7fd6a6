\* An upload whose source fails in the middle of its part.
SPECIFICATION OneSpec
CONSTANTS
  Subjects = {"stream"}
  Plans <- PlanSet
  MaxPart = 2
  MaxTotal = 3
  MaxItems = 3
  WireCap = 2
  LargestInteger <- WidestInteger
  ServerOptions <- ServedTried
  CallerLimits <- AskedTried
  UploadSizes <- UploadsTried
  CallRequests <- CallsTried
  ServerReleases <- ServersTried
  CoreFailures <- FailuresTried
  ResultItems <- ItemsTried
INVARIANT PublishedWhole
CHECK_DEADLOCK FALSE
