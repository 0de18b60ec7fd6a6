\* A download whose storage read fails after the status was sent.
SPECIFICATION OneSpec
CONSTANTS
  Subjects = {"call"}
  Plans <- PlanSet
  MaxPart = 2
  MaxTotal = 3
  MaxItems = 3
  WireCap = 2
  LargestInteger <- WidestInteger
  ServerOptions <- ServedTried
  CallerLimits <- AskedTried
  UploadSizes <- UploadsTried
  CallRequests <- CallsTried
  ServerReleases <- ServersTried
  CoreFailures <- FailuresTried
  ResultItems <- ItemsTried
INVARIANT GetDeliversObject
CHECK_DEADLOCK FALSE
