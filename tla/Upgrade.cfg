\* An upload and upgrades by two other releases overlap, stop and are repeated.
SPECIFICATION FairSpec
CONSTANTS
  Others = {other}
  Sources = {source}
  Assets = {}
  Kinds = {"page", "document", "files"}
  Uploaders = {c}
  Upgraders = {older, newer}
  Deleters = {}
  Purgers = {}
  Forced = {}
  Guards = {}
  MaxFaults = 1
  MaxLost = 0
  older = older
  newer = newer
  Releases = {1, 2, 3}
  Unordered = {}
  Original = 2
  Generation <- GenerationOf
  Rendering <- RenderingOf
  Release <- ReleaseOf
  Forcing = {older}
INVARIANTS
  PagesBehindMarker
  SuccessHolds
PROPERTIES
  PagesForward
  LivesOnce
  UpgradesSettle
CHECK_DEADLOCK FALSE
