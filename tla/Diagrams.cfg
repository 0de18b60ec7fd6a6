\* Two diagrams, two themes, and two things the reader does at any moment.
SPECIFICATION FairSpec
CONSTANTS
  Blocks = 2
  Themes <- Catalog
  Light = "github-light"
  Dark = "night"
  Unknown = "elsewhere"
  Stores <- StoreSet
  PrintTheme = "github-light"
  MaxEvents = 2
INVARIANTS TypeOK ReaderSees
PROPERTIES DrawingsForward Settles
CHECK_DEADLOCK FALSE
