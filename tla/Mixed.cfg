\* Two clients delete any member, one of them also appends; a commit may get no
\* answer and one cleanup claim is granted.  Every step of the code happens.
SPECIFICATION Spec
CONSTANTS
  r = r  x = x  y = y  none = none  a = a  b = b
  Dirs = {r, x, y}
  Root = r
  NoDir = none
  Stamps = {1}
  Appenders = {a}
  Deleters = {a, b}
  Targets = {r, x, y}
  Retriers = {}
  MaxLost = 1
  MaxClaims = 1
SYMMETRY Symmetry
INVARIANT TypeOK
PROPERTY MonotoneReplica
CHECK_DEADLOCK FALSE
