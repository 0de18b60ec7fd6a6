\* The two newest revisions are deleted, each deletion interrupted and repeated.
SPECIFICATION Spec
CONSTANTS
  r = r  x = x  y = y  none = none  a = a  b = b
  Dirs = {r, x, y}
  Root = r
  NoDir = none
  Stamps = {1}
  Appenders = {a}
  Deleters = {b}
  Targets = {x, y}
  Retriers = {a, b}
  MaxLost = 0
  MaxClaims = 0
SYMMETRY Symmetry
INVARIANTS FreshNumber
CHECK_DEADLOCK FALSE
