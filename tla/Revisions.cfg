\* Two appenders race, up to two commits get no answer and are executed later
\* or never; or a deletion of a revision races with its append and the next; or
\* the first upload and a revision are deleted while another is appended; or two
\* deletions of the first upload race with each other and with appends.
SPECIFICATION ScenesSpec
CONSTANTS
  r = r  x = x  y = y  none = none  a = a  b = b  c = c
  Dirs = {r, x, y}
  Root = r
  NoDir = none
  Stamps = {1}
  Appenders = {a, b}
  Deleters = {}
  Targets = {}
  Retriers = {a}
  MaxLost = 2
  MaxClaims = 1
INVARIANTS NumbersNeverReused OnlyLosersLeave FinalIsLast FreshNumber ReplicasOrdered LinksWhole
CHECK_DEADLOCK FALSE
