\* The first upload is deleted while it is being updated; or a later revision is.
SPECIFICATION RetryScenes
CONSTANTS
  r = r  x = x  y = y  none = none  a = a  b = b
  Dirs = {r, x, y}
  Root = r
  NoDir = none
  Stamps = {1}
  Appenders = {a}
  Deleters = {b}
  Targets = {y}
  Retriers = {b}
  MaxLost = 0
  MaxClaims = 0
PROPERTY CommandsSettle
CHECK_DEADLOCK FALSE
