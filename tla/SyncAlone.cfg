\* One machine alone: up to three commands while a sync takes as long as it likes.
SPECIFICATION Spec
CONSTANTS
  root = root  x = x  k = k  none = none  a = a  s = s
  Dirs = {root, x}
  Chains = {k}
  NoChain = none
  Chain = k
  Number <- NumberOf
  Clients = {a}
  Syncs = {s}
  Old = {root}
  MaxOps = 3
  MaxForeign = 0
  MaxFaults = 0
INVARIANTS TypeOK InStep
CHECK_DEADLOCK FALSE
