\* Another machine's change and a crash, a failure or a lost or torn record.
SPECIFICATION FairSpec
CONSTANTS
  root = root  x = x  k = k  none = none  a = a  s = s
  Dirs = {root, x}
  Chains = {k}
  NoChain = none
  Chain = k
  Number <- NumberOf
  Clients = {a}
  Syncs = {s}
  Old = {root}
  MaxOps = 1
  MaxForeign = 1
  MaxFaults = 1
INVARIANT RecordsSound
PROPERTY Convergence
CHECK_DEADLOCK FALSE
