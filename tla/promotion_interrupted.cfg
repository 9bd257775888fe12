\* Two promotions and one kill.
SPECIFICATION FairSpec
CONSTANTS
  v0 = v0
  v1 = v1
  Promotions = {pm1, pm2}
  Commits = {v0, v1}
  Installed = v0
  Roots = {home}
  Dirty = Dirty
  None = None
  MaxFaults = 1
PROPERTIES InterruptedIsReconciled
