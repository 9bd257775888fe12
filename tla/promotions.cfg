\* Three promotions with one state root.
SPECIFICATION FairSpec
CONSTANTS
  v0 = v0
  v1 = v1
  Promotions = {pm1, pm2, pm3}
  Commits = {v0, v1}
  Installed = v0
  Roots = {home}
  Dirty = Dirty
  None = None
  MaxFaults = 2
INVARIANTS TypeOK RestsOnCommitted CommittedIsTrue
PROPERTIES OpenPromotionsSettle
