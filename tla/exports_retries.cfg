\* Two exports of one asset by one process after the other, with the bridge and
\* late requests of the first beside the second; the bridge is run again and again.
SPECIFICATION FairSpec
CONSTANTS
  as1 = as1
  as2 = as2
  rv1 = rv1
  rv2 = rv2
  Assets = {as1}
  Holds = {rv1}
  AssetOf <- OneHold
  Exports = {ex1, ex2}
  NoExport = NoExport
  Batches <- Alone
  Workers = {w1}
  MaxAttempts = 2
  BridgeOverlaps = TRUE
INVARIANTS AcceptedHasDraft SubmittedBeforeSent
PROPERTIES DraftsAreAttached
\* Every export id is used once, so the system stops.
CHECK_DEADLOCK FALSE
