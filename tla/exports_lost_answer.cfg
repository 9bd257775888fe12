\* One export.
SPECIFICATION Spec
CONSTANTS
  as1 = as1
  as2 = as2
  rv1 = rv1
  rv2 = rv2
  Assets = {as1}
  Holds = {rv1}
  AssetOf <- OneHold
  Exports = {ex1}
  NoExport = NoExport
  Batches <- Alone
  Workers = {w1}
  MaxAttempts = 2
  BridgeOverlaps = TRUE
INVARIANTS RejectedHasNoDraft
\* Every export id is used once, so the system stops.
CHECK_DEADLOCK FALSE
