\* One export after another with two assets and the bridge between them.
SPECIFICATION Spec
CONSTANTS
  as1 = as1
  as2 = as2
  rv1 = rv1
  rv2 = rv2
  Assets = {as1, as2}
  Holds = {rv1, rv2}
  AssetOf <- TwoHolds
  Exports = {ex1, ex2}
  NoExport = NoExport
  Batches <- Mixed
  Workers = {w1}
  MaxAttempts = 1
  BridgeOverlaps = FALSE
INVARIANTS TypeOK RejectedHoldsNothing SucceededMeansCommitted
PROPERTY ImplementsHandoffs
\* Every export id is used once, so the system stops.
CHECK_DEADLOCK FALSE
