CHECK_DEADLOCK FALSE
SPECIFICATION Spec
CONSTANTS
  render = render
  paid = paid
  Jobs = {render, paid}
  Procs = {p1, p2}
  Policy <- OneLocalOnePaid
  NoJob = NoJob
  NoRow = NoRow
  MaxAttempts = 2
  MaxStarts = 3
  MaxGrants = 2
  Hasty = {render}
INVARIANT TypeOK
INVARIANT OneEffectPerJob
PROPERTY EffectsAreNotWrittenOff
PROPERTY ReclaimFailsForOneReason
SYMMETRY SameProcs
