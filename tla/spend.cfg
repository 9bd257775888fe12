\* Two processes; two requests in credits and two in dollars.
SPECIFICATION Spec
CONSTANTS
  still = still
  motion = motion
  prompt = prompt
  edit = edit
  Requests = {still, motion, prompt, edit}
  Procs = {p1, p2}
  Credits = {still, motion}
  Amount <- Quotes
  Charges <- Actuals
  JobsOf <- Jobs
  Limits <- Caps
  Balance0 = 3
  MinBalance = 1
  TTL = 1
  MaxTime = 3
  Issuable <- OneLane
  NoCharge = NoCharge
  NoRequest = NoRequest
INVARIANTS TypeOK WithinCaps BalanceFloor PaidOnce KnownCostsAreTrue
SYMMETRY SameProcs
\* A request is authorized once and time is bounded, so the system stops.
CHECK_DEADLOCK FALSE
