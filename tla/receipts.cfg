\* Two attempts at one output, with the same prompt, one executor at a time.
SPECIFICATION FairSpec
CONSTANTS
  clip = clip
  Attempts = {at1, at2}
  Outputs = {clip}
  OutputOf <- OneOutput
  Alike <- AllAlike
  None = None
  MaxEpoch = 1
  MaxFaults = 2
INVARIANTS TypeOK SubmittedOnce BytesAreKept EndedReceiptsAreTrue
PROPERTIES KnownGenerationsSettle
\* An attempt is submitted once, so the system stops.
CHECK_DEADLOCK FALSE
