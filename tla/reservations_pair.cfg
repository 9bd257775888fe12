\* One process among everything else, statements interleaved with every other
\* transaction: a pair, an asset without identity and a caller-supplied key; all
\* assets are hashed; time and sweeps are fair, everything else is optional.
SPECIFICATION FairSpec
CONSTANTS
  vid1 = vid1
  vid2 = vid2
  plain = plain
  vid3 = vid3
  acc1 = acc1
  acc2 = acc2
  fam = fam
  none = none
  k1 = k1
  NoAccount = NoAccount
  NoKey = NoKey
  NoPair = NoPair
  Assets = {vid1, vid2, plain}
  Accounts = {acc1, acc2}
  Families = {fam}
  NoFamily = none
  Family <- PairAndUnidentified
  Keys = {k1}
  Requests <- OriginRequests
  Pairs <- MCPairs
  Medias = {m1}
  Workers = {w1}
  MaxRows = 2
  MaxClock = 2
  TTL = 1
  PairTTL = 1
  Cooldown = 1
  Overlap = TRUE
  HashedAtStart <- Hashed
INVARIANTS TypeOK OneActivePerAsset PairAllOrNothing 
PROPERTIES ImplementsLeases EvidenceOfLiveRowsIsTrue ReservationsEnd
\* Rows and time are bounded, so the system stops.
CHECK_DEADLOCK FALSE
