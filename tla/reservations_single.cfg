\* One process at a time; the second asset of the pair has no perceptual metadata
\* yet, and a third sibling is reserved beside it.
SPECIFICATION Spec
CONSTANTS
  vid1 = vid1
  vid2 = vid2
  plain = plain
  vid3 = vid3
  acc1 = acc1
  acc2 = acc2
  fam = fam
  none = none
  k1 = k1
  NoAccount = NoAccount
  NoKey = NoKey
  NoPair = NoPair
  Assets = {vid1, vid2, vid3}
  Accounts = {acc1, acc2}
  Families = {fam}
  NoFamily = none
  Family <- ThreeSiblings
  Keys = {}
  Requests <- ThirdRequests
  Pairs <- MCPairs
  Medias = {m1, m2}
  Workers = {w1}
  MaxRows = 3
  MaxClock = 2
  TTL = 1
  PairTTL = 1
  Cooldown = 1
  Overlap = FALSE
  HashedAtStart <- HashedButSecond
INVARIANTS FamilyExclusive NoCrossAccountReuse
PROPERTIES EvidenceIsTrue
\* Rows and time are bounded, so the system stops.
CHECK_DEADLOCK FALSE
