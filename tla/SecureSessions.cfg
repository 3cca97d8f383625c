CONSTANTS
  s1 = s1
  s2 = s2
  Sources = {s1, s2}
  MaxPerSource = 2
  MaxGlobal = 3
  Window = 2
  Cooldown = 2
  ChallengeLife = 1
  PairingLife = 1
  SessionLife = 1
  MaxRecords = 2
  MaxAttempts = 4
  MaxPairings = 2
  MaxSent = 3
  MaxTime = 3
SYMMETRY Symmetry
SPECIFICATION Spec
CHECK_DEADLOCK FALSE
INVARIANTS ChallengeInv PolicyInv RecordsInOrderOnce RecordLoadable
