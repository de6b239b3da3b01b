SPECIFICATION Spec
CONSTANTS
  c1 = c1
  c2 = c2
  k1 = k1
  o1 = o1
  o2 = o2
  Client <- MCClient
  Key <- MCKey
  SubObj <- MCSubObj
  Status = {0, 1}
  MaxLost = 1
  Setting <- MCSetting
SYMMETRY MCSymmetry
INVARIANTS SubscribersHearChanges ActiveCountMatches PerIPCountMatches
