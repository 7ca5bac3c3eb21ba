CONSTANTS
  k0 = k0
  k1 = k1
  k2 = k2
  k3 = k3
  Key <- MCKey
  EmptyKey = k0
  NoKey = NoKey
  Slots = 4
  PageKeys = 2
SPECIFICATION FairSpec
INVARIANTS TypeOK ListingComplete
PROPERTY ListingEnds
