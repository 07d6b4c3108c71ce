CONSTANTS
  alice = alice
  home = home
  barn = barn
  cafe = cafe
  key = key
  none = none
  own = own
  Owners <- MCOwners
  Aps <- MCAps
  Typed <- MCTyped
  None <- none
  Own <- own
  MaxRejects = 2
  MaxCommands = 3
  MaxCrashes = 1
SPECIFICATION OnbFairSpec
INVARIANT DeletedStaysOut
INVARIANT OnbInv
PROPERTY BackOnline
PROPERTY UnconfirmedGoesBack
