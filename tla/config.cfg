SPECIFICATION Spec
CONSTANTS
  Inputs <- MCInputs
  Typed <- MCTyped
  Range64 = 64
INVARIANTS
  ValidStarts
  EnvironmentWins
  TLSOffered
  AccountsFound
  NoEmptyPassword
  PrefixShape
  KeyInView
  MapsLikePaths
  NamesLeadBack
CHECK_DEADLOCK FALSE
