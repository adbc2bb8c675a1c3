SPECIFICATION Spec
CONSTANTS
  Corrupt = Corrupt
  alice = alice
  bob = bob
  k1 = k1
  k2 = k2
  k3 = k3
  Src = Src
  NoSrc = NoSrc
  NoKey = NoKey
  NoRef = NoRef
  NoDoc = NoDoc
  NoResult = NoResult
  Dids <- Parties
  ScidDids <- Scid
  Keys <- AllKeys
  CurveOf <- Curves
  MaxGen = 2
  Settings <- AllSettings
INVARIANTS
  AcceptedAsSent
  LegacySignalled
  RefusalIsFinal
  FailureExplained
PROPERTIES
  SourceRemembered
CHECK_DEADLOCK FALSE
