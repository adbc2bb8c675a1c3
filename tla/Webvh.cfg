SPECIFICATION Spec
CONSTANTS
  Slots = {s1, s2}
  EntryKinds <- AllKinds
  Now = Now
  MaxTime = 3
  MaxVersions = 2
  MaxResolutions = 2
  MaxDamage = 1
INVARIANTS
  AnswersAreGenuine
  HistoryNeedsWholeLog
  PastIsStable
  NoRefusedHostDialed
SYMMETRY Interchangeable
CHECK_DEADLOCK FALSE
