\* Every literal of the boundary set, and every policy for a few hosts and every
\* answer of DNS; a fetch ends.
CONSTANTS
    Settings <- MCSettings
    Answers <- MCAnswers
    Targets <- MCTargets
    NoList = NoList
SPECIFICATION GuardSpec
INVARIANTS
    ReachesPublicOnly
    OnlyThePermittedHost
    RefusalsAreJust
CHECK_DEADLOCK FALSE
