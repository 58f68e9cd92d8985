SPECIFICATION FairSpec
CONSTANTS
    Runs <- OneRun
    InUse <- All
    Budgets <- Any
INVARIANT SettingsReturn
INVARIANT NoStray
PROPERTY KlippyReturns
CHECK_DEADLOCK FALSE
