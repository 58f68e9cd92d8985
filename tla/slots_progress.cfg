SPECIFICATION FairSpec
CONSTANTS
    Nebula = {good, bad}
    Good = {good}
    Creality = {vendor}
    NoImage = NoImage
    NoTrial = NoTrial
    TrialAttempts = 1
    Faults = {"cut", "freeze"}
    MaxFaults = 2
INVARIANTS WatchdogResetsBounded WritingLeavesRunningSelected
PROPERTIES StoppedInstallIsUndone TrialGetsVerdict
