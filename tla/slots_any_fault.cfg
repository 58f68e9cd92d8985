SPECIFICATION Spec
CONSTANTS
    Nebula = {good, bad}
    Good = {good}
    Creality = {vendor}
    NoImage = NoImage
    NoTrial = NoTrial
    TrialAttempts = 1
    Faults = {"cut", "freeze", "kill", "swap", "lost", "io", "count"}
    MaxFaults = 2
INVARIANTS TypeOK SafeFallback ConfirmedIsGood TrialStaysSelected
PROPERTIES InstallSelectsWhole SwitchIsOnTrial KeepsThePromise
