SPECIFICATION Spec
CONSTANTS
    Nebula = {good, bad}
    Good = {good}
    Creality = {vendor}
    NoImage = NoImage
    NoTrial = NoTrial
    TrialAttempts = 1
    Faults = {"cut"}
    MaxFaults = 1
PROPERTIES SwitchSelectsWhole
