SPECIFICATION Spec
CONSTANTS
    ChunkBytes = 2
    Cores <- MCCores
    Capacity <- MCCapacity
    Uboot = "uImage"
    Squash = "hsqs"
    Noise = "noise"
    Versions = {"1.2"}
    Files = {one, two}
    MaxChanges = 2
INVARIANT InstalledIsValidated
INVARIANT BuiltIsAccepted
SYMMETRY FileNames
CHECK_DEADLOCK FALSE
