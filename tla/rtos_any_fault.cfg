SPECIFICATION Spec
CONSTANTS
    a1 = a1
    a2 = a2
    r1 = r1
    Agents <- TwoAgents
    Rests <- OneRest
    Torn = Torn
    Free = Free
    Gone = Gone
    Commands = {"rtos-logo", "rtos-logo-restore"}
    Budgets <- OneFault
SYMMETRY AgentNames
PROPERTY BackedUp
PROPERTY OwnerWrites
CHECK_DEADLOCK FALSE
