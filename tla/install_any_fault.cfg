SPECIFICATION Spec
CONSTANTS
  b1 = b1
  b2 = b2
  Builds <- MCBuilds
  Creality = Creality
  Damaged = Damaged
  NoWriter = NoWriter
  NoJournal = NoJournal
  Commands = {"install", "reboot", "stock-update", "restart", "datafs-repair"}
  Budgets <- TwoFaults
PROPERTY DangerKept
PROPERTY SlotsKept
PROPERTY EveryExitDisarms
