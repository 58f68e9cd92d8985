SPECIFICATION FairSpec
CONSTANTS
  b1 = b1
  b2 = b2
  Builds <- MCBuilds
  Creality = Creality
  Damaged = Damaged
  NoWriter = NoWriter
  NoJournal = NoJournal
  Commands = {"install", "reboot", "restart", "datafs-repair"}
  Budgets <- OneFault
INVARIANT DoneHolds
PROPERTY InstallEnds
