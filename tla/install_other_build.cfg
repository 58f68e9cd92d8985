SPECIFICATION Spec
CONSTANTS
  b1 = b1
  b2 = b2
  Builds <- MCBuilds
  Creality = Creality
  Damaged = Damaged
  NoWriter = NoWriter
  NoJournal = NoJournal
  Commands = {"install"}
  Budgets <- OneKill
PROPERTY DangerSticky
