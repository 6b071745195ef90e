SPECIFICATION Spec
CONSTANTS
  c1 = c1
  c2 = c2
  t1 = t1
  t2 = t2
  Clients <- MCClients
  Turns <- MCTurns
  NoClient = noclient
  NoTurn = noturn
  Backends = {"file", "redis", "sqlite", "postgresql", "base_sql"}
PROPERTIES
  LossesAreRollbacks
  RowLockIsAtomic
  DeletedStaysDeleted
