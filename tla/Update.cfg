SPECIFICATION Spec
CONSTANTS
  db = db
  web = web
  Unnamed = Unnamed
  None = None
  Partial = Partial
  Service = {db, web}
  Stateful = {db}
  Latest = 1
  MaxFault = 1
INVARIANTS OldNeverOnMigrated
PROPERTIES RollbackSticks KeepsContract
CONSTRAINT NothingLost
