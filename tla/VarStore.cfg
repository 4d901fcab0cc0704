CONSTANTS
  Paths = {"p", "q"}
  Names = {"PK", "Kek", "KEK", "DBX", "boot"}
  Guids = {"own", "global"}
  Files = {"f1", "f2"}
  Present = {"f1"}
  AuthFiles = {}
  Requests <- CopyThenEdit
  Capacity = 20
  Disk <- Factory
  IoFails = TRUE
  MaxData = 1
SPECIFICATION Spec
INVARIANTS TypeOK FilesUnique OnePlatformKey
PROPERTIES ImplementsMap CallReturns
