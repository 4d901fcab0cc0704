CONSTANTS
  Paths = {"input", "tmp", "output"}
  Names = {"PK", "KEK", "db", "dbx", "SecureBootEnable"}
  Guids = {"own", "sb"}
  Files = {"f1", "f2", "gone"}
  Present = {"f1", "f2"}
  AuthFiles = {"f1"}
  Requests <- NoRequests
  Capacity = 14
  Disk <- Factory
  IoFails = TRUE
  MaxData = 1
  Configs <- Lines
  MaxFaults = 1
SPECIFICATION SbSpec
INVARIANTS SuccessMeansEnrolled
PROPERTIES OutputOnlyComplete OutputOnlyGiven RunEnds
