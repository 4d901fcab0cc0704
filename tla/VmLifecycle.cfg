CONSTANTS
  VMs = {v1}
  Disks = {}
  NoVM = NoVM
  NoDisk = NoDisk
  Calls = {"define", "start", "resume", "suspend", "ask", "ssh", "sshNoWait", "waitCheck", "lookup"}
  WaitLimit = 2
  MaxFaults = 1
SPECIFICATION Spec
INVARIANTS TypeOK ActiveHasDisk FailedIsKept
PROPERTIES CallsReturn
CHECK_DEADLOCK FALSE
