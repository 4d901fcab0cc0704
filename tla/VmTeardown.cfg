CONSTANTS
  VMs = {v1, v2}
  Disks = {d1}
  NoVM = NoVM
  NoDisk = NoDisk
  Calls = {"ssh"}
  WaitLimit = 1
  MaxFaults = 1
SPECIFICATION Spec
INVARIANTS UnregisteredLeavesNothing
PROPERTIES KeptVmStays
CHECK_DEADLOCK FALSE
