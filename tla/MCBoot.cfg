SPECIFICATION Spec
CONSTANTS
  p1 = p1
  p2 = p2
  p3 = p3
  Processes = {p1, p2, p3}
  knows <- MCknows
  MaxTries = 2
  MaxFaults = 2
  Nobody = Nobody
  Orphan = Orphan
INVARIANTS
  BootTypeOK
  SchemaIsRecorded
  RunningIsMigrated
  BootsTogether
PROPERTY
  BootEnds
CHECK_DEADLOCK FALSE
