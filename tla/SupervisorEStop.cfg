SPECIFICATION Spec
CONSTANTS
  Autos = {"a1"}
  Users = {}
  Conditions = {"E_STOP", "MOTION_NOT_POSSIBLE"}
  Trips = {"RX_SILENT", "WATCHDOG_EXPIRED"}
  RmiFaults = {"syst348", "down"}
  Reconnects = 1
  MaxEvents = 2
INVARIANTS EStopNeedsArm
CHECK_DEADLOCK FALSE
