SPECIFICATION FairSpec
CONSTANTS
  Autos = {"a1"}
  Users = {"u1", "u2"}
  Conditions = {"E_STOP", "IN_ERROR", "TEACH_MODE", "MOTION_NOT_POSSIBLE"}
  Trips = {"RX_SILENT", "WATCHDOG_EXPIRED"}
  RmiFaults = {"error", "syst348", "down"}
  Reconnects = 1
  MaxEvents = 2
INVARIANTS TypeOK LadderGated RecordedNeedsArm
PROPERTIES FaultsHeal RecoveryLetsGo
CHECK_DEADLOCK FALSE
