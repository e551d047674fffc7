SPECIFICATION Spec
CONSTANTS
  m1 = m1
  m2 = m2
  m3 = m3
  Motions = {m1, m2}
  NoMotion = NoMotion
  TargetKinds = {"kHold", "kBrake", "kServo", "kTrajectory"}
  GateInputs <- MixedGates
  Ops = {"stop", "hold", "kick", "beat", "recover"}
  BlindTicks = 1
  ParkTicks = 2
  DwellTicks = 2
  LostTicks = 2
  DeadmanTicks = 2
  MaxPhase = 1
  MaxPos = 0
  SlewStep = 1
  FollowStep = 1
  Deadband = 1
  PosHi = 0
SYMMETRY MotionSymmetry
INVARIANTS TypeOK SlotMatchesProfile KillGateFaults
PROPERTIES OutcomeIsFinal RecoveryHeardController ContractHolds
