SPECIFICATION FairSpec
CONSTANTS
  m1 = m1
  m2 = m2
  m3 = m3
  Motions = {m1}
  NoMotion = NoMotion
  TargetKinds = {"kTrajectory"}
  GateInputs <- AllClearOnly
  Ops = {"stop", "beat", "recover"}
  BlindTicks = 1
  ParkTicks = 2
  DwellTicks = 2
  LostTicks = 3
  DeadmanTicks = 2
  MaxPhase = 1
  MaxPos = 3
  SlewStep = 1
  FollowStep = 1
  Deadband = 1
  PosHi = 2
INVARIANTS SilentTxOnlyOnLoss
PROPERTIES WireContinuity ResumesAtMeasured ProfilesEnd LossesAct
