SPECIFICATION MCSpec
CONSTANTS
  u1 = u1
  u2 = u2
  a1 = a1
  a2 = a2
  a3 = a3
  a4 = a4
  a5 = a5
  Callers = {u1, u2}
  Entries = {"move_j", "move_trajectory", "servo_j", "submit_hold"}
  Addrs = {a1, a2, a3, a4, a5}
  NoAddr = NoAddr
  MaxMotions = 5
  MaxStops = 1
  MaxEpoch = 2
  MaxReconnects = 1
  MailboxCap = 1
  RetireCap = 4
  TableSize = 5
  Windows = {"quiet", "fault", "hold", "lapse", "silent", "recover"}
  Polling = TRUE
SYMMETRY AddrSymmetry
INVARIANTS TypeOK StopWins ResolvedIsReadable BuffersReclaimable TableTellsTruth
           KnotsOutliveMotion PushedIsAnswered
CHECK_DEADLOCK FALSE
