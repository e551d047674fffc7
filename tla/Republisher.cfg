SPECIFICATION FairSpec
CONSTANTS
    Topics = {"joint_states"}
    StaleAge = 1
    MaxAge = 2
    Offsets <- ClockOffsets
    AgeCap = 8
PROPERTIES
    FreshIsRecent
    FaultAnnounced
CHECK_DEADLOCK FALSE
