SPECIFICATION Spec
CONSTANTS
    Events = {e1, e2}
    Foreign = Foreign
    Broken = Broken
    BatchSize = 1
    MaxSlotLag = 1
    OutboxAge = 0
    InboxAge = 2
    Delay = 1
    ReadAge = 1
    ParkedAge = 1
    MaxFaults = 2
    MaxUnread = 2
    MaxParked = 2
SYMMETRY Symmetry
CHECK_DEADLOCK FALSE
INVARIANTS PrunedIsOwed LossIsBounded EvidenceOutlivesReplay ReplayLosesNothing
