SPECIFICATION Spec
CONSTANTS
    Proc <- Two
    HZ = 2
    SCHEDULE_TICKS = 2
    Deltas = {0, 1, 2}
    Delays = {1, 2}
    Times = {3}
    MaxTicks = 5
    NoOne = "none"
CHECK_DEADLOCK FALSE
INVARIANTS TimeKept NextAlarmIsEarliest
PROPERTY AlarmsInTime
