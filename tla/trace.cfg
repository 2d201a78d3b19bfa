CONSTANTS
    MaxStages = 5
    MaxTime = 5
SPECIFICATION Spec
CHECK_DEADLOCK FALSE
INVARIANTS ExclusiveDurations
