CONSTANTS
    Jobs = {a, b}
    Tasks <- MCTasks
    Desks <- MCDesks
    Caps <- MCCaps
    Rights <- MCRights
    ZoomMax = 2
    MaxFaults = 1
    MaxBreaks = 1
    MaxReloads = 1
SPECIFICATION Spec
SYMMETRY Alike
INVARIANTS
    FieldsKept
    ClockIsFresh
    StopCancels
    TasksAreHeld
PROPERTY
    HomeIsKept
