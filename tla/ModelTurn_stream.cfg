SPECIFICATION TurnSpec
CONSTANTS
    one = one
    two = two
    a = a
    b = b
    RawIds = {one, two}
    Args = {a, b}
    Results = {"ok", "error"}
    CallLists <- TheCallLists
    Words = 2
    Tries = 2
    Budget = 2
    MaxTurns = 3
    MaxBatches = 2
    MaxMissed = 1
CHECK_DEADLOCK FALSE
INVARIANTS
    ShownOnce
    CallsKeptApart
