SPECIFICATION ReadersSpec
CONSTANTS
    Sessions = {s1}
    Readers = {r1, r2}
CHECK_DEADLOCK FALSE
INVARIANT StillHasCopy
