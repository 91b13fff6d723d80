SPECIFICATION AccountSpec
CONSTANTS
    r1 = r1
    r2 = r2
    Requests = {r1, r2}
    MaxServed = 3
    LOGIN_MAX_FAILS = 2
    Spellings = {"bo@x", "Bo@x"}
INVARIANTS OnlyNewestLive
CHECK_DEADLOCK FALSE
