SPECIFICATION RecencySpec
CONSTANTS
    Keys = {k1, k2, k3}
    Responses = {ok, denied}
    MaxSize = 2
INVARIANTS LeastRecentGoesNext
CHECK_DEADLOCK FALSE
