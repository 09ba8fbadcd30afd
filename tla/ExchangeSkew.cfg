\* Two elements ten apart, the standoff a half of it: EXCHANGE_STANDOFF_M in
\* "a 1 m swap" (bse.h:232).
CONSTANTS
    Layout <- Nothing
    Arena <- Nothing
    Occupied = 4
    Standoff = 5
    Pair = {1, 2}
    Stations <- Ends
    Shift = 1
SPECIFICATION SwapSpec
PROPERTIES ApproachCompletes
CHECK_DEADLOCK FALSE
